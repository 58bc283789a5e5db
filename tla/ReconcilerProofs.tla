-------------------------- MODULE ReconcilerProofs --------------------------
(* Theorems about Reconciler, for every set of images, every number of etcd
   replicas, every kind of disruption and any number of them. *)
EXTENDS Reconciler, VersionStreamProofs, TLAPS

-----------------------------------------------------------------------------
(* Type correctness. *)

LEMMA ChildFacts ==
    ASSUME ChildrenOK, NEW o \in Child
    PROVE  /\ children[o] \in Seq(ChildVersion) /\ children[o] # <<>>
           /\ ChildCurrent(o) \in ChildVersion
           /\ ChildCached(o) \in ChildVersion
<1>1. children[o] \in Seq(ChildVersion) /\ children[o] # <<>>
  BY DEF ChildrenOK
<1> QED
  BY <1>1, StreamEnds DEF ChildCurrent, ChildCached

LEMMA KsFacts ==
    ASSUME KubeServiceOK
    PROVE  /\ KsCurrent \in KsVersion
           /\ Cached(kubeService) \in KsVersion
  BY StreamEnds DEF KubeServiceOK, KsCurrent

(* A write to a child keeps the types, and concerns that child only. *)
LEMMA PutChildFacts ==
    ASSUME ChildrenOK, NEW o \in Child, NEW v \in ChildVersion, PutChild(o, v)
    PROVE  /\ ChildrenOK'
           /\ children' = [children EXCEPT ![o] = Store(children[o], v)]
<1>1. children[o] \in Seq(ChildVersion) /\ children[o] # <<>>
  BY DEF ChildrenOK
<1>2. Store(children[o], v) \in Seq(ChildVersion) /\ Store(children[o], v) # <<>>
  <2>1. \A s \in Seq(ChildVersion) :
            s # <<>> => Store(s, v) \in Seq(ChildVersion) /\ Store(s, v) # <<>>
    BY StoreFacts
  <2> QED
    BY <1>1, <2>1
<1>3. children' = [children EXCEPT ![o] = Store(children[o], v)]
  BY DEF PutChild
<1>4. children' \in [Child -> Seq(ChildVersion)]
  BY <1>2, <1>3 DEF ChildrenOK
<1>5. ASSUME NEW p \in Child PROVE children'[p] # <<>>
  <2>1. CASE p = o
    BY <1>2, <1>3, <2>1 DEF ChildrenOK
  <2>2. CASE p # o
    BY <1>3, <2>2 DEF ChildrenOK
  <2> QED
    BY <2>1, <2>2
<1> QED
  BY <1>3, <1>4, <1>5 DEF ChildrenOK

LEMMA StatusUpdateType ==
    ASSUME TypeOK, NEW conds \in [ConditionType -> ConditionStatus], NEW r \in Response,
           StatusUpdate(conds, r)
    PROVE  KubeServiceOK' /\ budget' \in Nat
<1>1. [KsCurrent EXCEPT !.conds = conds] \in KsVersion
  BY KsFacts DEF TypeOK, KsVersion
<1>2. KubeServiceOK'
  BY <1>1, StoreFacts DEF TypeOK, KubeServiceOK, StatusUpdate
<1>3. budget' \in Nat
  BY DEF TypeOK, StatusUpdate, Spend, Disturb
<1> QED
  BY <1>2, <1>3

LEMMA AfterUpdateType ==
    ASSUME TypeOK, NEW conds \in [ConditionType -> ConditionStatus], NEW r \in Response
    PROVE  /\ AfterUpdate(conds, r) \in [image : Images \cup {NoImage},
                     conds : [ConditionType -> ConditionStatus], fresh : BOOLEAN]
           /\ AfterUpdate(conds, r).image = mem.image
           /\ AfterUpdate(conds, r).conds = conds
  BY DEF TypeOK, OperatorOK, AfterUpdate

LEMMA ConditionTypes ==
    ASSUME NEW conds \in [ConditionType -> ConditionStatus], NEW t \in ConditionType,
           NEW status \in ConditionStatus
    PROVE  /\ SetConditionByType(conds, t, status) \in [ConditionType -> ConditionStatus]
           /\ EtcdJudged \in ConditionStatus
           /\ \A d : DeploymentAvailable(d) \in ConditionStatus
           /\ \A c : KubeServiceAvailable(c) \in ConditionStatus
           /\ NoConditions \in [ConditionType -> ConditionStatus]
  BY DEF SetConditionByType, EtcdJudged, EtcdAvailable, DeploymentAvailable,
         KubeServiceAvailable, ConditionStatus, NoConditions

LEMMA NoPassType ==
    NoPass \in [image : Images \cup {NoImage}, conds : [ConditionType -> ConditionStatus],
                fresh : BOOLEAN]
  BY DEF NoPass, NoConditions, ConditionStatus

(* The versions the controller and its world write are versions of a child. *)
LEMMA ChildVersions ==
    ASSUME ChildrenOK, NEW o \in Child
    PROVE  /\ Gone(ChildCurrent(o)) \in ChildVersion
           /\ [ChildCurrent(o) EXCEPT !.deleting = TRUE] \in ChildVersion
           /\ \A image \in Images \cup {NoImage} :
                 /\ Created(ChildCurrent(o), image) \in ChildVersion
                 /\ [ChildCurrent(o) EXCEPT !.image = image] \in ChildVersion
           /\ \A available \in BOOLEAN, ready \in Nat :
                 [ChildCurrent(o) EXCEPT !.available = available, !.ready = ready]
                     \in ChildVersion
<1> DEFINE v == ChildCurrent(o)
<1>1. v \in ChildVersion
  BY ChildFacts
<1> HIDE DEF v
<1>2. v.uid \in Nat /\ v.uid + 1 \in Nat
  BY <1>1 DEF ChildVersion
<1>3. Gone(v) \in ChildVersion
  BY <1>2 DEF ChildVersion, Gone, NeverCreated
<1>4. [v EXCEPT !.deleting = TRUE] \in ChildVersion
  BY <1>1 DEF ChildVersion
<1>5. ASSUME NEW image \in Images \cup {NoImage}
      PROVE  /\ Created(v, image) \in ChildVersion
             /\ [v EXCEPT !.image = image] \in ChildVersion
  BY <1>1, <1>2 DEF ChildVersion, Created, NeverCreated
<1>6. ASSUME NEW available \in BOOLEAN, NEW ready \in Nat
      PROVE  [v EXCEPT !.available = available, !.ready = ready] \in ChildVersion
  BY <1>1 DEF ChildVersion
<1> QED
  BY <1>3, <1>4, <1>5, <1>6 DEF v

(* What applying a child would store. *)
LEMMA WantedType ==
    ASSUME TypeOK, NEW o \in Child
    PROVE  Wanted(o) \in ChildVersion
<1>1. mem.image \in Images \cup {NoImage}
  BY DEF TypeOK, OperatorOK
<1> QED
  BY <1>1, ChildVersions, ChildFacts DEF TypeOK, Wanted

LEMMA ApplyChildType ==
    ASSUME TypeOK, NEW o \in Child, NEW r \in Response,
           NEW plan \in {EtcdPlan, KasPlan, KcmPlan}, ApplyChild(o, plan, r)
    PROVE  ChildrenOK' /\ objects' \subseteq AllObjects /\ budget' \in Nat
<1>1. Wanted(o) \in ChildVersion
  BY WantedType
<1>2. ChildrenOK'
  <2>1. CASE PutChild(o, Wanted(o))
    BY <1>1, <2>1, PutChildFacts DEF TypeOK
  <2>2. CASE UNCHANGED children
    BY <2>2 DEF TypeOK, ChildrenOK
  <2> QED
    BY <2>1, <2>2 DEF ApplyChild
<1>3. Objects(plan) \subseteq AllObjects
  BY DEF AllObjects
<1>4. \A n \in 0 .. Len(plan) : FirstObjects(plan, n) \subseteq Objects(plan)
  <2>1. Len(plan) \in Nat
    BY DEF EtcdPlan, KasPlan, KcmPlan
  <2> QED
    BY <2>1 DEF FirstObjects, Objects
<1>5. objects' \subseteq AllObjects
  BY <1>3, <1>4 DEF ApplyChild, TypeOK
<1>6. budget' \in Nat
  BY DEF ApplyChild, Spend, Disturb, TypeOK
<1> QED
  BY <1>2, <1>5, <1>6

LEMMA ForeignChildWriteType ==
    ASSUME TypeOK, NEW o \in Child, NEW v \in ChildVersion, ForeignChildWrite(o, v),
           budget' \in Nat
    PROVE  TypeOK'
<1>1. ChildrenOK'
  BY PutChildFacts DEF TypeOK, ForeignChildWrite
<1>2. wasUp' \in [Child -> SUBSET Nat]
  <2>1. v.uid \in Nat
    BY DEF ChildVersion
  <2> QED
    BY <2>1 DEF TypeOK, ForeignChildWrite
<1> QED
  BY <1>1, <1>2 DEF TypeOK, ForeignChildWrite, KubeServiceOK, OperatorOK, queue

LEMMA ForeignKsWriteType ==
    ASSUME TypeOK, NEW v \in KsVersion, ForeignKsWrite(v), budget' \in Nat
    PROVE  TypeOK'
<1>1. KubeServiceOK'
  BY StoreFacts DEF TypeOK, KubeServiceOK, ForeignKsWrite
<1>2. OperatorOK'
  BY DEF TypeOK, OperatorOK, ForeignKsWrite, queue
<1> QED
  BY <1>1, <1>2 DEF TypeOK, ForeignKsWrite, ChildrenOK

(* The three ways a step of the pass ends. *)
LEMMA PassEnds ==
    ASSUME TypeOK, dirty' = dirty, releaseInfoCache' = releaseInfoCache
    PROVE  /\ Requeue \/ Done => OperatorOK'
           /\ \A step \in PassStep :
                 Goto(step) /\ UNCHANGED mem /\ pc # "idle" => OperatorOK'
<1>1. Requeue \/ Done => OperatorOK'
  BY NoPassType DEF Requeue, Done, OperatorOK, TypeOK
<1>2. ASSUME NEW step \in PassStep, Goto(step), UNCHANGED mem, pc # "idle"
      PROVE  OperatorOK'
  BY <1>2 DEF Goto, OperatorOK, TypeOK
<1> QED
  BY <1>1, <1>2

LEMMA GotoUpdated ==
    ASSUME TypeOK, dirty' = dirty, releaseInfoCache' = releaseInfoCache, pc # "idle",
           NEW conds \in [ConditionType -> ConditionStatus], NEW r \in Response,
           NEW step \in PassStep, Goto(step), mem' = AfterUpdate(conds, r)
    PROVE  OperatorOK'
  BY AfterUpdateType DEF TypeOK, OperatorOK, Goto

LEMMA TypeInit == Init => TypeOK
<1> SUFFICES ASSUME Init PROVE TypeOK
  OBVIOUS
<1>1. KubeServiceOK
  <2>1. PICK image \in Images :
            kubeService = <<[exists |-> TRUE, deleting |-> FALSE, image |-> image,
                             conds |-> NoConditions]>>
    BY DEF Init
  <2>2. [exists |-> TRUE, deleting |-> FALSE, image |-> image, conds |-> NoConditions]
            \in KsVersion
    BY DEF KsVersion, NoConditions, ConditionStatus
  <2> QED
    BY <2>1, <2>2 DEF KubeServiceOK
<1>2. ChildrenOK
  <2>1. NeverCreated \in ChildVersion
    BY DEF NeverCreated, ChildVersion
  <2> QED
    BY <2>1 DEF Init, ChildrenOK
<1>3. OperatorOK
  BY NoPassType DEF Init, OperatorOK
<1> QED
  BY <1>1, <1>2, <1>3, DisruptionsAssumption DEF Init, TypeOK

(* A status step: skip, wait, or update the condition and go on or stop. *)
LEMMA StatusStepType ==
    ASSUME TypeOK, EtcdStatus \/ KasStatus \/ KcmStatus \/ KsStatus
    PROVE  TypeOK'
<1> USE DEF PassStep
<1>1. /\ dirty' = dirty /\ releaseInfoCache' = releaseInfoCache /\ pc # "idle"
      /\ UNCHANGED <<children, objects, aged, terminatedPods, wasUp>>
  BY DEF EtcdStatus, KasStatus, KcmStatus, KsStatus
<1>2. mem.conds \in [ConditionType -> ConditionStatus]
  BY DEF TypeOK, OperatorOK
<1>3. KubeServiceOK' /\ budget' \in Nat /\ OperatorOK'
  <2>1. ASSUME NEW o \in Child, WaitForDeletion(o)
        PROVE  KubeServiceOK' /\ budget' \in Nat /\ OperatorOK'
    BY <1>1, <2>1, PassEnds DEF WaitForDeletion, TypeOK, KubeServiceOK
  <2>2. ASSUME NEW o \in Child, NEW next \in PassStep, SkipMissing(o, next)
        PROVE  KubeServiceOK' /\ budget' \in Nat /\ OperatorOK'
    BY <1>1, <2>2, PassEnds DEF SkipMissing, TypeOK, KubeServiceOK
  <2>3. ASSUME NEW conds \in [ConditionType -> ConditionStatus], NEW r \in Response,
               NEW next \in PassStep, StatusUpdate(conds, r),
               \/ mem' = AfterUpdate(conds, r) /\ Goto(next)
               \/ Requeue
        PROVE  KubeServiceOK' /\ budget' \in Nat /\ OperatorOK'
    <3>1. KubeServiceOK' /\ budget' \in Nat
      BY <2>3, StatusUpdateType
    <3>2. OperatorOK'
      BY <1>1, <2>3, PassEnds, GotoUpdated
    <3> QED
      BY <3>1, <3>2
  <2>4. CASE UpdateEtcdCondition
    <3> DEFINE conds == SetConditionByType(mem.conds, "etcd", EtcdJudged)
    <3>1. conds \in [ConditionType -> ConditionStatus]
      BY <1>2, ConditionTypes DEF ConditionType, Child, ConditionStatus,
         SetConditionByType
    <3> QED
      BY <2>3, <2>4, <3>1 DEF UpdateEtcdCondition
  <2>5. CASE UpdateKasCondition
    <3> DEFINE conds == SetConditionByType(mem.conds, "kas",
                                          DeploymentAvailable(ChildCached("kas")))
    <3>1. conds \in [ConditionType -> ConditionStatus]
      BY <1>2, ConditionTypes DEF ConditionType, Child, ConditionStatus
    <3> QED
      BY <2>3, <2>5, <3>1 DEF UpdateKasCondition
  <2>6. CASE UpdateKcmCondition
    <3> DEFINE conds == SetConditionByType(mem.conds, "kcm",
                                          DeploymentAvailable(ChildCached("kcm")))
    <3>1. conds \in [ConditionType -> ConditionStatus]
      BY <1>2, ConditionTypes DEF ConditionType, Child, ConditionStatus
    <3> QED
      BY <2>3, <2>6, <3>1 DEF UpdateKcmCondition
  <2>7. CASE KsStatus
    <3> DEFINE conds == SetConditionByType(mem.conds, "ks", KubeServiceAvailable(mem.conds))
    <3>1. conds \in [ConditionType -> ConditionStatus]
      BY <1>2, ConditionTypes DEF ConditionType, ConditionStatus
    <3> QED
      BY <2>3, <2>7, <3>1 DEF KsStatus
  <2> QED
    BY <2>1, <2>2, <2>4, <2>5, <2>6, <2>7 DEF EtcdStatus, KasStatus, KcmStatus, Child
<1> QED
  BY <1>1, <1>3 DEF TypeOK, ChildrenOK

LEMMA ApplyStepType ==
    ASSUME TypeOK, ApplyEtcd \/ ApplyKas \/ ApplyKcm
    PROVE  TypeOK'
<1> USE DEF PassStep
<1>1. /\ dirty' = dirty /\ releaseInfoCache' = releaseInfoCache /\ pc # "idle"
      /\ UNCHANGED <<kubeService, aged, terminatedPods, wasUp>>
  BY DEF ApplyEtcd, ApplyKas, ApplyKcm
<1>3. PICK o \in Child, plan \in {EtcdPlan, KasPlan, KcmPlan}, r \in Response :
          /\ ApplyChild(o, plan, r)
          /\ Requeue \/ Done \/ \E step \in PassStep : Goto(step) /\ UNCHANGED mem
  <2>1. CASE ApplyEtcd
    BY <2>1 DEF ApplyEtcd, EtcdGate, Child
  <2>2. CASE ApplyKas
    BY <2>2 DEF ApplyKas, KasGate, Child
  <2>3. CASE ApplyKcm
    BY <2>3 DEF ApplyKcm, Child
  <2> QED
    BY <2>1, <2>2, <2>3
<1>4. ChildrenOK' /\ objects' \subseteq AllObjects /\ budget' \in Nat
  BY <1>3, ApplyChildType
<1>5. OperatorOK'
  BY <1>1, <1>3, PassEnds
<1> QED
  BY <1>1, <1>4, <1>5 DEF TypeOK, KubeServiceOK

LEMMA DeleteStepType == TypeOK /\ EtcdDelete => TypeOK'
<1> SUFFICES ASSUME TypeOK, EtcdDelete PROVE TypeOK'
  OBVIOUS
<1>1. OperatorOK'
  BY PassEnds DEF EtcdDelete
<1>2. ChildrenOK' /\ budget' \in Nat
  <2> "etcd" \in Child
    BY DEF Child
  <2>1. \/ PutChild("etcd", Gone(ChildCurrent("etcd")))
        \/ PutChild("etcd", [ChildCurrent("etcd") EXCEPT !.deleting = TRUE])
        \/ UNCHANGED children
    BY DEF EtcdDelete
  <2>2. ChildrenOK'
    BY <2>1, PutChildFacts, ChildVersions DEF TypeOK, ChildrenOK
  <2> QED
    BY <2>2 DEF EtcdDelete, Spend, Disturb, TypeOK
<1> QED
  BY <1>1, <1>2 DEF EtcdDelete, TypeOK, KubeServiceOK

LEMMA OtherPassStepType ==
    ASSUME TypeOK, Start \/ ReleaseImage \/ DelayExpires
    PROVE  TypeOK'
<1> USE DEF PassStep
<1>1. UNCHANGED world /\ budget' \in Nat
  BY DEF Start, ReleaseImage, DelayExpires, Spend, Disturb, TypeOK
<1>2. OperatorOK'
  <2>1. CASE Start
    <3>1. CASE Cached(kubeService).exists /\ ~Cached(kubeService).deleting
      <4>1. mem' \in [image : Images, conds : [ConditionType -> ConditionStatus],
                      fresh : BOOLEAN]
        BY <2>1, <3>1, KsFacts DEF Start, TypeOK, KsVersion, Synced
      <4> QED
        BY <2>1, <3>1, <4>1 DEF Start, Goto, OperatorOK, TypeOK
    <3>2. CASE ~(Cached(kubeService).exists /\ ~Cached(kubeService).deleting)
      BY <2>1, <3>2, NoPassType DEF Start, Done, OperatorOK, TypeOK
    <3> QED
      BY <3>1, <3>2
  <2>2. CASE ReleaseImage
    BY <2>2, NoPassType DEF ReleaseImage, Goto, Requeue, OperatorOK, TypeOK
  <2>3. CASE DelayExpires
    BY <2>3 DEF DelayExpires, OperatorOK, TypeOK
  <2> QED
    BY <2>1, <2>2, <2>3
<1> QED
  BY <1>1, <1>2 DEF world, TypeOK, KubeServiceOK, ChildrenOK

LEMMA DeliverType ==
    ASSUME TypeOK, DeliverKs \/ \E o \in Child : DeliverChild(o)
    PROVE  TypeOK'
<1>1. CASE DeliverKs
  <2>1. KubeServiceOK'
    BY <1>1, DeliverFacts DEF DeliverKs, KubeServiceOK, TypeOK
  <2> QED
    BY <1>1, <2>1 DEF DeliverKs, TypeOK, ChildrenOK, OperatorOK
<1>2. ASSUME NEW o \in Child, DeliverChild(o) PROVE TypeOK'
  <2> DEFINE t == Tail(children[o])
  <2>1. t \in Seq(ChildVersion) /\ t # <<>>
    <3>1. \A s \in Seq(ChildVersion) :
              s # <<>> /\ ~Synced(s) => Tail(s) \in Seq(ChildVersion) /\ Tail(s) # <<>>
      BY DeliverFacts
    <3> QED
      BY <1>2, <3>1, ChildFacts DEF DeliverChild, TypeOK
  <2>2. children' = [children EXCEPT ![o] = t]
    BY <1>2 DEF DeliverChild
  <2> HIDE DEF t
  <2>3. ChildrenOK'
    <3>1. children' \in [Child -> Seq(ChildVersion)]
      BY <2>1, <2>2 DEF TypeOK, ChildrenOK
    <3>2. \A p \in Child : children'[p] = IF p = o THEN t ELSE children[p]
      BY <2>2 DEF TypeOK, ChildrenOK
    <3> QED
      BY <2>1, <3>1, <3>2 DEF TypeOK, ChildrenOK
  <2> QED
    BY <1>2, <2>3 DEF DeliverChild, TypeOK, KubeServiceOK, OperatorOK, Queues
<1> QED
  BY <1>1, <1>2

LEMMA RestartType == TypeOK /\ Restart => TypeOK'
<1> SUFFICES ASSUME TypeOK, Restart PROVE TypeOK'
  OBVIOUS
<1>1. KubeServiceOK'
  BY RelistFacts DEF Restart, KubeServiceOK, TypeOK
<1>2. ChildrenOK'
  <2>1. \A s \in Seq(ChildVersion) :
            s # <<>> => Relisted(s) \in Seq(ChildVersion) /\ Relisted(s) # <<>>
    BY RelistFacts
  <2>2. \A o \in Child : Relisted(children[o]) \in Seq(ChildVersion)
                         /\ Relisted(children[o]) # <<>>
    BY <2>1 DEF TypeOK, ChildrenOK
  <2> QED
    BY <2>2 DEF Restart, ChildrenOK
<1>3. OperatorOK'
  BY NoPassType DEF Restart, OperatorOK
<1> QED
  BY <1>1, <1>2, <1>3 DEF Restart, Disturb, TypeOK

LEMMA UserType ==
    ASSUME TypeOK,
           \/ UserEditsSpec \/ UserDeletesKs \/ KsFinalized
           \/ BootstrapTimeout \/ PodTerminates \/ PodsReplaced \/ Resync
    PROVE  TypeOK'
<1>1. budget' \in Nat
  BY DEF UserEditsSpec, UserDeletesKs, KsFinalized, BootstrapTimeout, PodTerminates,
         PodsReplaced, PodsRemoved, Resync, Disturb, TypeOK
<1>2. KsCurrent \in KsVersion
  BY KsFacts DEF TypeOK
<1>3. /\ \A image \in Images : [KsCurrent EXCEPT !.image = image] \in KsVersion
      /\ [KsCurrent EXCEPT !.deleting = TRUE] \in KsVersion
      /\ [KsCurrent EXCEPT !.exists = FALSE] \in KsVersion
  BY <1>2 DEF KsVersion
<1>4. CASE UserEditsSpec \/ UserDeletesKs \/ KsFinalized
  BY <1>1, <1>3, <1>4, ForeignKsWriteType DEF UserEditsSpec, UserDeletesKs, KsFinalized
<1>5. CASE BootstrapTimeout
  <2>1. ChildCurrent("etcd").uid \in Nat
    BY ChildFacts DEF TypeOK, Child, ChildVersion
  <2> QED
    BY <1>1, <1>5, <2>1 DEF BootstrapTimeout, queue, TypeOK, KubeServiceOK, ChildrenOK,
       OperatorOK
<1>6. CASE PodTerminates \/ PodsReplaced \/ Resync
  <2>1. ChildCurrent("etcd").uid \in Nat
    BY ChildFacts DEF Child, ChildVersion, TypeOK
  <2>2. terminatedPods' \subseteq Nat
    BY <1>6, <2>1 DEF PodTerminates, PodsReplaced, PodsRemoved, Resync, world, TypeOK
  <2> QED
    BY <1>1, <1>6, <2>2 DEF PodTerminates, PodsReplaced, PodsRemoved, Resync, queue, world,
       TypeOK, KubeServiceOK, ChildrenOK, OperatorOK
<1> QED
  BY <1>4, <1>5, <1>6

(* Whoever else writes to a child writes a version of it. *)
LEMMA ForeignWrites ==
    ASSUME TypeOK, NEW o \in Child,
           \/ UserDeletesChild(o) \/ UserEditsDeployment(o) \/ StatusChanges(o)
           \/ BecomesUp(o) \/ Finalized(o) \/ Collected(o)
    PROVE  \E v \in ChildVersion : ForeignChildWrite(o, v)
<1> ChildrenOK
  BY DEF TypeOK
<1>1. Replicas(o) \in Nat /\ \A n \in 0 .. Replicas(o) : n \in Nat
  BY ReplicasAssumption DEF Replicas
<1>2. CASE UserDeletesChild(o) \/ Finalized(o) \/ Collected(o)
  BY <1>2, ChildVersions DEF UserDeletesChild, Finalized, Collected
<1>3. CASE UserEditsDeployment(o)
  BY <1>3, ChildVersions DEF UserEditsDeployment
<1>4. CASE StatusChanges(o)
  BY <1>1, <1>4, ChildVersions DEF StatusChanges
<1>5. CASE BecomesUp(o)
  BY <1>1, <1>5, ChildVersions DEF BecomesUp
<1> QED
  BY <1>2, <1>3, <1>4, <1>5

LEMMA ForeignChildType ==
    ASSUME TypeOK, NEW o \in Child,
           \/ UserDeletesChild(o) \/ UserEditsDeployment(o) \/ StatusChanges(o)
           \/ BecomesUp(o) \/ Finalized(o) \/ Collected(o)
    PROVE  TypeOK'
<1>1. budget' \in Nat
  <2>1. UserDeletesChild(o) => Disturb("child")
    BY DEF UserDeletesChild
  <2>2. UserEditsDeployment(o) => Disturb("drift")
    BY DEF UserEditsDeployment
  <2>3. StatusChanges(o) => Disturb("status")
    BY DEF StatusChanges
  <2>4. BecomesUp(o) \/ Finalized(o) \/ Collected(o) => UNCHANGED budget
    BY DEF BecomesUp, Finalized, Collected
  <2> QED
    BY <2>1, <2>2, <2>3, <2>4 DEF Disturb, TypeOK
<1>2. \E v \in ChildVersion : ForeignChildWrite(o, v)
  BY ForeignWrites
<1> QED
  BY <1>1, <1>2, ForeignChildWriteType

LEMMA TypeStep == TypeOK /\ [Next]_vars => TypeOK'
<1> SUFFICES ASSUME TypeOK, [Next]_vars PROVE TypeOK'
  OBVIOUS
<1>1. CASE Reconcile
  BY <1>1, StatusStepType, ApplyStepType, DeleteStepType, OtherPassStepType DEF Reconcile
<1>2. CASE Controller
  BY <1>1, <1>2, DeliverType, OtherPassStepType DEF Controller
<1>3. CASE Disruption
  BY <1>3, RestartType, UserType, ForeignChildType DEF Disruption
<1>4. CASE Cluster
  BY <1>4, UserType, ForeignChildType DEF Cluster
<1>5. CASE UNCHANGED vars
  BY <1>5 DEF vars, TypeOK, KubeServiceOK, ChildrenOK, OperatorOK
<1> QED
  BY <1>2, <1>3, <1>4, <1>5 DEF Next

(* The state of the operator, the API server and the history stays well formed:
   no stream of versions ever runs empty, a pass always knows its image. *)
THEOREM TypeCorrect == SafetySpec => []TypeOK
<1> QED
  BY TypeInit, TypeStep, PTL DEF SafetySpec
=============================================================================
