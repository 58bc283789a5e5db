----------------------------- MODULE Reconciler -----------------------------
(***************************************************************************)
(* The KubernetesService controller of hypershift-lite for one             *)
(* KubernetesService in its namespace: KubernetesServiceReconciler run by  *)
(* controller-runtime's single worker, the API server and informer cache   *)
(* it talks to, and the world around it (users, the etcd operator, the     *)
(* deployment controller, the garbage collector, the clock).               *)
(*                                                                         *)
(* One pass of Reconcile is a sequence of steps, named by pc.  A step is a *)
(* cached read together with the API call that depends on it; everything   *)
(* else may happen between two steps.  The cached copy of the              *)
(* KubernetesService that the pass works on, conditions included, is mem.  *)
(***************************************************************************)
EXTENDS Naturals, Sequences, VersionStream, Conditions, Plans

CONSTANTS
    Images,              \* release images a user may ask for
    NoImage,             \* the image of an object that does not exist
    Kinds,               \* the kinds of disruption that happen
    MaxDisruptions       \* bound: disruptions in a behaviour

DisruptionKind ==
    {"call", "restart", "spec", "deletion", "child", "drift", "status",
     "timeout", "pod", "resync"}

ASSUME ImagesAssumption == Images # {} /\ NoImage \notin Images
ASSUME DisruptionsAssumption == Kinds \subseteq DisruptionKind /\ MaxDisruptions \in Nat

VARIABLES
    kubeService,         \* versions of the KubernetesService
    children,            \* versions of the EtcdCluster and the two Deployments
    objects,             \* the other objects that were applied
    aged,                \* EtcdClusters created longer ago than the timeout
    terminatedPods,      \* EtcdClusters one of whose pods has a terminated container
    dirty,               \* the service is in the work queue
    delayed,             \* the service waits to be added to the work queue
    pc,                  \* the next step of the running pass
    mem,                 \* the pass's own copy of the KubernetesService
    releaseInfoCache,    \* images the operator process has looked up
    wasUp,               \* history: incarnations of a child that were up
    budget               \* disruptions left

world == <<kubeService, children, objects, aged, terminatedPods, wasUp>>
queue == <<dirty, delayed>>
vars == <<kubeService, children, objects, aged, terminatedPods, dirty, delayed,
          pc, mem, releaseInfoCache, wasUp, budget>>

-----------------------------------------------------------------------------
(* Objects.  A child that is gone keeps the uid of its last incarnation, so
   that the next one can be told apart; uid 0 is never created. *)

KsVersion ==
    [exists : BOOLEAN, deleting : BOOLEAN, image : Images,
     conds : [ConditionType -> ConditionStatus]]

ChildVersion ==
    [exists : BOOLEAN, uid : Nat, deleting : BOOLEAN, available : BOOLEAN,
     ready : Nat, image : Images \cup {NoImage}]

Replicas(o) == IF o = "etcd" THEN etcdClusterReplicas ELSE 1

NeverCreated ==
    [exists |-> FALSE, uid |-> 0, deleting |-> FALSE, available |-> FALSE,
     ready |-> 0, image |-> NoImage]

Gone(v) == [NeverCreated EXCEPT !.uid = v.uid]

Created(v, image) == [NeverCreated EXCEPT !.exists = TRUE, !.uid = v.uid + 1,
                                          !.image = image]

(* Up in the sense of the status reconcilers: etcd by its Available
   condition, a Deployment also by its available replicas. *)
IsUp(o, v) == v.exists /\ v.available /\ (o = "etcd" \/ v.ready > 0)

(* Mutant: the controller manager's Deployment gets no owner reference. *)
OwnedWithoutKcm == {"etcd", "kas"}

(* The children that are given an owner reference to the service: their events
   queue it, and they are garbage collected after it. *)
Owned == {"etcd", "kas", "kcm"}

KsCurrent == Current(kubeService)

ChildCurrent(o) == Current(children[o])

ChildCached(o) == Cached(children[o])

KsLive == KsCurrent.exists /\ ~KsCurrent.deleting

PutChild(o, v) == children' = [children EXCEPT ![o] = Store(@, v)]

-----------------------------------------------------------------------------
(* The work queue and the pass. *)

PassStep == {"EtcdStatus", "EtcdDelete", "KasStatus", "KcmStatus", "KsStatus",
             "ApplyEtcd", "ReleaseImage", "ApplyKas", "ApplyKcm"}

NoPass == [image |-> NoImage, conds |-> NoConditions, fresh |-> FALSE]

Goto(step) == pc' = step /\ UNCHANGED delayed

(* return ctrl.Result{}, nil *)
Done == pc' = "idle" /\ mem' = NoPass /\ UNCHANGED delayed

(* An error is retried after the rate limiter's delay, RequeueAfter after the
   delay it names: either way the queue gets the service back later. *)
Requeue == pc' = "idle" /\ mem' = NoPass /\ delayed' = TRUE

Disturb(kind) == kind \in Kinds /\ budget > 0 /\ budget' = budget - 1

(* What can happen to a call: the API server answers it, it never arrives, or
   the server carries it out and the answer is lost. *)
Response == {"answered", "refused", "lost"}

Spend(r) == IF r = "answered" THEN UNCHANGED budget ELSE Disturb("call")

Init ==
    /\ \E image \in Images :
          kubeService = <<[exists |-> TRUE, deleting |-> FALSE, image |-> image,
                           conds |-> NoConditions]>>
    /\ children = [o \in Child |-> <<NeverCreated>>]
    /\ objects = {}
    /\ aged = {}
    /\ terminatedPods = {}
    /\ dirty = TRUE
    /\ delayed = FALSE
    /\ pc = "idle"
    /\ mem = NoPass
    /\ releaseInfoCache = {}
    /\ wasUp = [o \in Child |-> {}]
    /\ budget = MaxDisruptions

-----------------------------------------------------------------------------
(* Reconcile: fetch the service, then the status of the three children. *)

(* Mutant: a pass goes on with the empty service that a failed Get leaves. *)
StartUnchecked ==
    /\ pc = "idle"
    /\ dirty
    /\ dirty' = FALSE
    /\ LET svc == Cached(kubeService) IN
       mem' = IF svc.exists THEN [image |-> svc.image, conds |-> svc.conds,
                                  fresh |-> Synced(kubeService)]
              ELSE NoPass
    /\ Goto("EtcdStatus")
    /\ UNCHANGED <<world, releaseInfoCache, budget>>

Start ==
    /\ pc = "idle"
    /\ dirty
    /\ dirty' = FALSE
    /\ LET svc == Cached(kubeService) IN
       IF svc.exists /\ ~svc.deleting
       THEN /\ mem' = [image |-> svc.image, conds |-> svc.conds,
                       fresh |-> Synced(kubeService)]
            /\ Goto("EtcdStatus")
       ELSE Done
    /\ UNCHANGED <<world, releaseInfoCache, budget>>

(* Status().Update of the whole status: a conflict unless mem carries the
   current resource version.  After a lost answer mem keeps the old one. *)
Committed(r) == mem.fresh /\ r # "refused"

Acknowledged(r) == mem.fresh /\ r = "answered"

StatusUpdate(conds, r) ==
    /\ Spend(r)
    /\ kubeService' = IF Committed(r)
                      THEN Store(kubeService, [KsCurrent EXCEPT !.conds = conds])
                      ELSE kubeService

AfterUpdate(conds, r) ==
    [mem EXCEPT !.conds = conds,
                !.fresh = @ /\ (r # "lost" \/ conds = KsCurrent.conds)]

(* A child is looked up in the cache.  One that is being deleted ends the pass
   for five seconds; one that is missing leaves its condition as it was. *)
WaitForDeletion(o) ==
    /\ ChildCached(o).exists /\ ChildCached(o).deleting
    /\ Requeue
    /\ UNCHANGED <<kubeService, budget>>

SkipMissing(o, next) ==
    /\ ~ChildCached(o).exists
    /\ Goto(next)
    /\ UNCHANGED <<kubeService, mem, budget>>

(* The pods are listed by the name of the cluster: those a deleted incarnation
   left behind are counted too. *)
EtcdJudged ==
    LET cluster == ChildCached("etcd") IN
    EtcdAvailable(cluster, cluster.uid \in aged, terminatedPods # {})

UpdateEtcdCondition ==
    LET conds == SetConditionByType(mem.conds, "etcd", EtcdJudged) IN
    /\ ChildCached("etcd").exists /\ ~ChildCached("etcd").deleting
    /\ \E r \in Response :
          /\ StatusUpdate(conds, r)
          /\ IF Acknowledged(r)
             THEN /\ mem' = AfterUpdate(conds, r)
                  /\ Goto(IF EtcdJudged = "Failed" THEN "EtcdDelete" ELSE "KasStatus")
             ELSE Requeue

EtcdStatus ==
    /\ pc = "EtcdStatus"
    /\ \/ WaitForDeletion("etcd")
       \/ SkipMissing("etcd", "KasStatus")
       \/ UpdateEtcdCondition
    /\ UNCHANGED <<children, objects, aged, terminatedPods, wasUp, dirty,
                   releaseInfoCache>>

(* Delete by name, without preconditions.  Whatever comes of it, the pass ends
   with an error.  An object with finalizers only starts being deleted. *)
EtcdDelete ==
    /\ pc = "EtcdDelete"
    /\ LET cluster == ChildCurrent("etcd") IN
       \/ /\ cluster.exists
          /\ \/ PutChild("etcd", Gone(cluster))
             \/ PutChild("etcd", [cluster EXCEPT !.deleting = TRUE])
          /\ UNCHANGED budget
       \/ /\ ~cluster.exists
          /\ UNCHANGED <<children, budget>>
       \/ Spend("refused") /\ UNCHANGED children
    /\ Requeue
    /\ UNCHANGED <<kubeService, objects, aged, terminatedPods, wasUp, dirty,
                   releaseInfoCache>>

(* The update error is logged and dropped: the pass goes on with mem. *)
UpdateKasCondition ==
    LET conds == SetConditionByType(mem.conds, "kas",
                                    DeploymentAvailable(ChildCached("kas"))) IN
    /\ ChildCached("kas").exists /\ ~ChildCached("kas").deleting
    /\ \E r \in Response :
          /\ StatusUpdate(conds, r)
          /\ mem' = AfterUpdate(conds, r)
          /\ Goto("KcmStatus")

KasStatus ==
    /\ pc = "KasStatus"
    /\ \/ WaitForDeletion("kas")
       \/ SkipMissing("kas", "KcmStatus")
       \/ UpdateKasCondition
    /\ UNCHANGED <<children, objects, aged, terminatedPods, wasUp, dirty,
                   releaseInfoCache>>

UpdateKcmCondition ==
    LET conds == SetConditionByType(mem.conds, "kcm",
                                    DeploymentAvailable(ChildCached("kcm"))) IN
    /\ ChildCached("kcm").exists /\ ~ChildCached("kcm").deleting
    /\ \E r \in Response :
          /\ StatusUpdate(conds, r)
          /\ IF Acknowledged(r)
             THEN mem' = AfterUpdate(conds, r) /\ Goto("KsStatus")
             ELSE Requeue

KcmStatus ==
    /\ pc = "KcmStatus"
    /\ \/ WaitForDeletion("kcm")
       \/ SkipMissing("kcm", "KsStatus")
       \/ UpdateKcmCondition
    /\ UNCHANGED <<children, objects, aged, terminatedPods, wasUp, dirty,
                   releaseInfoCache>>

KsStatus ==
    /\ pc = "KsStatus"
    /\ LET conds == SetConditionByType(mem.conds, "ks",
                                       KubeServiceAvailable(mem.conds)) IN
       \E r \in Response :
          /\ StatusUpdate(conds, r)
          /\ IF Acknowledged(r)
             THEN mem' = AfterUpdate(conds, r) /\ Goto("ApplyEtcd")
             ELSE Requeue
    /\ UNCHANGED <<children, objects, aged, terminatedPods, wasUp, dirty,
                   releaseInfoCache>>

-----------------------------------------------------------------------------
(* Reconcile: bring the objects into being, etcd first, then the API server,
   then the controller manager. *)

(* CreateOrUpdate creates what the cache does not have, which the API server
   refuses if it is there after all.  It always sends a Deployment it found
   (the fields the API server defaulted never compare equal), which is a
   conflict unless the cached copy is current; the EtcdCluster compares equal
   and is left alone. *)
Accepted(o) ==
    IF ChildCached(o).exists
    THEN o = "etcd" \/ Synced(children[o])
    ELSE ~ChildCurrent(o).exists

Wanted(o) ==
    LET image == IF o = "etcd" THEN NoImage ELSE mem.image IN
    IF ChildCached(o).exists
    THEN IF o = "etcd" THEN ChildCurrent(o)
         ELSE [ChildCurrent(o) EXCEPT !.image = image]
    ELSE Created(ChildCurrent(o), image)

(* A plan and then the child.  A failing call leaves what came before it. *)
ApplyChild(o, plan, r) ==
    /\ Spend(r)
    /\ IF r = "refused"
       THEN \E n \in 0 .. Len(plan) : objects' = objects \cup FirstObjects(plan, n)
       ELSE objects' = objects \cup Objects(plan)
    /\ IF r # "refused" /\ Accepted(o)
       THEN PutChild(o, Wanted(o))
       ELSE UNCHANGED children

Applied(o, r) == r = "answered" /\ Accepted(o)

(* Mutant: the API server is started whatever etcd does. *)
EtcdGateOpen == Goto("ReleaseImage") /\ UNCHANGED mem

(* Mutant: the pass is not repeated while etcd comes up. *)
EtcdGateWithoutRequeue ==
    IF mem.conds["etcd"] = "True"
    THEN Goto("ReleaseImage") /\ UNCHANGED mem
    ELSE Done

(* The passage of time raises no event: RequeueAfter is what makes a later
   pass see that the bootstrap timeout is over. *)
EtcdGate ==
    IF mem.conds["etcd"] = "True"
    THEN Goto("ReleaseImage") /\ UNCHANGED mem
    ELSE Requeue

ApplyEtcd ==
    /\ pc = "ApplyEtcd"
    /\ \E r \in Response :
          /\ ApplyChild("etcd", EtcdPlan, r)
          /\ IF Applied("etcd", r) THEN EtcdGate ELSE Requeue
    /\ UNCHANGED <<kubeService, aged, terminatedPods, wasUp, dirty,
                   releaseInfoCache>>

(* getReleaseImage: a pull spec is looked up once per operator process. *)
ReleaseImage ==
    /\ pc = "ReleaseImage"
    /\ \/ /\ releaseInfoCache' = releaseInfoCache \cup {mem.image}
          /\ Goto("ApplyKas")
          /\ UNCHANGED <<mem, budget>>
       \/ /\ mem.image \notin releaseInfoCache
          /\ Spend("refused")
          /\ Requeue
          /\ UNCHANGED releaseInfoCache
    /\ UNCHANGED <<world, dirty>>

(* Mutant: the controller manager does not wait for the API server. *)
KasGateOpen == Goto("ApplyKcm") /\ UNCHANGED mem

(* Nothing is requeued here: the Deployment's own event must start the pass
   that goes on. *)
KasGate ==
    IF mem.conds["kas"] = "True"
    THEN Goto("ApplyKcm") /\ UNCHANGED mem
    ELSE Done

ApplyKas ==
    /\ pc = "ApplyKas"
    /\ \E r \in Response :
          /\ ApplyChild("kas", KasPlan, r)
          /\ IF Applied("kas", r) THEN KasGate ELSE Requeue
    /\ UNCHANGED <<kubeService, aged, terminatedPods, wasUp, dirty,
                   releaseInfoCache>>

ApplyKcm ==
    /\ pc = "ApplyKcm"
    /\ \E r \in Response :
          /\ ApplyChild("kcm", KcmPlan, r)
          /\ IF Applied("kcm", r) THEN Done ELSE Requeue
    /\ UNCHANGED <<kubeService, aged, terminatedPods, wasUp, dirty,
                   releaseInfoCache>>

Reconcile ==
    \/ Start \/ EtcdStatus \/ EtcdDelete \/ KasStatus \/ KcmStatus \/ KsStatus
    \/ ApplyEtcd \/ ReleaseImage \/ ApplyKas \/ ApplyKcm

-----------------------------------------------------------------------------
(* controller-runtime: watches, the delaying queue, a restarted operator. *)

DeliverKs ==
    /\ ~Synced(kubeService)
    /\ kubeService' = Tail(kubeService)
    /\ dirty' = TRUE
    /\ UNCHANGED <<children, objects, aged, terminatedPods, wasUp, delayed, pc,
                   mem, releaseInfoCache, budget>>

(* Mutant: only the EtcdCluster is watched. *)
QueuesOnlyForEtcd(o) == o = "etcd"

(* The watches on EtcdClusters and on Deployments. *)
Queues(o) == o \in Owned

(* EnqueueRequestForOwner: the event of a child queues its owner. *)
DeliverChild(o) ==
    /\ ~Synced(children[o])
    /\ children' = [children EXCEPT ![o] = Tail(@)]
    /\ dirty' = (dirty \/ Queues(o))
    /\ UNCHANGED <<kubeService, objects, aged, terminatedPods, wasUp, delayed, pc,
                   mem, releaseInfoCache, budget>>

DelayExpires ==
    /\ delayed
    /\ delayed' = FALSE
    /\ dirty' = TRUE
    /\ UNCHANGED <<world, pc, mem, releaseInfoCache, budget>>

(* Mutant: a restarted operator waits for the next event. *)
RestartQuietly ==
    /\ Disturb("restart")
    /\ pc' = "idle"
    /\ mem' = NoPass
    /\ releaseInfoCache' = {}
    /\ dirty' = FALSE
    /\ delayed' = FALSE
    /\ kubeService' = Relisted(kubeService)
    /\ children' = [o \in Child |-> Relisted(children[o])]
    /\ UNCHANGED <<objects, aged, terminatedPods, wasUp>>

(* The operator stops anywhere in a pass and comes back: the queue and the
   release image cache are lost, the initial list queues the service. *)
Restart ==
    /\ Disturb("restart")
    /\ pc' = "idle"
    /\ mem' = NoPass
    /\ releaseInfoCache' = {}
    /\ dirty' = TRUE
    /\ delayed' = FALSE
    /\ kubeService' = Relisted(kubeService)
    /\ children' = [o \in Child |-> Relisted(children[o])]
    /\ UNCHANGED <<objects, aged, terminatedPods, wasUp>>

Controller ==
    \/ Reconcile
    \/ DeliverKs
    \/ \E o \in Child : DeliverChild(o)
    \/ DelayExpires

-----------------------------------------------------------------------------
(* The world around the operator.  What disturbs costs budget; what a healthy
   cluster does by itself does not. *)

ForeignKsWrite(v) ==
    /\ kubeService' = Store(kubeService, v)
    /\ mem' = [mem EXCEPT !.fresh = FALSE]
    /\ UNCHANGED <<children, objects, aged, terminatedPods, wasUp, queue, pc,
                   releaseInfoCache>>

ForeignChildWrite(o, v) ==
    /\ PutChild(o, v)
    /\ wasUp' = IF IsUp(o, v) THEN [wasUp EXCEPT ![o] = @ \cup {v.uid}] ELSE wasUp
    /\ UNCHANGED <<kubeService, objects, aged, terminatedPods, queue, pc, mem,
                   releaseInfoCache>>

UserEditsSpec ==
    /\ Disturb("spec")
    /\ KsLive
    /\ \E image \in Images \ {KsCurrent.image} :
          ForeignKsWrite([KsCurrent EXCEPT !.image = image])

(* Foreground deletion marks the service, background deletion removes it. *)
UserDeletesKs ==
    /\ Disturb("deletion")
    /\ KsLive
    /\ \/ ForeignKsWrite([KsCurrent EXCEPT !.deleting = TRUE])
       \/ ForeignKsWrite([KsCurrent EXCEPT !.exists = FALSE])

UserDeletesChild(o) ==
    /\ Disturb("child")
    /\ ChildCurrent(o).exists /\ ~ChildCurrent(o).deleting
    /\ \/ ForeignChildWrite(o, [ChildCurrent(o) EXCEPT !.deleting = TRUE])
       \/ ForeignChildWrite(o, Gone(ChildCurrent(o)))

UserEditsDeployment(o) ==
    /\ Disturb("drift")
    /\ o # "etcd"
    /\ ChildCurrent(o).exists
    /\ \E image \in Images \ {ChildCurrent(o).image} :
          ForeignChildWrite(o, [ChildCurrent(o) EXCEPT !.image = image])

(* The etcd operator or the deployment controller reports another status. *)
StatusChanges(o) ==
    /\ Disturb("status")
    /\ ChildCurrent(o).exists
    /\ \E available \in BOOLEAN, ready \in 0 .. Replicas(o) :
          /\ <<available, ready>> # <<ChildCurrent(o).available, ChildCurrent(o).ready>>
          /\ ForeignChildWrite(o, [ChildCurrent(o) EXCEPT !.available = available,
                                                         !.ready = ready])

(* Five minutes pass.  That the cache shows this incarnation by then is the one
   timing assumption: watch events take less than half the timeout. *)
BootstrapTimeout ==
    /\ Disturb("timeout")
    /\ ChildCurrent("etcd").exists
    /\ ChildCached("etcd").uid = ChildCurrent("etcd").uid
    /\ ChildCurrent("etcd").uid \notin aged
    /\ aged' = aged \cup {ChildCurrent("etcd").uid}
    /\ UNCHANGED <<kubeService, children, objects, terminatedPods, wasUp, queue, pc,
                   mem, releaseInfoCache>>

PodTerminates ==
    /\ Disturb("pod")
    /\ ChildCurrent("etcd").exists
    /\ ChildCurrent("etcd").uid \notin terminatedPods
    /\ terminatedPods' = terminatedPods \cup {ChildCurrent("etcd").uid}
    /\ UNCHANGED <<kubeService, children, objects, aged, wasUp, queue, pc, mem,
                   releaseInfoCache>>

(* The informers' periodic resync, or an event of an object that is not a
   variable here (the etcd operator's Deployment). *)
Resync ==
    /\ Disturb("resync")
    /\ ~dirty
    /\ dirty' = TRUE
    /\ UNCHANGED <<world, delayed, pc, mem, releaseInfoCache>>

Disruption ==
    \/ Restart \/ UserEditsSpec \/ UserDeletesKs
    \/ \E o \in Child :
          UserDeletesChild(o) \/ UserEditsDeployment(o) \/ StatusChanges(o)
    \/ BootstrapTimeout \/ PodTerminates \/ Resync

(* What a healthy cluster does by itself. *)

BecomesUp(o) ==
    /\ ChildCurrent(o).exists
    /\ ~IsUp(o, ChildCurrent(o))
    /\ ForeignChildWrite(o, [ChildCurrent(o) EXCEPT !.available = TRUE,
                                                   !.ready = Replicas(o)])
    /\ UNCHANGED budget

Finalized(o) ==
    /\ ChildCurrent(o).exists /\ ChildCurrent(o).deleting
    /\ ForeignChildWrite(o, Gone(ChildCurrent(o)))
    /\ UNCHANGED budget

(* The garbage collector, for a service that is gone or, in the foreground,
   being deleted. *)
Collected(o) ==
    /\ o \in Owned
    /\ ChildCurrent(o).exists
    /\ ~KsLive
    /\ ForeignChildWrite(o, Gone(ChildCurrent(o)))
    /\ UNCHANGED budget

(* The owner references block the owner's deletion. *)
KsFinalized ==
    /\ KsCurrent.exists /\ KsCurrent.deleting
    /\ \A o \in Child : ~ChildCurrent(o).exists
    /\ ForeignKsWrite([KsCurrent EXCEPT !.exists = FALSE])
    /\ UNCHANGED budget

PodsRemoved(u) ==
    /\ u \in terminatedPods
    /\ terminatedPods' = terminatedPods \ {u}
    /\ UNCHANGED <<kubeService, children, objects, aged, wasUp, queue, pc, mem,
                   releaseInfoCache, budget>>

(* The etcd operator replaces the pods of its cluster, or they are collected
   after it. *)
PodsReplaced == \E u \in terminatedPods : PodsRemoved(u)

PodsCollected ==
    \E u \in terminatedPods :
        /\ ~(ChildCurrent("etcd").exists /\ ChildCurrent("etcd").uid = u)
        /\ PodsRemoved(u)

Cluster ==
    \/ \E o \in Child : BecomesUp(o) \/ Finalized(o) \/ Collected(o)
    \/ KsFinalized \/ PodsReplaced

Next == Controller \/ Disruption \/ Cluster

(* The worker, the watches and the delaying queue keep running; the garbage
   collector and the finalizers' controllers do their work.  That pods of an
   EtcdCluster that is still there are replaced is not assumed. *)
OperatorFairness ==
    /\ WF_vars(Reconcile)
    /\ WF_vars(DeliverKs)
    /\ \A o \in Child : WF_vars(DeliverChild(o))
    /\ WF_vars(DelayExpires)
    /\ \A o \in Child : WF_vars(Finalized(o)) /\ WF_vars(Collected(o))
    /\ WF_vars(KsFinalized)
    /\ WF_vars(PodsCollected)

(* Workloads start as well, unless something holds them back. *)
WorkloadFairness == \A o \in Child : WF_vars(BecomesUp(o))

SafetySpec == Init /\ [][Next]_vars

(* No workload need ever come up. *)
StuckSpec == SafetySpec /\ OperatorFairness

Spec == StuckSpec /\ WorkloadFairness

-----------------------------------------------------------------------------
(* Properties. *)

KubeServiceOK == kubeService \in Seq(KsVersion) /\ kubeService # <<>>

ChildrenOK ==
    /\ children \in [Child -> Seq(ChildVersion)]
    /\ \A o \in Child : children[o] # <<>>

OperatorOK ==
    /\ pc \in PassStep \cup {"idle"}
    /\ mem \in [image : Images \cup {NoImage}, conds : [ConditionType -> ConditionStatus],
                fresh : BOOLEAN]
    /\ pc # "idle" => mem.image \in Images
    /\ dirty \in BOOLEAN
    /\ delayed \in BOOLEAN
    /\ releaseInfoCache \subseteq Images

(* Every variable stays in its type: the streams of versions are never empty,
   a running pass works on an image of the service. *)
TypeOK ==
    /\ KubeServiceOK /\ ChildrenOK /\ OperatorOK
    /\ objects \subseteq AllObjects
    /\ aged \subseteq Nat
    /\ terminatedPods \subseteq Nat
    /\ wasUp \in [Child -> SUBSET Nat]
    /\ budget \in Nat

(* No pass is due and no event is on its way. *)
Calm ==
    /\ ~dirty /\ ~delayed
    /\ Synced(kubeService)
    /\ \A o \in Child : Synced(children[o])

Quiescent == pc = "idle" /\ Calm

(* No lost wakeup: whenever no pass runs, none is due and no event is on its
   way, the service is announced Available exactly if its three workloads are
   up, etcd is up, and the Deployments that are due exist with the image the
   user asked for.  KasGate and Done requeue nothing, status update conflicts of
   KasStatus are dropped and cached reads are stale, so this is about whether
   some event always follows. *)
QuiescentConverged ==
    Quiescent /\ KsLive =>
        LET kas == ChildCurrent("kas")
            kcm == ChildCurrent("kcm")
        IN /\ (KsCurrent.conds["ks"] = "True")
                   <=> \A o \in Child : IsUp(o, ChildCurrent(o))
           /\ IsUp("etcd", ChildCurrent("etcd"))
           /\ kas.exists /\ kas.image = KsCurrent.image
           /\ IsUp("kas", kas) => kcm.exists /\ kcm.image = KsCurrent.image

(* The API server's Deployment is never created before some etcd cluster was
   available, the controller manager's not before some API server was, and
   Available is never announced before all three were, however stale the
   cached objects and the conditions carried from pass to pass are. *)
StagedRollout ==
    /\ ChildCurrent("kas").uid > 0 => wasUp["etcd"] # {}
    /\ ChildCurrent("kcm").uid > 0 => wasUp["kas"] # {}
    /\ KsCurrent.conds["ks"] = "True" => \A o \in Child : wasUp[o] # {}

(* The reconciler judges a cached EtcdCluster and then deletes whatever has its
   name.  With one replica, what it is about to delete is older than the
   bootstrap timeout: never a cluster that was recreated in between. *)
EtcdDeleteHitsExpired ==
    pc = "EtcdDelete" /\ etcdClusterReplicas = 1 => ChildCurrent("etcd").uid \in aged

(* A workload exists only after every Secret and ConfigMap its pods mount,
   those that an earlier stage applies included, whichever call of whichever
   pass failed. *)
MountsExist == \A o \in Child : ChildCurrent(o).exists => Mounts(o) \subseteq objects

(* Every file that the arguments and the configuration of a workload name is an
   entry of an object behind its directory, and that object exists with the
   workload: arguments, mounts, volumes, Secrets and the order of a pass are
   written in seven files and agree (kas/deployment.go:141, kas/config.go:95,
   kcm/deployment.go:174). *)
FilesReadable ==
    \A o \in Child : ChildCurrent(o).exists =>
        \A f \in FilesOf(o) : f[1] \in objects /\ f[2] \in Entries(f[1])

Converged ==
    /\ KsCurrent.conds["ks"] = "True"
    /\ \A o \in Child : IsUp(o, ChildCurrent(o))
    /\ \A o \in {"kas", "kcm"} : ChildCurrent(o).image = KsCurrent.image

(* The operator implements the abstract rollout, on the first creation of each
   workload, its first time up and the Available condition. *)
Launched == {o \in Child : ChildCurrent(o).uid > 0}

Proven == {o \in Child : wasUp[o] # {}}

Announced == KsCurrent.conds["ks"] = "True"

Abstract == INSTANCE Rollout WITH launched <- Launched, proven <- Proven,
                                  announced <- Announced

ImplementsRollout == Abstract!Spec

(* Once the disturbances stop, a service that is not deleted becomes Available
   with the image the user last asked for, and stays so. *)
Convergence == <>[](KsLive => Converged)

(* The EtcdCluster will not come up: past the timeout without a ready member, or
   without quorum while one of its pods has terminated (for a replicated cluster). *)
HopelessEtcd ==
    LET cluster == ChildCurrent("etcd") IN
    /\ cluster.exists /\ ~cluster.available
    /\ \/ cluster.ready = 0 /\ cluster.uid \in aged
       \/ etcdClusterReplicas > 1 /\ cluster.ready <= 1 /\ cluster.uid \in terminatedPods

(* A live service always comes to have an EtcdCluster again that may come up, even
   if the present one never changes: neither the timeout nor a terminated pod raises
   an event, the ten second requeue must notice them (reconciler.go:200).  The
   operator's own clusters have one replica, so that only the timeout concerns them. *)
FailedEtcdReplaced ==
    []<>(KsLive => ChildCurrent("etcd").exists /\ ~HopelessEtcd)

(* A deleted service, which never comes to life again, leaves no workload behind in
   the end, although a pass that started before the deletion may go on creating
   them (reconciler.go:90). *)
DeletionCompletes ==
    <>[](KsLive \/ (~KsCurrent.exists /\ \A o \in Child : ~ChildCurrent(o).exists))

(* What "Kube controller manager is running and available" says of a service at
   rest. *)
KcmConditionTruthful ==
    Quiescent /\ KsLive /\ KsCurrent.conds["kcm"] = "True"
        => IsUp("kcm", ChildCurrent("kcm"))

(* What "The etcd cluster failed to bootstrap, will delete" says of the cluster
   that is about to be deleted. *)
OnlyUnbootstrappedDeleted ==
    pc = "EtcdDelete" => ChildCurrent("etcd").uid \notin wasUp["etcd"]

-----------------------------------------------------------------------------
(* Inductive invariants behind the safety properties (see ReconcilerProofs). *)

WasUp(o) == wasUp[o] # {}

(* Conditions that say only what was true of some incarnation. *)
Honest(conds) ==
    /\ \A o \in Child : conds[o] = "True" => WasUp(o)
    /\ conds["ks"] = "True" => \A o \in Child : WasUp(o)

(* What is due before a child may be created. *)
Due(o) ==
    /\ o = "kas" => WasUp("etcd")
    /\ o = "kcm" => WasUp("kas")

ChildrenProven ==
    \A o \in Child :
        /\ \A v \in Versions(children[o]) : (IsUp(o, v) => WasUp(o)) /\ (v.exists => v.uid > 0)
        /\ ChildCurrent(o).uid > 0 => Due(o)

ConditionsHonest ==
    /\ \A v \in Versions(kubeService) : Honest(v.conds)
    /\ Honest(mem.conds)

GatesPassed ==
    /\ pc \in {"ReleaseImage", "ApplyKas", "ApplyKcm"} => mem.conds["etcd"] = "True"
    /\ pc = "ApplyKcm" => mem.conds["kas"] = "True"

(* Nothing stale is wrong about the past: not a version on its way to the cache,
   not the conditions a pass carries, and the gates are only passed with them. *)
RolloutInv == ChildrenProven /\ ConditionsHonest /\ GatesPassed

(* A stream never goes back to an older incarnation, and a gone incarnation stays
   gone. *)
Ordered(s) ==
    \A i, j \in 1 .. Len(s) : i <= j =>
        /\ s[i].uid <= s[j].uid
        /\ s[i].uid = s[j].uid /\ ~s[i].exists => ~s[j].exists

(* The cache knows of every EtcdCluster that is past the timeout, and one of those
   that is still seen by the cache is the one the API server has. *)
AgedKnown ==
    /\ \A u \in aged : u <= ChildCached("etcd").uid
    /\ \A v \in Versions(children["etcd"]) :
          v.exists /\ v.uid \in aged => ChildCurrent("etcd").uid = v.uid

EtcdInv == Ordered(children["etcd"]) /\ AgedKnown /\ EtcdDeleteHitsExpired

(* A stage is entered only with the objects of the stages before it. *)
MountsInv ==
    /\ \A o \in Child : ChildCurrent(o).exists => Mounts(o) \subseteq objects
    /\ pc \in {"ReleaseImage", "ApplyKas", "ApplyKcm"} => Objects(EtcdPlan) \subseteq objects
    /\ pc = "ApplyKcm" => Objects(KasPlan) \subseteq objects

(* The pass carries what the status of a workload says, if there is one. *)
Judged(o) ==
    ChildCurrent(o).exists => (mem.conds[o] = "True" <=> IsUp(o, ChildCurrent(o)))

(* A pass that has nothing to follow it works on what is stored, and has written
   what it found. *)
PassCurrent ==
    /\ KsLive
    /\ mem.image = KsCurrent.image
    /\ pc \notin {"EtcdStatus", "EtcdDelete"} => Judged("etcd")
    /\ pc \notin {"EtcdStatus", "EtcdDelete", "KasStatus"} => Judged("kas")
    /\ pc \notin {"EtcdStatus", "EtcdDelete", "KasStatus", "KcmStatus"} => Judged("kcm")
    /\ pc \in {"ApplyEtcd", "ReleaseImage", "ApplyKas", "ApplyKcm"} =>
          /\ KsCurrent.conds = mem.conds
          /\ mem.conds["ks"] = KubeServiceAvailable(mem.conds)
    /\ pc \in {"ReleaseImage", "ApplyKas", "ApplyKcm"} => ChildCurrent("etcd").exists
    /\ pc = "ApplyKcm" =>
          ChildCurrent("kas").exists /\ ChildCurrent("kas").image = mem.image

(* Whatever such a pass could have missed raises an event or a retry: calm ends
   with every change, and begins anew only with a pass that reads all again. *)
WakeupInv ==
    /\ QuiescentConverged
    /\ Calm /\ pc # "idle" => PassCurrent
=============================================================================
