----------------------------- MODULE Conditions -----------------------------
(***************************************************************************)
(* What the status reconcilers read off the three workloads and write into *)
(* the conditions of a KubernetesService.  A condition is "None" while it  *)
(* was never set; "Failed" is status False with the reason EtcdFailed, the *)
(* one the etcd reconciler gives before it deletes the cluster.            *)
(***************************************************************************)
EXTENDS Naturals

CONSTANT
    etcdClusterReplicas      \* the Size of the EtcdCluster (1 in the code)

ASSUME ReplicasAssumption == etcdClusterReplicas \in Nat \ {0}

Child == {"etcd", "kas", "kcm"}

ConditionType == Child \cup {"ks"}

ConditionStatus == {"None", "True", "False", "Failed"}

NoConditions == [t \in ConditionType |-> "None"]

SetConditionByType(conds, t, status) == [conds EXCEPT ![t] = status]

(* Mutant: every cluster without a ready member is given up at once. *)
FailedWithoutTimeout(cluster, expired, terminated) ==
    /\ ~cluster.available
    /\ \/ cluster.ready = 0
       \/ /\ etcdClusterReplicas > 1
          /\ cluster.ready <= 1
          /\ terminated

(* The two cases of ReconcileEtcdClusterStatus that set shouldDelete.       *)
EtcdClusterFailed(cluster, expired, terminated) ==
    /\ ~cluster.available
    /\ \/ /\ cluster.ready = 0
          /\ expired
       \/ /\ etcdClusterReplicas > 1
          /\ cluster.ready <= 1
          /\ terminated

EtcdAvailable(cluster, expired, terminated) ==
    IF cluster.available THEN "True"
    ELSE IF EtcdClusterFailed(cluster, expired, terminated) THEN "Failed"
    ELSE "False"

IsDeploymentUp(deployment) == deployment.available /\ deployment.ready > 0

DeploymentAvailable(deployment) ==
    IF IsDeploymentUp(deployment) THEN "True" ELSE "False"

(* The Available condition of the KubernetesService itself. *)
KubeServiceAvailable(conds) ==
    IF \A o \in Child : conds[o] = "True" THEN "True" ELSE "False"
=============================================================================
