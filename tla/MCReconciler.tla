---------------------------- MODULE MCReconciler ----------------------------
(* Instances of Reconciler for TLC. *)
EXTENDS Reconciler, TLC

CONSTANTS v1, v2

MCImages == {v1, v2}

(* Sound where only invariants are checked: no action names an image. *)
ImageSymmetry == Permutations(MCImages)

(* Bound: watch events on their way at any time. *)
CONSTANT MaxLag

FewEvents ==
    Len(kubeService) + Len(children["etcd"]) + Len(children["kas"])
        + Len(children["kcm"]) <= 4 + MaxLag

(* Bound of the run with a replicated etcd: a cluster whose pods keep
   terminating is replaced again and again. *)
MaxClusters == 2

FewClusters == ChildCurrent("etcd").uid <= MaxClusters

(* Bound of the same run: of the workloads, only the EtcdCluster changes its status
   after it came up. *)
OnlyEtcdChanges == \A o \in Child : StatusChanges(o) => o = "etcd"
=============================================================================
