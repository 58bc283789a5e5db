------------------------------- MODULE Plans -------------------------------
(***************************************************************************)
(* The objects other than the three workloads that a pass creates or       *)
(* updates, in the order of the code, and the ones the pods of a workload  *)
(* mount (a pod whose Secret or ConfigMap is missing never starts).        *)
(***************************************************************************)
EXTENDS Naturals, Sequences, Files

(* Reconcile's root CA, then reconcileEtcd up to the EtcdCluster. *)
EtcdPlan ==
    << "root-ca", "etcd-client-tls", "etcd-server-tls", "etcd-peer-tls",
       "etcd-sa", "etcd-role", "etcd-rolebinding", "etcd-operator" >>

(* Mutant: the API server's configuration is applied after its Deployment. *)
KasPlanWithoutConfig ==
    << "kas-service", "kas-server-crt", "kas-aggregator-crt", "kas-sa-key",
       "kubeconfig", "localhost-kubeconfig", "kas-audit-config",
       "oauth-metadata" >>

(* reconcileKubeAPIServer up to the Deployment. *)
KasPlan ==
    << "kas-service", "kas-server-crt", "kas-aggregator-crt", "kas-sa-key",
       "kubeconfig", "localhost-kubeconfig", "kas-audit-config",
       "kas-config", "oauth-metadata" >>

(* reconcileKubeControllerManager up to the Deployment. *)
KcmPlan == << "cluster-signer", "kcm-config" >>

Objects(plan) == {plan[i] : i \in 1 .. Len(plan)}

FirstObjects(plan, n) == {plan[i] : i \in 1 .. n}

AllObjects == Objects(EtcdPlan) \cup Objects(KasPlan) \cup Objects(KcmPlan)

(* Secrets the EtcdCluster's TLS section names. *)
EtcdMounts == {"etcd-client-tls", "etcd-server-tls", "etcd-peer-tls"}

KasMounts == Shown(KasVolumes)

KcmMounts == Shown(KcmVolumes)

Mounts(o) ==
    CASE o = "etcd" -> EtcdMounts
      [] o = "kas" -> KasMounts
      [] o = "kcm" -> KcmMounts

(* What the code writes for the processes of a workload; what etcd reads is up
   to the etcd operator. *)
FilesOf(o) ==
    CASE o = "etcd" -> {}
      [] o = "kas" -> KasFiles
      [] o = "kcm" -> KcmFiles
=============================================================================
