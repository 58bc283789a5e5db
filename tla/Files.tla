------------------------------- MODULE Files -------------------------------
(***************************************************************************)
(* What the pods of the API server and of the controller manager read: the *)
(* volumes of the pods and the objects they show, where the containers     *)
(* mount them, the files that arguments and configuration name, and the    *)
(* entries that the reconcile functions write.  A directory goes by the    *)
(* name of its constant in the code: the paths are all different.          *)
(***************************************************************************)
Scratch == "emptyDir"

-----------------------------------------------------------------------------
(* Volumes: the object that each shows. *)

(* Mutant: the Secret of the server certificate is mounted for both. *)
KasVolumesMixedUp ==
    [bootstrapManifests |-> Scratch,
     localhostKubeconfig |-> "localhost-kubeconfig",
     workLogs |-> Scratch,
     kasConfig |-> "kas-config",
     auditConfig |-> "kas-audit-config",
     rootCA |-> "root-ca",
     serverCert |-> "kas-server-crt",
     aggregatorCert |-> "kas-aggregator-crt",
     serviceAccountKey |-> "kas-server-crt",
     etcdClientCert |-> "etcd-client-tls",
     oauthMetadata |-> "oauth-metadata"]

KasVolumes ==
    [bootstrapManifests |-> Scratch,
     localhostKubeconfig |-> "localhost-kubeconfig",
     workLogs |-> Scratch,
     kasConfig |-> "kas-config",
     auditConfig |-> "kas-audit-config",
     rootCA |-> "root-ca",
     serverCert |-> "kas-server-crt",
     aggregatorCert |-> "kas-aggregator-crt",
     serviceAccountKey |-> "kas-sa-key",
     etcdClientCert |-> "etcd-client-tls",
     oauthMetadata |-> "oauth-metadata"]

KcmVolumes ==
    [kcmConfig |-> "kcm-config",
     rootCA |-> "root-ca",
     workLogs |-> Scratch,
     kubeconfig |-> "kubeconfig",
     clusterSigner |-> "cluster-signer",
     certDir |-> Scratch,
     serviceSigner |-> "kas-sa-key"]

Shown(volumes) == {volumes[v] : v \in DOMAIN volumes} \ {Scratch}

-----------------------------------------------------------------------------
(* Mounts of the containers: the volume behind each directory. *)

ApplyBootstrapDirs ==
    [applyWork |-> "bootstrapManifests", applyKubeconfig |-> "localhostKubeconfig"]

KubeApiServerDirs ==
    [kasWorkLogs |-> "workLogs",
     kasConfig |-> "kasConfig",
     kasAuditConfig |-> "auditConfig",
     kasRootCA |-> "rootCA",
     kasServerCert |-> "serverCert",
     kasAggregatorCert |-> "aggregatorCert",
     kasEtcdClientCert |-> "etcdClientCert",
     kasServiceAccountKey |-> "serviceAccountKey",
     kasOauthMetadata |-> "oauthMetadata"]

KcmDirs ==
    [kcmConfig |-> "kcmConfig",
     kcmRootCA |-> "rootCA",
     kcmWorkLogs |-> "workLogs",
     kcmKubeconfig |-> "kubeconfig",
     kcmClusterSigner |-> "clusterSigner",
     kcmCertDir |-> "certDir",
     kcmServiceSigner |-> "serviceSigner"]

-----------------------------------------------------------------------------
(* Files that are read, by directory and entry; what is written goes into
   scratch volumes. *)

(* KUBECONFIG of the container that applies the bootstrap manifests. *)
ApplyBootstrapFiles == {<<"applyKubeconfig", "kubeconfig">>}

(* --openshift-config *)
KubeApiServerArgs == {<<"kasConfig", "config.json">>}

(* The configuration that --openshift-config names, by argument. *)
KubeApiServerConfig ==
    {<<"kasAuditConfig", "policy.yaml">>,          \* audit-policy-file
     <<"kasRootCA", "ca.crt">>,                    \* client-ca, requestheader-client-ca
     <<"kasEtcdClientCert", "etcd-client-ca.crt">>,
     <<"kasEtcdClientCert", "etcd-client.crt">>,
     <<"kasEtcdClientCert", "etcd-client.key">>,
     <<"kasAggregatorCert", "tls.crt">>,           \* proxy-client-cert-file
     <<"kasAggregatorCert", "tls.key">>,
     <<"kasServiceAccountKey", "service-account.key">>,
     <<"kasServiceAccountKey", "service-account.pub">>,
     <<"kasServerCert", "tls.crt">>,
     <<"kasServerCert", "tls.key">>,
     <<"kasOauthMetadata", "oauthMetadata.json">>}

KcmArgs ==
    {<<"kcmConfig", "config.json">>,
     <<"kcmKubeconfig", "kubeconfig">>,
     <<"kcmClusterSigner", "ca.crt">>,
     <<"kcmClusterSigner", "ca.key">>,
     <<"kcmRootCA", "ca.crt">>,
     <<"kcmServiceSigner", "service-account.key">>}

-----------------------------------------------------------------------------
(* Entries of the objects, as the functions that reconcile them write them. *)

TlsEntries == {"tls.crt", "tls.key"}

CaEntries == {"ca.crt", "ca.key"}

Entries(object) ==
    CASE object \in {"root-ca", "cluster-signer"} -> CaEntries
      [] object \in {"kas-server-crt", "kas-aggregator-crt"} -> TlsEntries
      [] object = "etcd-client-tls" ->
            {"etcd-client.crt", "etcd-client.key", "etcd-client-ca.crt"}
      [] object = "kas-sa-key" -> {"service-account.key", "service-account.pub"}
      [] object \in {"kubeconfig", "localhost-kubeconfig"} -> {"kubeconfig"}
      [] object \in {"kas-config", "kcm-config"} -> {"config.json"}
      [] object = "kas-audit-config" -> {"policy.yaml"}
      [] object = "oauth-metadata" -> {"oauthMetadata.json"}
      [] OTHER -> {}

-----------------------------------------------------------------------------
(* The files of a container as pairs of an object and its entry. *)
FilesIn(volumes, dirs, files) == {<<volumes[dirs[f[1]]], f[2]>> : f \in files}

KasFiles ==
    FilesIn(KasVolumes, ApplyBootstrapDirs, ApplyBootstrapFiles)
    \cup FilesIn(KasVolumes, KubeApiServerDirs, KubeApiServerArgs \cup KubeApiServerConfig)

KcmFiles == FilesIn(KcmVolumes, KcmDirs, KcmArgs)
=============================================================================
