------------------------------ MODULE Network ------------------------------
(***************************************************************************)
(* Addresses, names and certificates by which the parts of a control plane *)
(* reach each other, as the reconcile functions derive them from the       *)
(* service range, the pod range and the port of the API server.            *)
(***************************************************************************)
EXTENDS Naturals

-----------------------------------------------------------------------------
(* Addresses of four bytes, which wrap around at 256. *)

Address == [1 .. 4 -> 0 .. 255]

AddressAsNumber(ip) == 256 * (256 * (256 * ip[1] + ip[2]) + ip[3]) + ip[4]

LastAddress == [j \in 1 .. 4 |-> 255]

(* The loop goes from the last byte to the first and stops at one that did not
   become zero. *)
Incremented(ip) == {j \in 1 .. 4 : \A k \in j + 1 .. 4 : ip[k] = 255}

nextIP(ip) ==
    [j \in 1 .. 4 |-> IF j \in Incremented(ip) THEN (ip[j] + 1) % 256 ELSE ip[j]]

firstIP(network) == nextIP(network)

-----------------------------------------------------------------------------
(* Ranges: that of the API server's services, and those of the controller
   manager, whose kcmArgs takes the service range first and is called with the
   pod range first. *)

servicesSubnet(serviceCIDR) == serviceCIDR

kcmArgs(serviceCIDR, podCIDR) ==
    [clusterCIDR |-> podCIDR, serviceClusterIPRange |-> serviceCIDR]

KcmDeploymentRanges(podCIDR, serviceCIDR) == kcmArgs(podCIDR, serviceCIDR)

-----------------------------------------------------------------------------
(* Certificates: the names and addresses a server proves, the common name, and
   what the certificate may be used for. *)

Certificate(commonName, names, addresses, usages) ==
    [commonName |-> commonName, names |-> names, addresses |-> addresses, usages |-> usages]

EtcdClientCertificate == Certificate("etcd-client", {}, {}, {"ClientAuth"})

(* The names that carry the namespace are left out: nothing here dials them. *)
EtcdServerCertificate ==
    Certificate("etcd-server", {"etcd", "etcd-client", "localhost"}, {},
                {"ServerAuth", "ClientAuth"})

(* The name of the Service is one of the names. *)
KasService == "kube-apiserver"

KasServerCertificate(serviceNetwork) ==
    Certificate("kubernetes", {"localhost", "kubernetes", KasService},
                {<<127, 0, 0, 1>>, firstIP(serviceNetwork)}, {"ServerAuth"})

AggregatorCertificate ==
    Certificate("system:openshift-aggregator", {}, {}, {"ServerAuth", "ClientAuth"})

AdminCertificate == Certificate("system:admin", {}, {}, {"ClientAuth"})

-----------------------------------------------------------------------------
(* Who is dialled, and what listens there. *)

(* etcd-servers: the etcd operator's client Service of the cluster. *)
EtcdUrl == [host |-> "etcd-client", port |-> 2379]

ServiceKubeconfigUrl(port) == [host |-> KasService, port |-> port]

LocalhostKubeconfigUrl(port) == [host |-> "localhost", port |-> port]

(* The Service forwards its port to the pods. *)
ReconcileService(internalPort, externalPort) ==
    [port |-> externalPort, targetPort |-> internalPort]

KasBindPort(internalAPIServerPort) == internalAPIServerPort

requestheaderAllowedNames ==
    {"kube-apiserver-proxy", "system:kube-apiserver-proxy", "system:openshift-aggregator"}

Accepts(server, host, client) ==
    /\ host \in server.names /\ "ServerAuth" \in server.usages
    /\ "ClientAuth" \in client.usages
=============================================================================
