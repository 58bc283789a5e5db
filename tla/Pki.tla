-------------------------------- MODULE Pki --------------------------------
(***************************************************************************)
(* The secrets of one KubernetesService: the root CA, the certificates it  *)
(* signs and the service account key, as passes of the reconciler create,  *)
(* keep and renew them through the cached client while users delete them   *)
(* or take entries out of them.  Secrets are not watched: only an error,   *)
(* an event of something else or the informers' resync starts a pass.      *)
(*                                                                         *)
(* Key material is a serial number: the n-th pair generated for a secret.  *)
(* The hash of the root CA that a signed secret is annotated with is the   *)
(* serial of the pair that signed it: md5 is taken to have no collisions,  *)
(* and certificate and annotation are written in one call.                 *)
(***************************************************************************)
EXTENDS Naturals, Sequences, VersionStream

CONSTANTS
    Kinds,               \* the kinds of disruption that happen
    MaxDisruptions       \* bound: disruptions in a behaviour

DisruptionKind == {"call", "restart", "deletion", "entry", "ca.crt", "gate"}

ASSUME DisruptionsAssumption == Kinds \subseteq DisruptionKind /\ MaxDisruptions \in Nat

VARIABLES
    secrets,             \* versions of each secret
    due,                 \* a pass will be started
    pc,                  \* the next step of the running pass
    at,                  \* the place in Order of the secret it is about to reconcile
    ca,                  \* its own copy of the root CA
    budget               \* disruptions left

vars == <<secrets, due, pc, at, ca, budget>>

-----------------------------------------------------------------------------
(* Secrets. *)

RootCA == "root-ca"

ServiceAccountKey == "kas-sa-key"

(* reconcileEtcd, reconcileKubeAPIServer, reconcileKubeControllerManager. *)
Order ==
    << "etcd-client-tls", "etcd-server-tls", "etcd-peer-tls",
       "kas-server-crt", "kas-aggregator-crt", ServiceAccountKey, "kubeconfig",
       "localhost-kubeconfig",
       "cluster-signer" >>

Places == 1 .. Len(Order)

(* Mutant: the pass does not end with the last stage. *)
EndOfFirstStages == {3, 8}

(* A stage ends with its workload, and the next one waits for the workload. *)
EndOfStage == {3, 8, 9}

Secret == {RootCA} \cup {Order[i] : i \in Places}

(* The data keys that a secret is checked for: certificate and private key,
   public and private key, or the kubeconfig that holds both. *)
Entries == {"crt", "key"}

SecretVersion ==
    [exists : BOOLEAN, keys : SUBSET Entries, signer : Nat, serial : Nat]

NoSecret == [exists |-> FALSE, keys |-> {}, signer |-> 0, serial |-> 0]

Gone(v) == [NoSecret EXCEPT !.serial = v.serial]

Generated(v, signer) ==
    [exists |-> TRUE, keys |-> Entries, signer |-> signer, serial |-> v.serial + 1]

hasKeys(v, keys) == keys \subseteq v.keys

(* The condition of ReconcileRootCA, which asks for the entry ca.key twice. *)
KeepsRootCA(v) == v.exists /\ hasKeys(v, {"key"})

ValidCA(v) == hasKeys(v, {"crt", "key"})

(* The service account key is not signed. *)
Signer(s, root) == IF s = ServiceAccountKey THEN 0 ELSE root.serial

(* Mutant: the annotation with the hash of the root CA is not compared. *)
SignedByAnyone(s, v, root) == v.exists /\ hasKeys(v, Entries)

SignedSecretUpToDate(s, v, root) ==
    v.exists /\ hasKeys(v, Entries) /\ v.signer = Signer(s, root)

SecretCurrent(s) == Current(secrets[s])

SecretCached(s) == Cached(secrets[s])

-----------------------------------------------------------------------------
(* A pass. *)

NoPass == pc' = "idle" /\ at' = 1 /\ ca' = NoSecret

Done == NoPass /\ UNCHANGED due

Retry == NoPass /\ due' = TRUE

Disturb(kind) == kind \in Kinds /\ budget > 0 /\ budget' = budget - 1

Init ==
    /\ secrets = [s \in Secret |-> <<NoSecret>>]
    /\ due = TRUE
    /\ pc = "idle"
    /\ at = 1
    /\ ca = NoSecret
    /\ budget = MaxDisruptions

Start ==
    /\ pc = "idle"
    /\ due
    /\ due' = FALSE
    /\ pc' = "RootCA"
    /\ UNCHANGED <<secrets, at, ca, budget>>

(* Mutant: an update carries no resource version. *)
AcceptedBlindly(s) == SecretCached(s).exists \/ ~SecretCurrent(s).exists

(* CreateOrUpdate: a create is refused if the secret is there, an update if the
   cached copy is not current. *)
Accepted(s) ==
    IF SecretCached(s).exists THEN Synced(secrets[s]) ELSE ~SecretCurrent(s).exists

Generate(s, signer) ==
    secrets' = IF Accepted(s)
               THEN [secrets EXCEPT ![s] = Store(@, Generated(Current(@), signer))]
               ELSE secrets

(* The write is refused because of what is there; or the call fails, or its
   answer is lost. *)
GenerateFails(s, signer) ==
    \/ ~Accepted(s) /\ UNCHANGED <<secrets, budget>>
    \/ Disturb("call") /\ UNCHANGED secrets
    \/ Disturb("call") /\ Generate(s, signer)

ReconcileRootCA ==
    /\ pc = "RootCA"
    /\ \/ /\ KeepsRootCA(SecretCached(RootCA))
          /\ pc' = "ReadCA"
          /\ UNCHANGED <<secrets, due, at, ca, budget>>
       \/ /\ ~KeepsRootCA(SecretCached(RootCA))
          /\ Accepted(RootCA)
          /\ Generate(RootCA, 0)
          /\ pc' = "ReadCA"
          /\ UNCHANGED <<due, at, ca, budget>>
       \/ /\ ~KeepsRootCA(SecretCached(RootCA))
          /\ GenerateFails(RootCA, 0)
          /\ Retry

(* Each stage reads the root CA back, from the cache. *)
ReadCA ==
    /\ pc = "ReadCA"
    /\ IF SecretCached(RootCA).exists
       THEN /\ ca' = SecretCached(RootCA)
            /\ pc' = "Secret"
            /\ UNCHANGED <<due, at>>
       ELSE Retry
    /\ UNCHANGED <<secrets, budget>>

(* After the last secret of a stage a closed gate, or another object's failed call,
   ends the pass; the next one is started by RequeueAfter, by the work queue's
   retry or by the workload's own event. *)
Proceed ==
    \/ /\ at \notin EndOfStage
       /\ at' = at + 1
       /\ UNCHANGED <<due, pc, ca, budget>>
    \/ /\ at \in EndOfStage \ {Len(Order)}
       /\ at' = at + 1
       /\ pc' = "ReadCA"
       /\ UNCHANGED <<due, ca, budget>>
    \/ /\ at \in EndOfStage
       /\ Disturb("gate")
       /\ Retry
    \/ /\ at \in EndOfStage /\ at = Len(Order)
       /\ Done
       /\ UNCHANGED budget

Signs(s) == s = ServiceAccountKey \/ ValidCA(ca)

ReconcileSecret ==
    /\ pc = "Secret"
    /\ LET s == Order[at]
           upToDate == SignedSecretUpToDate(s, SecretCached(s), ca)
       IN \/ /\ ~Signs(s)
             /\ Retry
             /\ UNCHANGED <<secrets, budget>>
          \/ /\ Signs(s) /\ upToDate
             /\ Proceed
             /\ UNCHANGED secrets
          \/ /\ Signs(s) /\ ~upToDate
             /\ Accepted(s)
             /\ Generate(s, Signer(s, ca))
             /\ Proceed
          \/ /\ Signs(s) /\ ~upToDate
             /\ GenerateFails(s, Signer(s, ca))
             /\ Retry

Reconcile == Start \/ ReconcileRootCA \/ ReadCA \/ ReconcileSecret

-----------------------------------------------------------------------------
(* The world around it. *)

Write(s, v) ==
    /\ secrets' = [secrets EXCEPT ![s] = Store(@, v)]
    /\ UNCHANGED <<due, pc, at, ca>>

(* No watch on secrets: nothing is queued. *)
Deliver(s) ==
    /\ ~Synced(secrets[s])
    /\ secrets' = [secrets EXCEPT ![s] = Tail(@)]
    /\ UNCHANGED <<due, pc, at, ca, budget>>

Resync ==
    /\ ~due
    /\ due' = TRUE
    /\ UNCHANGED <<secrets, pc, at, ca, budget>>

Restart ==
    /\ Disturb("restart")
    /\ secrets' = [s \in Secret |-> Relisted(secrets[s])]
    /\ due' = TRUE
    /\ NoPass

UserDeletes(s) ==
    /\ Disturb("deletion")
    /\ SecretCurrent(s).exists
    /\ Write(s, Gone(SecretCurrent(s)))

(* A user takes an entry out of a secret; ca.crt is a kind of its own. *)
UserRemoves(s, entry) ==
    /\ Disturb(IF s = RootCA /\ entry = "crt" THEN "ca.crt" ELSE "entry")
    /\ entry \in SecretCurrent(s).keys
    /\ Write(s, [SecretCurrent(s) EXCEPT !.keys = @ \ {entry}])

Next ==
    \/ Reconcile
    \/ \E s \in Secret :
          Deliver(s) \/ UserDeletes(s) \/ \E entry \in Entries : UserRemoves(s, entry)
    \/ Resync
    \/ Restart

(* The worker runs, events arrive, and the informers resync now and then. *)
Fairness ==
    /\ WF_vars(Reconcile)
    /\ \A s \in Secret : WF_vars(Deliver(s))
    /\ WF_vars(Resync)

SafetySpec == Init /\ [][Next]_vars

Spec == SafetySpec /\ Fairness

-----------------------------------------------------------------------------
(* Properties. *)

SecretsOK == secrets \in [Secret -> Seq(SecretVersion)] /\ \A s \in Secret : secrets[s] # <<>>

PassOK ==
    /\ due \in BOOLEAN
    /\ pc \in {"idle", "RootCA", "ReadCA", "Secret"}
    /\ at \in Places
    /\ ca \in SecretVersion

(* Every variable stays in its type; no stream of versions is ever empty. *)
TypeOK == SecretsOK /\ PassOK /\ budget \in Nat

(* A root CA with its private key; any other secret with all its entries and, if
   it is a signed one, with the present root CA as its signer. *)
Intact(s) ==
    LET v == SecretCurrent(s) IN
    /\ v.exists
    /\ IF s = RootCA THEN "key" \in v.keys ELSE v.keys = Entries
    /\ s \notin {RootCA, ServiceAccountKey} => v.signer = SecretCurrent(RootCA).serial

(* Key material is never replaced needlessly: a root CA with its key, a service
   account key and a certificate that the present root CA has signed are kept,
   although they are judged by cached copies and by a root CA read earlier.
   (A replaced root CA cuts off every client, a replaced service account key
   invalidates every token.) *)
KeysKept ==
    [][\A s \in Secret : Intact(s) => SecretCurrent(s)'.serial = SecretCurrent(s).serial]_vars

(* The secrets work together: a valid root CA, and all certificates signed by it. *)
Coherent ==
    /\ SecretCurrent(RootCA).keys = Entries
    /\ \A s \in Secret : Intact(s)

(* However secrets are deleted or lose entries (ca.crt apart), however calls fail
   and caches lag, the secrets become coherent and stay so. *)
PkiConverges == <>[]Coherent

(* The assertion "Invalid CA signer secret" of every signing function does not fire
   for good: an invalid root CA is repaired. *)
InvalidCaRepaired ==
    (SecretCurrent(RootCA).exists /\ ~ValidCA(SecretCurrent(RootCA)))
        ~> ValidCA(SecretCurrent(RootCA))
=============================================================================
