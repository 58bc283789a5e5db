# Verification of hypershift-lite

TLA+ models of the hypershift-lite operator (`src/`), the TLC runs that check
them on small instances, and TLAPS proofs of what matters most for every
instance. hypershift-lite turns a `KubernetesService` into a Kubernetes API
server without workers: an etcd cluster (run by the etcd operator), a
kube-apiserver and a kube-controller-manager, with the secrets and
configuration they need, all in the namespace of the service.

File names below are relative to `src/pkg/controllers/kubeservice/` unless they
start with `src/`.

## 1. The system

| Component | State it keeps | Operations | Talks to |
|---|---|---|---|
| `KubernetesServiceReconciler` (`reconciler.go`) | release image cache (in memory, under a mutex); everything else is in the API server | `Reconcile`: fetch the service, three child statuses, the service's own status, root CA, etcd, gate, release image, API server, gate, controller manager | API server by a client with cached reads |
| Etcd lifecycle (`etcd/status.go`) | the `EtcdCluster` object | judge, update the condition, delete by name, recreate | etcd operator through the object; pods by List |
| Conditions (`ks/`, `kas/`, `kcm/status.go`) | four conditions in the service's status | derive from cached children; `Status().Update` | users |
| PKI (`pki/`, `kas/certs.go`, `kas/kubeconfig.go`, `kcm/certs.go`, `etcd/reconcile.go`, `src/pkg/certs`) | root CA, eight certificates or kubeconfigs signed by it, one service account key, in Secrets | keep or generate, annotate with the CA's hash | pods that mount them |
| Other objects (`*/reconcile.go`, `*/manifests.go`, `*/deployment.go`, `*/config.go`) | ConfigMaps, Service, Role, RoleBinding, ServiceAccount, Deployments | `CreateOrUpdate` each | kubelet, etcd operator |
| Watches and queue (`SetupWithManager`, controller-runtime) | work queue, delayed items, informer caches | deliver an event, queue the owner, retry, resync | API server |
| Release lookup (`src/pkg/releaseinfo`) | a pod per lookup | create a pod, poll it, read its log, delete it | kubelet |
| Manifests (`src/config`) | | operator Deployment with one replica and rolling updates | |

They interact through the API server's objects only. The operator never calls
the etcd operator or the deployment controller: it writes an object and reads
its status from a cache that lags behind. A child's event queues its owner, the
service; a single worker takes the service from the queue and runs one pass.

What is hard here:

* *stale reads*: every decision is taken on cached copies, while writes go to the API server;
* *lost wakeups*: two of the pass's early ends (`reconciler.go:217-223` and the
  normal end) requeue nothing and rely on a later event; two facts a pass waits
  for (the bootstrap timeout, a terminated pod) raise no event and rely on
  `RequeueAfter`;
* *partial failure*: a pass makes some thirty calls, each of which may fail with or
  without effect; one error (`reconciler.go:134-137`) is dropped;
* *deletion by name* of a cluster that was judged by a cached copy;
* *restarts* between any two calls, *edits and deletions* of the service or its
  children during a pass;
* *key material* judged by cached copies, in secrets nobody watches;
* *a mutex held across a remote wait*: a lookup pod is polled under the cache mutex,
  with a context that a shutdown cancels;
* *identity by name*: owner references, lookups of an image and the deletion of a
  cluster go by names that outlive what they were made for;
* *names that must agree*: a file that a process reads is named in five places.

What makes each part correct:

* reconciler: a service at rest has converged; stages start in order;
  disturbances end in convergence; a deletion leaves nothing;
* etcd lifecycle: what cannot come up is replaced, what is deleted is what was judged;
* conditions: Available means that all three are up; no condition claims what never was;
* other objects: a workload finds what it mounts, and each file it is told to read;
* owner references: an object belongs to the services that are there, and stays theirs;
* release lookup: one lookup at a time, one content per image and process, every
  readable image is given in the end unless a lookup hangs on one that cannot be pulled;
* release info: versions and labels say what the tags say;
* PKI: certificates belong to the present root CA in the end, and nothing in
  order is replaced on the way.

## 2. The modules

| Module | What it models | Checked by | Proofs |
|---|---|---|---|
| `VersionStream` | one API object as stored, cached and on its way | all runs of `Reconciler`, `Pki`, `Ownership` | `VersionStreamProofs` |
| `Conditions` | `etcd/status.go`, `ks/status.go`, `kas/status.go`, `kcm/status.go` | Reconciler runs | |
| `Files` | volumes, mounts, files named by arguments and configuration, entries of objects | Reconciler runs | `SafetyProofs` |
| `Plans` | order of the secondary objects, and what pods mount and read | Reconciler runs | |
| `Reconciler` | one service: passes, queue, cache, disturbances, cluster | `MCReconciler` | `ReconcilerProofs`, `RolloutProofs`, `SafetyProofs` |
| `Rollout` | abstract specification of a staged rollout | run `safety` | `RolloutImplemented` |
| `Pki` | root CA, signed secrets and service account key | `MCPki` | `PkiProofs` |
| `Ownership` | services of one namespace, an object they share, the garbage collector | `MCOwnership` | `OwnershipProofs` |
| `ReleaseLookup` | `getReleaseImage`, `PodProvider.Lookup`, the pods, shutdown and crash | `MCReleaseLookup` | `ReleaseLookupProofs` |
| `ImageMemo` | abstract specification of a memo of image contents | run `lookup` | `LookupImplementsMemo` |
| `ReleaseInfo` | `releaseinfo.go`, `static_provider.go` | itself | `ReleaseInfoProofs` |
| `Network` | addresses, ranges, certificates and who dials whom | | `PkiProofs` |

`Reconciler` extends `VersionStream`, `Conditions` and `Plans` (which extends
`Files`); it instantiates `Rollout` with the refinement mapping *launched* =
children created at least once, *proven* = children that were up at least once,
*announced* = the Available condition. `ReleaseLookup` instantiates `ImageMemo`
with the cache as its memo. `Pki` and `Ownership` extend `VersionStream` only:
they keep the control of the pass as far as their objects see it, since the product
of the state spaces would tell nothing that either does not. `Reconciler` sees
`ReleaseLookup` as the step `ReleaseImage`, which succeeds or fails.

### State and code

`VersionStream`. An object is a non-empty sequence of versions: the last is
stored, the first is in the informer cache (`ctrl.NewManager` in
`src/cmd/hypershift-lite/main.go` is given no client builder, so `Get` reads the
cache), those between are watch events on their way. The cached copy carries
the current resource version exactly when there is one element, which is what
an `Update` is refused for.

`Reconciler`. `kubeService` and `children` are such streams. A child keeps the
number of its incarnation (`uid`) after it is gone. `pc` and `mem` are the
running pass: `mem` is its copy of the service, with the conditions it has set
and whether that copy is still current (`fresh`). `dirty` is the work queue,
`delayed` an item waiting for the rate limiter or `RequeueAfter`. One action is
one step of `Reconcile`: a cached read and the call that depends on it.

| Action | Code |
|---|---|
| `Start` | `reconciler.go:76-94` |
| `EtcdStatus`, `EtcdDelete` | `reconciler.go:96-118`, `etcd/status.go:31-92` |
| `KasStatus`, `KcmStatus`, `KsStatus` | `reconciler.go:119-179`, `kas/status.go`, `kcm/status.go` |
| `ApplyEtcd` (root CA, `reconcileEtcd`, gate) | `reconciler.go:181-202`, `263-366` |
| `ReleaseImage` | `reconciler.go:204-208`, `237-261` |
| `ApplyKas` (`reconcileKubeAPIServer`, gate) | `reconciler.go:210-223`, `368-492` |
| `ApplyKcm` | `reconciler.go:225-234`, `494-534` |
| `DeliverKs`, `DeliverChild`, `DelayExpires` | `reconciler.go:58-74` with controller-runtime |
| `Restart` | `src/cmd/hypershift-lite/main.go:41-65` |

Within an `Apply` step the secondary objects of the stage and its workload are
applied together; a call that fails leaves any prefix of the plan behind. The
objects have no conflicts of their own here (their contents are constant, or the
subject of `Pki`), so only their presence is kept, in `objects`. A Deployment
that is found is always sent (defaulted fields never compare equal to the
desired ones), an `EtcdCluster` never.

`Pki`. `secrets` is a stream per secret; `ca` is the copy of the root CA that
each stage reads before it signs; `at` is the secret the pass has come to. Key
material is the number of its generation, and a signed secret's annotation
holds the number of the root CA that signed it.

`Files`. A directory goes by the name of its constant, so that a mount path is a
field of a record; a file is a directory and an entry. `FilesReadable` follows each
file from the argument or configuration that names it over the mount and the
volume to an object and an entry of it. Only what processes read is listed: what
they write goes to scratch volumes.

`Ownership`. A service is a stream of versions whose `uid` counts its creations; the
object it shares with other services of its namespace is a stream of sets of
references. It stands for an object that is watched (`reconciler.go:63-64`) and that
every pass comes to: the EtcdCluster, or the API server's Deployment behind an open
gate. Secrets and ConfigMaps raise no event, and a pass that ends at the API server's
gate does not come to the controller manager's Deployment: for them `OwnedAtRest` and
`OwnedByPresent` say nothing. A pass is its copy of the service from the
cache; `CreateOrUpdate` writes the reference of that copy. The garbage collector
deletes an object none of whose owners is present, by name and UID, and removes
references to absent owners where others are present; it is external and reads the
stored objects.

| Action | Code |
|---|---|
| `Start` | `reconciler.go:76-94` |
| `CreateOrUpdate`, `CreateOrUpdateFails` | `reconciler.go:473-492`, `536-581` with controllerutil |
| `DeliverService`, `DeliverChild` | `reconciler.go:58-67` with `enqueue_owner.go` |
| `UserCreates`, `UserDeletes`, `ChildDeleted`, `Collect`, `Prune` | external |

`ReleaseLookup`. `pass` is what each worker runs, from the lock to the deferred
deletion; `mutex` and `cache` are the fields of the reconciler; `pods` are the lookup
pods. `stopping` is the cancelled context: calls made with it fail, but the pod is
created with a context of its own (`src/pkg/releaseinfo/pod_provider.go:51`). The
controller-runtime vendored here does not wait for its workers, so the process may
exit at any step after a shutdown (`Exit`). The code leaves
`MaxConcurrentReconciles` at its default of one, so that as configured no two lookups
meet and `OneLookup` holds without the mutex; the instance has two workers, because
the mutex is there for more than one. A pod whose image cannot be pulled (not in
`Pullable`) stays Pending: a lookup that polls it hangs, until the image is pushed, the
pod is lost or the process ends.

| Action | Code |
|---|---|
| `Begin` | the queue of controller-runtime, up to `reconciler.go:204` |
| `CacheHit`, `CacheMiss` | `reconciler.go:239-254` |
| `CreatePod`, `CreateFails` | `src/pkg/releaseinfo/pod_provider.go:50-54` |
| `PodSucceeded`, `PollFails` | `src/pkg/releaseinfo/pod_provider.go:62-79` |
| `ReadLogs`, `LogsFail` | `src/pkg/releaseinfo/pod_provider.go:81-103` |
| `LookupReturns`, `LookupFails` | deferred `55-60`; `reconciler.go:254-261`, `204-208` |
| `Shutdown`, `Exit` | `src/cmd/hypershift-lite/main.go:41-65` |

`ReleaseInfo`. The initial states are all releases within the bounds and `ReadTag` is
one turn of the loop of `readComponentVersions`; the labels and the decorator are
operators, compared with what the tags claim (the operator itself calls neither the
decorator nor the functions that write labels). Every tag is taken to name an image:
one without would make `ComponentImages` panic
(`src/pkg/releaseinfo/releaseinfo.go:36`). A label is the sequence of its
fields, and a field that does not parse is `Malformed`: the regular expressions and
the semantic versions behind that are not modelled.

`Network` has operators only, each the value that a reconcile function derives.

## 3. Runs

`CHECK_DEADLOCK FALSE` in the runs of `Reconciler` and `Ownership`: once the
disturbances are used up and the service has converged (or is deleted), the system
really is at rest until the user does something; `ReleaseInfo` ends with its loop. In
`ReleaseLookup` a hang really stops everything. In `Pki` a resync is always to come,
and deadlock is checked.

| Run | Instance | Properties | Shows |
|---|---|---|---|
| `safety` | two images, two disturbances of the eight kinds that leave the service undeleted and matter with one etcd replica, one event of lag, symmetric images | `QuiescentConverged`, `StagedRollout`, `EtcdDeleteHitsExpired`, `MountsExist`, `ImplementsRollout` | no lost wakeup; order of the stages; the judged cluster is the deleted one; mounts exist; the operator implements `Rollout` |
| `convergence` | two images, one disturbance, two events | `FilesReadable`, `Convergence` | convergence once disturbances end; every file is there |
| `stuck` | two etcd replicas, so that a quorum can be lost; deletion, failing calls, restart, timeout, terminated pods, changing status of the etcd cluster; two of them, one event; workloads need not start | `TypeOK`, `DeletionCompletes`, `FailedEtcdReplaced` | a pass never works on a service it failed to read; nothing is left of a deleted service; the requeue notices the timeout and a lost quorum |
| `pki` | nine signed or generated secrets and the root CA, two disturbances, one event | `TypeOK`, `KeysKept`, `PkiConverges` | coherent secrets in the end, nothing replaced needlessly |
| `recreation` | two services, six disturbances, two events | `TypeOK`, `OneReferencePerName`, `OwnedAtRest`, `OwnershipLasts`, `OwnedByPresent` | the object belongs to the present incarnations and stays theirs; nobody is forgotten |
| `lookup` | three services, two images, two workers, four contents of which one is no release and one cannot be pulled, one disturbance | `TypeOK`, `OneLookup`, `LeaksBounded`, `ImplementsMemo`, `ReadableImagesGiven` | exclusion, one content per process, no starvation but by an image that cannot be pulled, leaks only by failures |
| `versions` | all releases of up to two tags over two components, two versions, two display names | `VersionsAgreed`, `LabelsRoundTrip`, `OverridesWin` | the loops and labels against their definitions |
| `kcm_condition` | *violation* | `KcmConditionTruthful` | finding 1 |
| `etcd_data` | *violation* | `OnlyUnbootstrappedDeleted` | finding 2 |
| `pki_invalid_ca` | *violation* | `InvalidCaRepaired` | finding 3 |
| `lookup_cleanup` | *violation* | `CleanedUp` | finding 4 |
| `label` | *violation* | `DisplayNameLabelValid` | finding 5 |

Every property of a passing run has a mutant in the module it belongs to
(definitions commented "Mutant"), a bug the code could plausibly have, under
which the run fails.

### Bounds

* `MaxDisruptions` bounds what goes wrong in one behaviour: failing or lost calls,
  restarts, edits, deletions, drifting Deployments, status changes, the timeout,
  terminated pods, resyncs, and in `Pki` closed gates. What a healthy cluster does
  by itself (workloads coming up, finalizers, garbage collection, events) is not
  bounded. Two disturbances are enough for each of the findings and mutants; one
  disturbance is used where two events of lag are. In `Ownership`, where everything a
  user does is one, six let a service be created, deleted and created again beside
  another, with two failures. In `ReleaseLookup` one is enough for each way out of a
  lookup; retries and unreadable images need none.
* `Kinds` selects the kinds a run looks at.
* `MaxLag` bounds the watch events under way, by a state constraint. It cuts off
  behaviours in which the cache lags further; a behaviour TLC reports is one of
  the unbounded model. A step that would leave the bound is still enabled, so no
  behaviour counts as stuck because of the bound.
* `MaxClusters` (2) bounds the incarnations of the EtcdCluster in `stuck`, where a
  cluster can be replaced again and again; `OnlyEtcdChanges` takes the changing status of
  the Deployments out of it, which neither of its liveness properties depends on. The code's
  clusters have one replica (`reconciler.go:46`): the part of `FailedEtcdReplaced` about
  terminated pods concerns `etcd/status.go:52-69` as written for more.
* Images: two, enough for an edit and a drift; one where no action compares them.
* `PodName` (3): one more than the one pod in use and the one that a single
  disturbance can leave behind, so that a name is always free.
* `MaxTags`, `MaxVersions` (2) and `MaxNames` (1): two tags can disagree, a label can
  repeat a key, and a component can be without the display name another has.

The theorems below hold without any of these bounds.

### Fairness and timing

`OperatorFairness`: the worker takes the next step of a pass, watch events
arrive, the delaying queue releases its items, finalizers and the garbage
collector do their work. All are weak: each of them is a loop or a timer that nothing
disables (`Start` and the queue in controller-runtime's
`internal/controller/controller.go`, the delaying queue in client-go). Calls that
fail and passes that stop early are bounded by `MaxDisruptions`, which is the
assumption that disturbances end. `ReleaseImage` is taken to end: by
`ReadableImagesGiven` it does unless its lookup hangs on an image that cannot be pulled,
and then nothing of `Convergence` or `FailedEtcdReplaced` holds for any service of the
process. `WorkloadFairness`,
which only `Spec` has, says that a workload that exists starts in the end;
`StuckSpec` does without it. It does not ask for mounts and files: that they are there is
`MountsExist` and `FilesReadable`, not `Convergence`. In `Pki`, `WF_vars(Resync)` stands for the
informers' resync (ten hours by default): as secrets are not watched, convergence
depends on it, which is the point of the property.

In `Ownership` and `ReleaseLookup` several services share workers. The queue is first
in first out, so a service that is due again and again is taken: `SF` for `Start(n)`
and for beginning a service's pass. A Go mutex hands over to one who has waited for a
millisecond, hence `SF` for a worker at the lock. A pod
whose image can be pulled ends (`WF` of `PodEnds`); nothing is assumed of the others,
and as the poll has no time limit, one of them keeps the mutex from every service. This
is the exception in `ReadableImagesGiven`; without it TLC finds the hang. A process that was told to stop does so (`WF` of `Exit`).
The steps of lookups are weakly fair. Events of a
service (`Enqueue`) are not fair: what is given in the end is given by retries.

One timing assumption is made, in the guard of `BootstrapTimeout`: an
EtcdCluster does not reach the five minute timeout before the cache shows that
incarnation. Without it a cluster could be judged by the age of its predecessor,
which takes a watch that lags for minutes.

## 4. Findings

1. `kcm/status.go:17`: a missing Deployment leaves its condition True, and while
   the API server is down the gate at `reconciler.go:217-223` lets no pass recreate
   it. A service at rest claims "Kube controller manager is running and available".
2. `etcd/status.go:45`: the bootstrap timeout is measured from the creation of the
   cluster, not from the outage. A cluster that had served is deleted, with its
   data, as one that "failed to bootstrap", as soon as its only member is not ready.
3. `pki/reconcile.go:15`: the root CA is kept if it has `ca.key` (asked for twice);
   one without `ca.crt` is kept by this test and refused by `ValidCA` in every pass.
4. `src/pkg/releaseinfo/pod_provider.go:56`: the deferred deletion of a lookup pod uses
   the context of the pass and drops its error. When the operator shuts down during a
   lookup, the pod stays, against the comment at line 50.
5. `src/pkg/releaseinfo/releaseinfo.go:267`: the label of display names that is written
   for several components, one of them without a name, has an empty field, which the
   parser of the same file refuses, against the comment at lines 256-257.

One more fact is stated and proved as it is: `ControllerManagerRangesSwapped` (the
controller manager gets the two ranges in each other's place, `kcm/deployment.go:79`).
And one limit of the code is part of a property: `ReadableImagesGiven` excepts the
lookup that hangs, for the poll at `src/pkg/releaseinfo/pod_provider.go:63-76` has no
time limit and the mutex is held meanwhile.

## 5. Proofs

All proofs are checked by TLAPS to the last leaf, from the named assumptions on
the constants only (`ImagesAssumption`, `DisruptionsAssumption`,
`ReplicasAssumption`, `OwnershipAssumption`, `LookupAssumption`, `WorkersAssumption`,
`InfoAssumption`, `MalformedAssumption`), for any number of images, replicas, services,
workers, disturbances, components and tags and any lag. They are about `SafetySpec`,
that is, without fairness (`ReleaseInfo` states none). `WorkersAssumption`, that the
workers are finitely many, is controller-runtime's `MaxConcurrentReconciles`, a number;
`MalformedAssumption` says that a field which does not parse is no field that does.
Every invariant, action property and refinement that a passing run checks is proved.

* `VersionStreamProofs`: what `Store`, `Tail` and `Relisted` keep of a stream.
* `ReconcilerProofs!TypeCorrect`: `TypeOK`, one lemma per group of actions.
* `RolloutProofs!RolloutInvariant`, `RolloutIsStaged`: `StagedRollout` alone is not
  inductive, because a pass acts on cached children, on conditions stored earlier
  and on conditions in memory. `RolloutInv` adds that each of these tells the truth
  about the past (`ChildrenProven`, `ConditionsHonest`) and that the gates were
  passed with such conditions (`GatesPassed`). As the history `wasUp` only
  grows, what was true once stays true, however old the copy is.
* `RolloutProofs!RolloutImplemented`: every step is a step of `Rollout` or a
  stutter, by the same invariant: only `ApplyChild` launches, only
  foreign writes prove, only `KsStatus` announces.
* `SafetyProofs!EtcdDeletionSafe`: incarnations are ordered in the stream
  (`Ordered`), the cache knows each expired one, and one that it still shows is the
  stored one (`AgedKnown`). So what is judged expired and then deleted by name is the
  same incarnation, or one that is gone already.
* `SafetyProofs!MountsAlwaysExist`: a stage is entered only with the objects of the
  stages before it (`MountsInv`), whatever prefix of a plan a failing call leaves.
* `PkiProofs!PkiTypeCorrect`, `PkiKeysKept`: the numbers of root CAs grow along the
  stream (`RootOrdered`); no certificate has a signer that the cache does not show
  yet (`SignedByKnownCA`); a pass's copy lies between the signers and the cache
  (`CAOfPass`). So a certificate signed by the stored root CA can never look out of
  date to a pass whose update would be accepted.

* `SafetyProofs!FilesAlwaysReadable`: each file of a workload comes from an object that
  it mounts and is an entry of it (`KasFilesMounted`, `KcmFilesMounted`), so
  `MountsAlwaysExist` is enough.
* `OwnershipProofs!OneReferenceAlways`: inductive as it stands, with what
  `ensureOwnerRef` does to a set of references without duplicates (`EnsuredFacts`).
* `OwnershipProofs!OwnershipAlwaysLasts`: the danger is a pass that puts an old
  incarnation's reference in the place of the present one's. `AgesInv` says that
  incarnations grow along each stream (`Ages`), that a pass's copy is no newer than
  the cache (`PassIsCached`), and that no reference is newer than the cache or, during
  a pass for its service, than the pass's copy (`NoNewerReference`). So whoever
  replaces a reference has seen an incarnation at least as new.
* `OwnershipProofs!NoServiceForgotten`: nothing polls, so a service that is there and
  does not own the object needs a reason to be woken up. `NoneForgotten` lists the
  reasons (`WillOwn`): it is queued, an event of its own is on its way, a pass works
  on its present incarnation, or a version of the object that is to be replaced in
  the cache names it (`Named`). Whoever replaces the object leaves the replaced version
  to be seen (`ReplacedIsSeen`), and its event queues the owners it had (`NamedStep`).
* `ReleaseLookupProofs!OneLookupAlways`: inductive with type correctness.
* `ReleaseLookupProofs!LookupImplementsMemo`: by `MemoInv`, what a pod logged and what
  a lookup has read is a content that the registry held for the image since the
  process started (`TaggedHeld`, `PodsOwn`, `ResultsHeld`); a lookup that returns is
  then a step `Provide`, by `OneLookup` the first for its image.
* `SafetyProofs!NoLostWakeup`: `QuiescentConverged` says what holds between passes when
  nothing is due and no event is on its way (`Calm`); the invariant must say what a
  calm state is like *during* a pass. `WakeupInv` (in `Reconciler`) adds that a running
  pass that nothing will follow works on what is stored and has written what it found
  (`PassCurrent`): its judgement of each workload is that of the present status
  (`Judged`), the conditions are stored, and the Deployments it is past exist with the
  present image. Calm ends with every change (`StatusWakes`, `ApplyWakes`,
  `KsStatusWrites`, `CalmWorld`, `CalmService`), and where it lasts over a step
  the cache is what is stored (`CalmCached`), so that what the pass judges is the
  present (`JudgementCurrent`, `StatusJudges`). `WakeupStep` is that argument action by
  action.
* `ReleaseLookupProofs!LeaksAlwaysBounded`: a shutdown is paid for at once, but what it
  causes comes later: once the context is cancelled, each running pass may still start a
  pod and fail to delete it. So `LeaksInv` adds the workers that are still busy then
  (`Owed`) to the pods left behind, and bounds both by what the disturbances used allow
  (`Allowed`). A failing call adds at most one orphan (`OneOrphan`), a worker that leaves
  one behind is no longer busy (`WorkerLeaks`), and a shutdown or crash adds at most one
  for each worker (`ShutdownOwes`, `ExitLeaks`).
* `ReleaseInfoProofs!TagsAgree`: `InfoInv` says that what the loop collected for a
  component are the projections of what the tags up to here say of it. Versions and
  display names are collected apart, so that the two sets have one element each
  exactly if the set of pairs has (`MultiplesDiffer`).
* `ReleaseInfoProofs!LabelsReadBack`: the keys in order are all keys, each once
  (`OrderedKeysFacts`, by counting the keys below each), so a label has one field
  for each and the last one of a key is the only one (`VersionLabelFacts`, `AllNamed`);
  if several components are written and one has no name, the label of display names has
  an empty field and is not valid (`SomeUnnamed`), which `LabelsRoundTrip` leaves out.
* `ReleaseInfoProofs!OverridesAlwaysWin`: what is appended comes last, however often the
  release names a component (`AppendedWins`).
* `PkiProofs` on `Network`: `nextIP`, which carries by overflow, is the successor on
  addresses (`NextIPIsSuccessor`); the service address in the certificate lies in any
  range of at least two addresses (`ServiceAddressInRange`); the swapped ranges; and
  every connection of the control plane dials a name that the other side's
  certificate proves (`ConnectionsAccepted`).

Only model-checked: every liveness property (`Convergence`, `DeletionCompletes`,
`FailedEtcdReplaced`, `PkiConverges`, `OwnedByPresent`, `ReadableImagesGiven`), because
TLAPS proves neither `ENABLED` nor what follows from fairness.

## 6. Not modelled, and why

* *Two operators* at once (`src/config/operator/05_deployment.yaml:7`, a rolling update
  without leader election): a second pass and a second cache square the state spaces
  of `Reconciler` and `Pki`, which are at the limit of a run already.
* *Contents that two services of one namespace write in turn* into one Deployment or
  root CA: `Ownership` has what they do to each other's ownership; the README of the
  repository sets up one service per namespace.
* *Generations of Deployments*: `Available` during a rollout of a new image speaks of
  the old pods (`kas/status.go:22`); the deployment controller is external.
* *Expiry of certificates*: the code does not look at it, so a clock would change nothing.
* *A tag without an image* in a release (`src/pkg/releaseinfo/releaseinfo.go:36`): see section 2.
* *Constant data* that no other part reads: the rules of the etcd operator's Role, probes,
  bootstrap scripts, admission plugins, the audit policy, messages and events.
* *Syntax* of labels and versions (regular expressions, semantic versions), PEM and X.509
  encoding, YAML and JSON.
* *EtcdCluster types* (`src/thirdparty`) and *generated code*: their operations are called by
  the etcd operator or by nobody, not by this program.

## 7. Plan

Done, in this order: `VersionStream`, `Conditions`, `Plans`, `Reconciler` with `Rollout`,
the proofs of type correctness, staged rollout, refinement, deletion and mounts; `Pki`
and its proofs; `Files`; `ReleaseLookup` with `ImageMemo`, `Ownership`, `ReleaseInfo` and
`Network`, with the proofs of the first two and the last.

Then the proofs of `QuiescentConverged`, `LeaksBounded` and the three properties of
`ReleaseInfo`, and `OwnedAtRest`, the safety part of `OwnedByPresent`, with its proof.
(`PkiConverges` has no such part: nothing watches the secrets, so that at rest they
may be incoherent until the next resync.)

Last, the expected failure of `DisplayNameLabelValid`, images that cannot be pulled in
`ReleaseLookup`, and the run `stuck`, which puts deletions, failing calls and restarts
together with an etcd cluster that does not come up.

Left:

1. What a *pass* of the PKI guarantees: one that ran to its end without a failing call
   and without interference leaves coherent secrets.
2. Two operators on `Pki` alone, if the number of secrets is cut down for it.
