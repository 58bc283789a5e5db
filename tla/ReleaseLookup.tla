--------------------------- MODULE ReleaseLookup ---------------------------
(***************************************************************************)
(* The lookup of release images: getReleaseImage with its mutex and cache, *)
(* and PodProvider.Lookup, which starts a pod of the image, polls it, reads *)
(* its log and deletes it.  The passes of several services share one       *)
(* process.  Everything but the creation of the pod is done with the       *)
(* context of the pass, which is cancelled when the process shuts down.    *)
(***************************************************************************)
EXTENDS Naturals, FiniteSets

CONSTANTS
    Service, Worker, Image, Content, PodName,
    ImageOf,             \* the release image of each service
    Pushed,              \* what the registry may hold for the images at first
    Pullable,            \* contents that a node can pull: a pod of another never starts
    Readable,            \* those that are release images: a pod of another fails
    None,
    Kinds,               \* the kinds of disruption that happen
    MaxDisruptions       \* bound: disruptions in a behaviour

DisruptionKind == {"call", "pod", "tag", "shutdown", "crash"}

ASSUME LookupAssumption ==
    /\ ImageOf \in [Service -> Image]
    /\ Pushed \subseteq [Image -> Content]
    /\ Readable \subseteq Pullable /\ Pullable \subseteq Content
    /\ None \notin Content \cup Worker \cup Service \cup PodName
    /\ Kinds \subseteq DisruptionKind
    /\ MaxDisruptions \in Nat

(* controller-runtime starts a fixed number of workers. *)
ASSUME WorkersAssumption == IsFiniteSet(Worker)

VARIABLES
    tagged,              \* the registry: the content of each image now
    held,                \* history: its contents since the process started
    pods,                \* the lookup pods in the API server
    queue,               \* services that are due
    pass,                \* the pass that each worker runs
    mutex,               \* cacheMutex
    cache,               \* releaseInfoCache
    given,               \* history: what this process last returned for each service
    stopping,            \* the context is cancelled, the process still runs
    budget               \* disruptions left

vars == <<tagged, held, pods, queue, pass, mutex, cache, given, stopping, budget>>

-----------------------------------------------------------------------------
NoPod == [phase |-> "none", image |-> None, log |-> None]

Started(i) == [phase |-> "Pending", image |-> i, log |-> None]

Unused(p) == pods[p].phase = "none"

(* GenerateName: the API server finds a name that is not in use. *)
FreshName == CHOOSE p \in PodName : Unused(p)

NoPass == [at |-> "idle", service |-> None, pod |-> None, result |-> None]

LookupStep == {"create", "poll", "logs", "delete"}

Step == {"idle", "lock"} \cup LookupStep

ImageFor(w) == ImageOf[pass[w].service]

PodOf(w) == pods[pass[w].pod]

InUse(p) == \E w \in Worker : pass[w].at \in LookupStep /\ pass[w].pod = p

Orphans == {p \in PodName : ~Unused(p) /\ ~InUse(p)}

Disturb(kind) == kind \in Kinds /\ budget > 0 /\ budget' = budget - 1

Init ==
    /\ tagged \in Pushed
    /\ held = [i \in Image |-> {tagged[i]}]
    /\ pods = [p \in PodName |-> NoPod]
    /\ queue = Service
    /\ pass = [w \in Worker |-> NoPass]
    /\ mutex = None
    /\ cache = [i \in Image |-> None]
    /\ given = [s \in Service |-> None]
    /\ stopping = FALSE
    /\ budget = MaxDisruptions

-----------------------------------------------------------------------------
(* The workers. *)

(* An event of the service or its children. *)
Enqueue(s) ==
    /\ s \notin queue
    /\ queue' = queue \cup {s}
    /\ UNCHANGED <<tagged, held, pods, pass, mutex, cache, given, stopping, budget>>

(* The pass comes to the release image.  A pass that starts after the context
   is cancelled does not: its update of the etcd operator's Deployment fails. *)
Begin(w, s) ==
    /\ ~stopping
    /\ pass[w].at = "idle"
    /\ s \in queue
    /\ \A v \in Worker : pass[v].service # s
    /\ queue' = queue \ {s}
    /\ pass' = [pass EXCEPT ![w] = [NoPass EXCEPT !.at = "lock", !.service = s]]
    /\ UNCHANGED <<tagged, held, pods, mutex, cache, given, stopping, budget>>

(* Mutant: the mutex does not keep another worker out. *)
NotLocked == TRUE

LockFree == mutex = None

(* The lock is released by the deferred Unlock of the same call. *)
CacheHit(w) ==
    /\ pass[w].at = "lock"
    /\ LockFree
    /\ cache[ImageFor(w)] # None
    /\ given' = [given EXCEPT ![pass[w].service] = cache[ImageFor(w)]]
    /\ pass' = [pass EXCEPT ![w] = NoPass]
    /\ UNCHANGED <<tagged, held, pods, queue, mutex, cache, stopping, budget>>

CacheMiss(w) ==
    /\ pass[w].at = "lock"
    /\ LockFree
    /\ cache[ImageFor(w)] = None
    /\ mutex' = w
    /\ pass' = [pass EXCEPT ![w].at = "create"]
    /\ UNCHANGED <<tagged, held, pods, queue, cache, given, stopping, budget>>

(* Mutant: the error is logged and dropped, and nothing queues the service. *)
GiveUpQuietly(w) ==
    /\ mutex' = None
    /\ pass' = [pass EXCEPT ![w] = NoPass]
    /\ UNCHANGED queue

(* Mutant: what is queued again is read after the pass was forgotten. *)
GiveUpForgotten(w) ==
    /\ mutex' = None
    /\ pass' = [pass EXCEPT ![w] = NoPass]
    /\ queue' = queue \cup {pass'[w].service}

(* An error ends the pass, and the service comes back after a delay. *)
GiveUp(w) ==
    /\ mutex' = None
    /\ pass' = [pass EXCEPT ![w] = NoPass]
    /\ queue' = queue \cup {pass[w].service}

(* Created with a context of its own, which a shutdown does not cancel. *)
CreatePod(w) ==
    /\ pass[w].at = "create"
    /\ \E p \in PodName : Unused(p)
    /\ pods' = [pods EXCEPT ![FreshName] = Started(ImageFor(w))]
    /\ pass' = [pass EXCEPT ![w].at = "poll", ![w].pod = FreshName]
    /\ UNCHANGED <<tagged, held, queue, mutex, cache, given, stopping, budget>>

(* The call fails, or its answer is lost: nobody knows the name of the pod. *)
CreateFails(w) ==
    /\ pass[w].at = "create"
    /\ Disturb("call")
    /\ \/ UNCHANGED pods
       \/ /\ \E p \in PodName : Unused(p)
          /\ pods' = [pods EXCEPT ![FreshName] = Started(ImageFor(w))]
    /\ GiveUp(w)
    /\ UNCHANGED <<tagged, held, cache, given, stopping>>

PodSucceeded(w) ==
    /\ pass[w].at = "poll"
    /\ ~stopping
    /\ PodOf(w).phase = "Succeeded"
    /\ pass' = [pass EXCEPT ![w].at = "logs"]
    /\ UNCHANGED <<tagged, held, pods, queue, mutex, cache, given, stopping, budget>>

(* A call of the lookup that is made with the context of the pass. *)
CallFails ==
    \/ stopping /\ UNCHANGED budget
    \/ Disturb("call")

PollFails(w) ==
    /\ pass[w].at = "poll"
    /\ \/ PodOf(w).phase \in {"Failed", "none"} /\ UNCHANGED budget
       \/ CallFails
    /\ pass' = [pass EXCEPT ![w].at = "delete"]
    /\ UNCHANGED <<tagged, held, pods, queue, mutex, cache, given, stopping>>

ReadLogs(w) ==
    /\ pass[w].at = "logs"
    /\ ~stopping
    /\ ~Unused(pass[w].pod)
    /\ pass' = [pass EXCEPT ![w].at = "delete", ![w].result = PodOf(w).log]
    /\ UNCHANGED <<tagged, held, pods, queue, mutex, cache, given, stopping, budget>>

(* A log cut short is no ImageStream. *)
LogsFail(w) ==
    /\ pass[w].at = "logs"
    /\ \/ Unused(pass[w].pod) /\ UNCHANGED budget
       \/ CallFails
    /\ pass' = [pass EXCEPT ![w].at = "delete"]
    /\ UNCHANGED <<tagged, held, pods, queue, mutex, cache, given, stopping>>

(* Mutant: the pod is only deleted after a lookup that succeeded. *)
DeletesAfterSuccess(w) == IF pass[w].result # None
                          THEN pods' = [pods EXCEPT ![pass[w].pod] = NoPod]
                          ELSE UNCHANGED pods

DeletePod(w) == pods' = [pods EXCEPT ![pass[w].pod] = NoPod]

(* The deferred deletion, whose error is dropped. *)
CleanUp(w) ==
    \/ ~stopping /\ DeletePod(w) /\ UNCHANGED budget
    \/ CallFails /\ UNCHANGED pods

(* Mutant: the image is not remembered. *)
Forgets(w) == UNCHANGED cache

Remember(w) == cache' = [cache EXCEPT ![ImageFor(w)] = pass[w].result]

LookupReturns(w) ==
    /\ pass[w].at = "delete"
    /\ pass[w].result # None
    /\ CleanUp(w)
    /\ Remember(w)
    /\ given' = [given EXCEPT ![pass[w].service] = pass[w].result]
    /\ mutex' = None
    /\ pass' = [pass EXCEPT ![w] = NoPass]
    /\ UNCHANGED <<tagged, held, queue, stopping>>

LookupFails(w) ==
    /\ pass[w].at = "delete"
    /\ pass[w].result = None
    /\ CleanUp(w)
    /\ GiveUp(w)
    /\ UNCHANGED <<tagged, held, cache, given, stopping>>

Lookup(w) ==
    \/ CreatePod(w) \/ CreateFails(w)
    \/ PodSucceeded(w) \/ PollFails(w)
    \/ ReadLogs(w) \/ LogsFail(w)
    \/ LookupReturns(w) \/ LookupFails(w)

-----------------------------------------------------------------------------
(* The cluster. *)

Starts(p) == tagged[pods[p].image] \in Pullable

(* Once its image is pulled the container prints what the image holds, or fails for
   want of it.  The kubelet retries a pull that fails for ever: the pod stays Pending. *)
PodEnds(p) ==
    /\ pods[p].phase = "Pending"
    /\ Starts(p)
    /\ LET c == tagged[pods[p].image]
       IN pods' = [pods EXCEPT ![p] = IF c \in Readable
                                      THEN [@ EXCEPT !.phase = "Succeeded", !.log = c]
                                      ELSE [@ EXCEPT !.phase = "Failed"]]
    /\ UNCHANGED <<tagged, held, queue, pass, mutex, cache, given, stopping, budget>>

(* Evicted, or deleted by a user. *)
PodLost(p) ==
    /\ ~Unused(p)
    /\ Disturb("pod")
    /\ \/ /\ pods[p].phase = "Pending"
          /\ pods' = [pods EXCEPT ![p].phase = "Failed"]
       \/ pods' = [pods EXCEPT ![p] = NoPod]
    /\ UNCHANGED <<tagged, held, queue, pass, mutex, cache, given, stopping>>

(* Another image is pushed under the same name. *)
Retag(i, c) ==
    /\ c # tagged[i]
    /\ Disturb("tag")
    /\ tagged' = [tagged EXCEPT ![i] = c]
    /\ held' = [held EXCEPT ![i] = @ \cup {c}]
    /\ UNCHANGED <<pods, queue, pass, mutex, cache, given, stopping>>

(* The signal handler cancels the context. *)
Shutdown ==
    /\ ~stopping
    /\ Disturb("shutdown")
    /\ stopping' = TRUE
    /\ UNCHANGED <<tagged, held, pods, queue, pass, mutex, cache, given>>

(* The process ends, after a shutdown or not, and another one starts. *)
Exit ==
    /\ \/ stopping /\ UNCHANGED budget
       \/ Disturb("crash")
    /\ queue' = Service
    /\ pass' = [w \in Worker |-> NoPass]
    /\ mutex' = None
    /\ cache' = [i \in Image |-> None]
    /\ given' = [s \in Service |-> None]
    /\ held' = [i \in Image |-> {tagged[i]}]
    /\ stopping' = FALSE
    /\ UNCHANGED <<tagged, pods>>

-----------------------------------------------------------------------------
Next ==
    \/ \E s \in Service : Enqueue(s)
    \/ \E w \in Worker, s \in Service : Begin(w, s)
    \/ \E w \in Worker : CacheHit(w) \/ CacheMiss(w) \/ Lookup(w)
    \/ \E p \in PodName : PodEnds(p) \/ PodLost(p)
    \/ \E i \in Image, c \in Content : Retag(i, c)
    \/ Shutdown
    \/ Exit

SafetySpec == Init /\ [][Next]_vars

(* The work queue is first in first out and a Go mutex does not starve those
   who wait; a lookup goes on, its pod ends if its image can be pulled, and a
   process that was told to stop does. *)
Fairness ==
    /\ \A s \in Service : SF_vars(\E w \in Worker : Begin(w, s))
    /\ \A w \in Worker : SF_vars(CacheHit(w) \/ CacheMiss(w))
    /\ WF_vars(\E w \in Worker : Lookup(w))
    /\ WF_vars(\E p \in PodName : InUse(p) /\ PodEnds(p))
    /\ WF_vars(Exit)

Spec == SafetySpec /\ Fairness

-----------------------------------------------------------------------------
(* Properties. *)

Pod == [phase : {"none", "Pending", "Succeeded", "Failed"},
        image : Image \cup {None}, log : Content \cup {None}]

PassRecord == [at : Step, service : Service \cup {None}, pod : PodName \cup {None},
         result : Content \cup {None}]

TypeOK ==
    /\ tagged \in [Image -> Content]
    /\ held \in [Image -> SUBSET Content]
    /\ pods \in [PodName -> Pod]
    /\ queue \subseteq Service
    /\ pass \in [Worker -> PassRecord]
    /\ mutex \in Worker \cup {None}
    /\ cache \in [Image -> Content \cup {None}]
    /\ given \in [Service -> Content \cup {None}]
    /\ stopping \in BOOLEAN
    /\ budget \in 0 .. MaxDisruptions
    /\ \A w \in Worker : pass[w].at # "idle" => pass[w].service \in Service
    /\ \A w \in Worker : pass[w].at \in {"poll", "logs", "delete"} => pass[w].pod \in PodName

(* However the passes of all services interleave, an image is looked up by one
   worker at a time, and never again once it is known: the mutex is held from
   the test of the cache to the entry in it, across the polling of the pod
   (reconciler.go:239-259).  It is the mutex that sees to it only with more than the
   one worker that controller-runtime starts by default. *)
OneLookup ==
    \A w \in Worker : pass[w].at \in LookupStep =>
        mutex = w /\ cache[ImageFor(w)] = None

(* A lookup pod that no lookup uses is left by a call that failed or by the end
   of a process, and by each of them at most one for each worker: repeated
   lookups of an image that cannot be read leave nothing behind
   (pod_provider.go:51-60). *)
LeaksBounded ==
    Cardinality(Orphans) <= Cardinality(Worker) * (MaxDisruptions - budget)

Memo == INSTANCE ImageMemo WITH memo <- cache

(* Services with the same image are given the same content as long as one
   process lives, even while the name of the image moves to another content, and
   never a content that it did not have (reconciler.go:237-261). *)
ImplementsMemo == Memo!MemoSpec

(* A lookup that polls a pod which cannot start. *)
Hangs(w) == pass[w].at = "poll" /\ PodOf(w).phase = "Pending" /\ ~Starts(pass[w].pod)

(* Services whose image can be read get it in the end, unless one lookup hangs for
   ever: the poll has no time limit, so a pod whose image cannot be pulled keeps the
   mutex and starves every service (pod_provider.go:63-76, reconciler.go:239).  Nothing
   else does: neither failed lookups, images that are no release, lost pods and a
   stopping process, nor a hang that ends because its image was pushed, its pod
   was lost or the process ended. *)
ReadableImagesGiven ==
    (\E w \in Worker : <>[]Hangs(w))
        \/ \A s \in Service :
               <>[](tagged[ImageOf[s]] \in Readable) => <>[](given[s] # None)

(* "Launch the pod and ensure we clean up regardless of outcome"
   (pod_provider.go:50): whenever a lookup returns, its pod is gone. *)
CleanedUp ==
    [][\A w \in Worker : LookupReturns(w) \/ LookupFails(w) => pods'[pass[w].pod] = NoPod]_vars
=============================================================================
