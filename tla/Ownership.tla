----------------------------- MODULE Ownership -----------------------------
(***************************************************************************)
(* Who owns an object that the operator watches (reconciler.go:63-64) and  *)
(* that each pass comes to: the EtcdCluster, or the API server's           *)
(* Deployment behind an open gate.  Secrets and ConfigMaps raise no event. *)
(* Users delete the KubernetesServices of a namespace and create them      *)
(* again under the same names, and the garbage collector removes what no   *)
(* present service owns.  A service's incarnation (UID) is the number of   *)
(* its creation.                                                           *)
(***************************************************************************)
EXTENDS Naturals, Sequences, VersionStream

CONSTANTS
    Name,                \* names of KubernetesServices in the namespace
    NoName,
    Kinds,               \* the kinds of disruption that happen
    MaxDisruptions       \* bound: disruptions in a behaviour

DisruptionKind == {"create", "delete", "child", "call", "restart"}

ASSUME OwnershipAssumption ==
    NoName \notin Name /\ Kinds \subseteq DisruptionKind /\ MaxDisruptions \in Nat

VARIABLES
    services,            \* versions of each service
    child,               \* versions of the object
    queue,               \* names of services that are due
    pass,                \* the running pass: its copy of the service
    budget               \* disruptions left

vars == <<services, child, queue, pass, budget>>

-----------------------------------------------------------------------------
(* Owner references, all of the group and kind of KubernetesService.  An object
   has a set of them: their order is of no account. *)

Reference == [name : Name, uid : Nat]

(* Mutant: references of another incarnation are other references. *)
referEqual(r, ref) == r = ref

referSameObject(r, ref) == r.name = ref.name

References(refs, ref) == {r \in refs : referSameObject(r, ref)}

(* The one that is found first, if there are several. *)
indexOwnerRef(refs, ref) == CHOOSE r \in refs : referSameObject(r, ref)

ensureOwnerRef(refs, ref) ==
    IF References(refs, ref) = {}
    THEN refs \cup {ref}
    ELSE (refs \ {indexOwnerRef(refs, ref)}) \cup {ref}

ServiceVersion == [exists : BOOLEAN, uid : Nat]

ChildVersion == [exists : BOOLEAN, owners : SUBSET Reference]

NoChild == [exists |-> FALSE, owners |-> {}]

Live(n) == Current(services[n]).exists

Present(ref) == Live(ref.name) /\ Current(services[ref.name]).uid = ref.uid

Owned == Current(child).exists

Ref(n) == [name |-> n, uid |-> Current(services[n]).uid]

Owns(n) == Live(n) /\ Owned /\ Ref(n) \in Current(child).owners

-----------------------------------------------------------------------------
(* The operator. *)

NoPass == [name |-> NoName, uid |-> 0]

Idle == pass = NoPass

Disturb(kind) == kind \in Kinds /\ budget > 0 /\ budget' = budget - 1

Init ==
    /\ services = [n \in Name |-> <<[exists |-> FALSE, uid |-> 0]>>]
    /\ child = <<NoChild>>
    /\ queue = {}
    /\ pass = NoPass
    /\ budget = MaxDisruptions

(* The pass fetches its service from the cache, and is over if it is not there. *)
Start(n) ==
    /\ Idle
    /\ n \in queue
    /\ queue' = queue \ {n}
    /\ pass' = IF Cached(services[n]).exists
               THEN [name |-> n, uid |-> Cached(services[n]).uid]
               ELSE NoPass
    /\ UNCHANGED <<services, child, budget>>

OwnRef == [name |-> pass.name, uid |-> pass.uid]

Wanted ==
    [exists |-> TRUE, owners |-> ensureOwnerRef(Cached(child).owners, OwnRef)]

(* Mutant: an update carries no resource version. *)
AcceptedBlindly == Cached(child).exists => Owned

(* A create is refused if the object is there, an update if the cached copy is
   not current; an object that is as wanted is not sent. *)
Accepted ==
    IF Cached(child).exists
    THEN Cached(child) = Wanted \/ Synced(child)
    ELSE ~Owned

Apply == child' = IF Cached(child) = Wanted THEN child ELSE Store(child, Wanted)

(* Mutant: what is queued again is read after the pass was forgotten. *)
RetryForgotten == queue' = queue \cup {pass'.name}

Retry == queue' = queue \cup {pass.name}

CreateOrUpdate ==
    /\ ~Idle
    /\ Accepted
    /\ Apply
    /\ pass' = NoPass
    /\ UNCHANGED <<services, queue, budget>>

(* Refused, failed without effect, or done with its answer lost. *)
CreateOrUpdateFails ==
    /\ ~Idle
    /\ \/ ~Accepted /\ UNCHANGED <<child, budget>>
       \/ Disturb("call") /\ UNCHANGED child
       \/ Disturb("call") /\ Accepted /\ Apply
    /\ pass' = NoPass
    /\ Retry
    /\ UNCHANGED services

DeliverService(n) ==
    /\ ~Synced(services[n])
    /\ services' = [services EXCEPT ![n] = Tail(@)]
    /\ queue' = queue \cup {n}
    /\ UNCHANGED <<child, pass, budget>>

(* Mutant: only owners that are left are queued. *)
EnqueuesNewOwners == {r.name : r \in child[2].owners}

(* EnqueueRequestForOwner looks at the object before and after the event. *)
EnqueuedOwners == {r.name : r \in child[1].owners \cup child[2].owners}

DeliverChild ==
    /\ ~Synced(child)
    /\ child' = Tail(child)
    /\ queue' = queue \cup EnqueuedOwners
    /\ UNCHANGED <<services, pass, budget>>

(* The informers list what is there: the service and the owners of what they find
   are queued. *)
Restart ==
    /\ Disturb("restart")
    /\ services' = [n \in Name |-> Relisted(services[n])]
    /\ child' = Relisted(child)
    /\ queue' = {n \in Name : Live(n)} \cup {r.name : r \in Current(child).owners}
    /\ pass' = NoPass

-----------------------------------------------------------------------------
(* Users and the garbage collector. *)

UserCreates(n) ==
    /\ Disturb("create")
    /\ ~Live(n)
    /\ services' = [services EXCEPT ![n] =
                       Append(@, [exists |-> TRUE, uid |-> Current(@).uid + 1])]
    /\ UNCHANGED <<child, queue, pass>>

UserDeletes(n) ==
    /\ Disturb("delete")
    /\ Live(n)
    /\ services' = [services EXCEPT ![n] =
                       Append(@, [Current(@) EXCEPT !.exists = FALSE])]
    /\ UNCHANGED <<child, queue, pass>>

(* By a user, or by the operator when an EtcdCluster failed. *)
ChildDeleted ==
    /\ Disturb("child")
    /\ Owned
    /\ child' = Append(child, NoChild)
    /\ UNCHANGED <<services, queue, pass>>

(* None of the owners is present. *)
Collect ==
    /\ Owned
    /\ \A r \in Current(child).owners : ~Present(r)
    /\ child' = Append(child, NoChild)
    /\ UNCHANGED <<services, queue, pass, budget>>

Pruned == [exists |-> TRUE, owners |-> {r \in Current(child).owners : Present(r)}]

(* Some are: the references to the others are removed. *)
Prune ==
    /\ Owned
    /\ \E r, q \in Current(child).owners : Present(r) /\ ~Present(q)
    /\ child' = Append(child, Pruned)
    /\ UNCHANGED <<services, queue, pass, budget>>

-----------------------------------------------------------------------------
Operator == (\E n \in Name : Start(n)) \/ CreateOrUpdate \/ CreateOrUpdateFails

Next ==
    \/ Operator
    \/ \E n \in Name : DeliverService(n)
    \/ DeliverChild
    \/ Restart
    \/ \E n \in Name : UserCreates(n) \/ UserDeletes(n)
    \/ ChildDeleted
    \/ Collect
    \/ Prune

SafetySpec == Init /\ [][Next]_vars

(* The worker runs, serving the queue in turn, events arrive and the garbage
   collector works. *)
Fairness ==
    /\ \A n \in Name : SF_vars(Start(n))
    /\ WF_vars(CreateOrUpdate \/ CreateOrUpdateFails)
    /\ \A n \in Name : WF_vars(DeliverService(n))
    /\ WF_vars(DeliverChild)
    /\ WF_vars(Collect \/ Prune)

Spec == SafetySpec /\ Fairness

-----------------------------------------------------------------------------
(* Properties. *)

TypeOK ==
    /\ services \in [Name -> Seq(ServiceVersion)]
    /\ \A n \in Name : services[n] # <<>>
    /\ child \in Seq(ChildVersion) /\ child # <<>>
    /\ queue \subseteq Name
    /\ pass \in Reference \cup {NoPass}
    /\ budget \in Nat

(* The object never has two references to a service of one name, although
   references outlive the incarnation they were made for and every pass writes
   one from its own copy (reconciler.go:549-581). *)
OneReferencePerName ==
    \A v \in Versions(child) : \A r, q \in v.owners : r.name = q.name => r = q

(* The object of a service that is there stays its own: an older incarnation's
   pass, a stale copy of either object or another service's pass never takes the
   reference away again, so that the garbage collector leaves it alone
   (reconciler.go:536-556). *)
OwnershipLasts ==
    [][\A n \in Name : Owns(n) /\ Live(n)' /\ ~ChildDeleted => Owns(n)']_vars

(* Nothing is due and no event is on its way. *)
AtRest == Idle /\ queue = {} /\ Synced(child) /\ \A n \in Name : Synced(services[n])

(* No service is forgotten: whenever the operator is at rest, each service that is
   there owns the watched object.  Nothing polls, so whoever takes the object or a
   reference away must queue the service by an event, even if the object that is
   left does not name it any more (reconciler.go:60-67). *)
OwnedAtRest == AtRest => \A n \in Name : Live(n) => Owns(n)

(* Once users leave off, the object is owned by exactly the services that are
   there, in their present incarnation, and is gone if there are none; one that
   waits for the garbage collector is adopted or created again. *)
OwnedByPresent ==
    <>[](/\ Owned <=> \E n \in Name : Live(n)
         /\ Current(child).owners = {Ref(n) : n \in {m \in Name : Live(m)}})
=============================================================================
