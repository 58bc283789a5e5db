-------------------------- MODULE OwnershipProofs --------------------------
(* Theorems about Ownership, for any set of names and any number of
   disruptions. *)
EXTENDS Ownership, VersionStreamProofs, TLAPS

-----------------------------------------------------------------------------
(* Type correctness. *)

LEMMA ServiceFacts ==
    ASSUME TypeOK, NEW n \in Name
    PROVE  /\ services[n] \in Seq(ServiceVersion) /\ services[n] # <<>>
           /\ Cached(services[n]) \in ServiceVersion
           /\ Current(services[n]) \in ServiceVersion
           /\ Cached(services[n]).uid \in Nat /\ Current(services[n]).uid \in Nat
<1>1. services[n] \in Seq(ServiceVersion) /\ services[n] # <<>>
  BY DEF TypeOK
<1>2. Cached(services[n]) \in ServiceVersion /\ Current(services[n]) \in ServiceVersion
  BY <1>1, StreamEnds
<1> QED
  BY <1>1, <1>2 DEF ServiceVersion

LEMMA ChildFacts ==
    ASSUME TypeOK
    PROVE  /\ child \in Seq(ChildVersion) /\ child # <<>>
           /\ Cached(child) \in ChildVersion /\ Current(child) \in ChildVersion
           /\ Cached(child) \in Versions(child) /\ Current(child) \in Versions(child)
           /\ Versions(child) \subseteq ChildVersion
           /\ Synced(child) => Cached(child) = Current(child)
  BY StreamEnds DEF TypeOK

LEMMA EnsuredFacts ==
    ASSUME NEW refs \in SUBSET Reference, NEW ref \in Reference
    PROVE  /\ ensureOwnerRef(refs, ref) \in SUBSET Reference
           /\ ensureOwnerRef(refs, ref) \subseteq refs \cup {ref}
           /\ ref \in ensureOwnerRef(refs, ref)
           /\ \A r \in refs : r.name # ref.name => r \in ensureOwnerRef(refs, ref)
           /\ (\A r, q \in refs : r.name = q.name => r = q) =>
                \A r, q \in ensureOwnerRef(refs, ref) : r.name = q.name => r = q
<1>1. CASE References(refs, ref) = {}
  BY <1>1 DEF ensureOwnerRef, References, referSameObject
<1>2. CASE References(refs, ref) # {}
  <2>1. indexOwnerRef(refs, ref) \in refs /\ indexOwnerRef(refs, ref).name = ref.name
    BY <1>2 DEF References, indexOwnerRef, referSameObject
  <2> QED
    BY <1>2, <2>1 DEF ensureOwnerRef
<1> QED
  BY <1>1, <1>2

(* The versions of the object that a step may add. *)
LEMMA WantedFacts ==
    ASSUME TypeOK, pass # NoPass
    PROVE  /\ OwnRef \in Reference /\ OwnRef = pass
           /\ Wanted \in ChildVersion
           /\ Wanted.owners = ensureOwnerRef(Cached(child).owners, OwnRef)
<1>1. OwnRef \in Reference /\ OwnRef = pass
  BY DEF TypeOK, OwnRef, Reference, NoPass
<1>2. Cached(child).owners \in SUBSET Reference
  BY ChildFacts DEF ChildVersion
<1> QED
  BY <1>1, <1>2, EnsuredFacts DEF Wanted, ChildVersion

LEMMA PrunedFacts ==
    ASSUME TypeOK
    PROVE  /\ NoChild \in ChildVersion
           /\ Pruned \in ChildVersion
  BY ChildFacts DEF NoChild, ChildVersion, Pruned

(* What a step does to the streams of the services. *)
LEMMA ServicesStep ==
    ASSUME TypeOK, NEW n \in Name,
           \/ UNCHANGED services
           \/ services' = [m \in Name |-> Relisted(services[m])]
           \/ \E m \in Name : ~Synced(services[m])
                              /\ services' = [services EXCEPT ![m] = Tail(@)]
           \/ \E m \in Name : UserCreates(m) \/ UserDeletes(m)
    PROVE  \/ services'[n] = services[n]
           \/ services'[n] = Relisted(services[n])
           \/ services'[n] = Tail(services[n]) /\ ~Synced(services[n])
           \/ \E v \in ServiceVersion :
                  /\ services'[n] = Append(services[n], v)
                  /\ v.uid >= Current(services[n]).uid
                  /\ Live(n) => ~v.exists
<1>1. services \in [Name -> Seq(ServiceVersion)]
  BY DEF TypeOK
<1>2. ASSUME NEW m \in Name, UserCreates(m) \/ UserDeletes(m)
      PROVE  \/ services'[n] = services[n]
             \/ \E v \in ServiceVersion :
                  /\ services'[n] = Append(services[n], v)
                  /\ v.uid >= Current(services[n]).uid
                  /\ Live(n) => ~v.exists
  <2>1. CASE m # n
    BY <1>1, <1>2, <2>1 DEF UserCreates, UserDeletes
  <2>2. CASE m = n /\ UserCreates(n)
    <3> DEFINE v == [exists |-> TRUE, uid |-> Current(services[n]).uid + 1]
    <3>1. v \in ServiceVersion /\ v.uid >= Current(services[n]).uid
      BY ServiceFacts DEF ServiceVersion
    <3>2. services'[n] = Append(services[n], v) /\ ~Live(n)
      BY <1>1, <2>2 DEF UserCreates
    <3> QED
      BY <3>1, <3>2
  <2>3. CASE m = n /\ UserDeletes(n)
    <3> DEFINE v == [Current(services[n]) EXCEPT !.exists = FALSE]
    <3>1. v \in ServiceVersion /\ v.uid = Current(services[n]).uid /\ ~v.exists
      BY ServiceFacts DEF ServiceVersion
    <3>2. services'[n] = Append(services[n], v)
      BY <1>1, <2>3 DEF UserDeletes
    <3>3. v.uid >= Current(services[n]).uid
      BY <3>1, ServiceFacts
    <3> QED
      BY <3>1, <3>2, <3>3
  <2> QED
    BY <1>2, <2>1, <2>2, <2>3
<1> QED
  BY <1>1, <1>2

(* Every step treats the services in one of these ways. *)
LEMMA ServicesCases ==
    ASSUME [Next]_vars
    PROVE  \/ UNCHANGED services
           \/ services' = [m \in Name |-> Relisted(services[m])]
           \/ \E m \in Name : ~Synced(services[m])
                              /\ services' = [services EXCEPT ![m] = Tail(@)]
           \/ \E m \in Name : UserCreates(m) \/ UserDeletes(m)
  BY DEF Next, Operator, Start, CreateOrUpdate, CreateOrUpdateFails, DeliverService,
     DeliverChild, Restart, ChildDeleted, Collect, Prune, vars

LEMMA ServicesTyped ==
    ASSUME TypeOK, [Next]_vars
    PROVE  /\ services' \in [Name -> Seq(ServiceVersion)]
           /\ \A n \in Name : services'[n] # <<>>
<1>1. ASSUME NEW n \in Name
      PROVE  services'[n] \in Seq(ServiceVersion) /\ services'[n] # <<>>
  <2>1. services[n] \in Seq(ServiceVersion) /\ services[n] # <<>>
    BY ServiceFacts
  <2>2. /\ Relisted(services[n]) \in Seq(ServiceVersion) /\ Relisted(services[n]) # <<>>
        /\ ~Synced(services[n]) => /\ Tail(services[n]) \in Seq(ServiceVersion)
                                   /\ Tail(services[n]) # <<>>
    BY <2>1, RelistFacts, DeliverFacts
  <2>3. \A v \in ServiceVersion : /\ Append(services[n], v) \in Seq(ServiceVersion)
                                  /\ Append(services[n], v) # <<>>
    BY <2>1, AppendFacts
  <2> QED
    BY <2>1, <2>2, <2>3, ServicesCases, ServicesStep
<1>2. services' = [n \in Name |-> services'[n]]
  BY ServicesCases DEF TypeOK, UserCreates, UserDeletes
<1> QED
  BY <1>1, <1>2

(* What a step does to the stream of the object. *)
LEMMA ChildCases ==
    ASSUME [Next]_vars
    PROVE  \/ UNCHANGED child
           \/ /\ CreateOrUpdate \/ CreateOrUpdateFails
              /\ ~Idle /\ Accepted /\ Cached(child) # Wanted
              /\ child' = Store(child, Wanted)
           \/ DeliverChild
           \/ Restart
           \/ ChildDeleted \/ Collect
           \/ Prune
  BY DEF Next, Operator, Start, CreateOrUpdate, CreateOrUpdateFails, Apply, DeliverService,
     UserCreates, UserDeletes, vars

LEMMA ChildStep ==
    ASSUME TypeOK, [Next]_vars
    PROVE  /\ child' \in Seq(ChildVersion) /\ child' # <<>>
           /\ \/ Versions(child') \subseteq Versions(child)
              \/ /\ ~Idle /\ Accepted
                 /\ pass' = NoPass /\ UNCHANGED services
                 /\ Versions(child') \subseteq Versions(child) \cup {Wanted}
              \/ /\ UNCHANGED <<pass, services>>
                 /\ Versions(child') \subseteq Versions(child) \cup {NoChild}
              \/ /\ UNCHANGED <<pass, services>>
                 /\ Versions(child') \subseteq Versions(child) \cup {Pruned}
<1>1. child \in Seq(ChildVersion) /\ child # <<>>
  BY ChildFacts
<1>2. CASE /\ CreateOrUpdate \/ CreateOrUpdateFails
           /\ ~Idle /\ Accepted /\ child' = Store(child, Wanted)
  <2>1. Wanted \in ChildVersion
    BY <1>2, WantedFacts DEF Idle
  <2>2. pass' = NoPass /\ UNCHANGED services
    BY <1>2 DEF CreateOrUpdate, CreateOrUpdateFails
  <2> QED
    BY <1>1, <1>2, <2>1, <2>2, StoreFacts
<1>3. CASE DeliverChild
  BY <1>1, <1>3, DeliverFacts DEF DeliverChild
<1>4. CASE Restart
  BY <1>1, <1>4, RelistFacts DEF Restart
<1>5. CASE ChildDeleted \/ Collect
  <2>1. child' = Append(child, NoChild) /\ UNCHANGED <<pass, services>>
    BY <1>5 DEF ChildDeleted, Collect
  <2> QED
    BY <1>1, <2>1, PrunedFacts, AppendFacts
<1>6. CASE Prune
  <2>1. child' = Append(child, Pruned) /\ UNCHANGED <<pass, services>>
    BY <1>6 DEF Prune
  <2> QED
    BY <1>1, <2>1, PrunedFacts, AppendFacts
<1> QED
  BY <1>1, <1>2, <1>3, <1>4, <1>5, <1>6, ChildCases

LEMMA PassTyped ==
    ASSUME TypeOK, [Next]_vars
    PROVE  /\ queue' \subseteq Name
           /\ pass' \in Reference \cup {NoPass}
           /\ budget' \in Nat
<1>1. budget' \in Nat
  <2>1. \A kind \in DisruptionKind : Disturb(kind) => budget' \in Nat
    BY DEF TypeOK, Disturb
  <2>2. budget' = budget \/ \E kind \in DisruptionKind : Disturb(kind)
    BY DEF Next, Operator, Start, CreateOrUpdate, CreateOrUpdateFails, DeliverService,
       DeliverChild, Restart, UserCreates, UserDeletes, ChildDeleted, Collect, Prune,
       DisruptionKind, vars
  <2> QED
    BY <2>1, <2>2 DEF TypeOK
<1>2. pass' \in Reference \cup {NoPass}
  <2>1. ASSUME NEW n \in Name, Start(n)
        PROVE  pass' \in Reference \cup {NoPass}
    BY <2>1, ServiceFacts DEF Start, Reference
  <2> QED
    BY <2>1 DEF TypeOK, Next, Operator, CreateOrUpdate, CreateOrUpdateFails, DeliverService,
       DeliverChild, Restart, UserCreates, UserDeletes, ChildDeleted, Collect, Prune, vars
<1>3. queue' \subseteq Name
  <2>1. queue \subseteq Name
    BY DEF TypeOK
  <2>2. \A v \in ChildVersion : \A r \in v.owners : r.name \in Name
    BY DEF ChildVersion, Reference
  <2>3. CASE DeliverChild
    <3>1. child[1] \in ChildVersion /\ child[2] \in ChildVersion
      BY <2>3, ChildFacts, DeliverFacts DEF DeliverChild
    <3> QED
      BY <2>1, <2>2, <2>3, <3>1 DEF DeliverChild, EnqueuedOwners
  <2>4. CASE Restart
    BY <2>2, <2>4, ChildFacts DEF Restart
  <2>5. CASE CreateOrUpdateFails
    BY <2>1, <2>5 DEF CreateOrUpdateFails, Retry, Idle, TypeOK, Reference
  <2> QED
    BY <2>1, <2>3, <2>4, <2>5 DEF Next, Operator, Start, CreateOrUpdate, DeliverService,
       UserCreates, UserDeletes, ChildDeleted, Collect, Prune, vars
<1> QED
  BY <1>1, <1>2, <1>3

(* The state keeps its types. *)
THEOREM TypeCorrect == SafetySpec => []TypeOK
<1>1. Init => TypeOK
  <2> SUFFICES ASSUME Init PROVE TypeOK
    OBVIOUS
  <2>1. [exists |-> FALSE, uid |-> 0] \in ServiceVersion /\ NoChild \in ChildVersion
    BY DEF ServiceVersion, ChildVersion, NoChild
  <2> QED
    BY <2>1, OwnershipAssumption DEF Init, TypeOK
<1>2. TypeOK /\ [Next]_vars => TypeOK'
  BY ServicesTyped, ChildStep, PassTyped DEF TypeOK
<1> QED
  BY <1>1, <1>2, PTL DEF SafetySpec

-----------------------------------------------------------------------------
(* One reference per name. *)

(* However often services are deleted and created again, and whichever copies a
   pass works on, the object has one reference to a service of each name. *)
THEOREM OneReferenceAlways == SafetySpec => []OneReferencePerName
<1>1. Init => OneReferencePerName
  BY DEF Init, OneReferencePerName, Versions, NoChild
<1>2. TypeOK /\ OneReferencePerName /\ [Next]_vars => OneReferencePerName'
  <2> SUFFICES ASSUME TypeOK, OneReferencePerName, [Next]_vars
               PROVE  OneReferencePerName'
    OBVIOUS
  <2>1. \A r, q \in Cached(child).owners : r.name = q.name => r = q
    BY ChildFacts DEF OneReferencePerName
  <2>2. \A r, q \in Current(child).owners : r.name = q.name => r = q
    BY ChildFacts DEF OneReferencePerName
  <2>3. ~Idle => \A r, q \in Wanted.owners : r.name = q.name => r = q
    <3>1. Cached(child).owners \in SUBSET Reference
      BY ChildFacts DEF ChildVersion
    <3> QED
      BY <2>1, <3>1, WantedFacts, EnsuredFacts DEF Idle
  <2> QED
    BY <2>2, <2>3, ChildStep DEF OneReferencePerName, NoChild, Pruned
<1> QED
  BY <1>1, <1>2, TypeCorrect, PTL DEF SafetySpec

-----------------------------------------------------------------------------
(* Ownership lasts.  No reference is newer than the cached service of its name,
   nor, during a pass for that service, newer than the pass's own copy. *)

Ages ==
    \A n \in Name : \A i, j \in 1 .. Len(services[n]) :
        i <= j => services[n][i].uid <= services[n][j].uid

PassIsCached ==
    pass # NoPass => pass.uid <= Cached(services[pass.name]).uid

NoNewerReference ==
    \A v \in Versions(child) : \A r \in v.owners :
        /\ r.uid <= Cached(services[r.name]).uid
        /\ pass.name = r.name => r.uid <= pass.uid

AgesInv == Ages /\ PassIsCached /\ NoNewerReference

LEMMA CachedOldest ==
    ASSUME TypeOK, Ages, NEW n \in Name
    PROVE  Cached(services[n]).uid <= Current(services[n]).uid
<1>1. Len(services[n]) \in Nat /\ Len(services[n]) > 0
  BY ServiceFacts, StreamEnds
<1> QED
  BY <1>1 DEF Ages, Cached, Current

LEMMA AgesStep ==
    ASSUME TypeOK, Ages, [Next]_vars
    PROVE  /\ Ages'
           /\ \A n \in Name : Cached(services[n]).uid <= Cached(services'[n]).uid
<1> SUFFICES ASSUME NEW n \in Name
             PROVE  /\ \A i, j \in 1 .. Len(services'[n]) :
                           i <= j => services'[n][i].uid <= services'[n][j].uid
                    /\ Cached(services[n]).uid <= Cached(services'[n]).uid
  BY DEF Ages
<1> DEFINE s == services[n]
<1>1. /\ s \in Seq(ServiceVersion) /\ s # <<>> /\ Len(s) \in Nat /\ Len(s) > 0
      /\ \A i \in 1 .. Len(s) : s[i] \in ServiceVersion /\ s[i].uid \in Nat
  <2>1. s \in Seq(ServiceVersion) /\ s # <<>>
    BY ServiceFacts
  <2>2. \A v \in ServiceVersion : v.uid \in Nat
    BY DEF ServiceVersion
  <2> QED
    BY <2>1, <2>2, StreamEnds
<1>2. \A i, j \in 1 .. Len(s) : i <= j => s[i].uid <= s[j].uid
  BY DEF Ages
<1>3. CASE services'[n] = s
  BY <1>1, <1>2, <1>3 DEF Cached
<1>4. CASE services'[n] = Relisted(s)
  <2>1. Relisted(s) = <<s[Len(s)]>> /\ Cached(Relisted(s)) = s[Len(s)]
    BY DEF Relisted, Current, Cached
  <2> QED
    BY <1>1, <1>2, <1>4, <2>1 DEF Cached
<1>5. CASE services'[n] = Tail(s) /\ ~Synced(s)
  <2>1. /\ Len(s) > 1 /\ Len(Tail(s)) = Len(s) - 1
        /\ \A i \in 1 .. Len(s) - 1 : Tail(s)[i] = s[i + 1]
    BY <1>1, <1>5, DeliverFacts
  <2>2. \A i, j \in 1 .. Len(s) - 1 : i <= j => Tail(s)[i].uid <= Tail(s)[j].uid
    BY <1>1, <1>2, <2>1
  <2>3. s[1].uid <= Tail(s)[1].uid
    BY <1>1, <1>2, <2>1
  <2>4. Len(services'[n]) = Len(s) - 1
    BY <1>5, <2>1
  <2> QED
    BY <1>5, <2>2, <2>3, <2>4 DEF Cached
<1>6. ASSUME NEW v \in ServiceVersion, services'[n] = Append(s, v),
             v.uid >= Current(s).uid
      PROVE  /\ \A i, j \in 1 .. Len(services'[n]) :
                    i <= j => services'[n][i].uid <= services'[n][j].uid
             /\ Cached(s).uid <= Cached(services'[n]).uid
  <2>1. /\ Len(Append(s, v)) = Len(s) + 1 /\ Append(s, v)[Len(s) + 1] = v
        /\ \A i \in 1 .. Len(s) : Append(s, v)[i] = s[i]
    BY <1>1, AppendFacts
  <2>2. v.uid \in Nat /\ \A i \in 1 .. Len(s) : s[i].uid <= v.uid
    <3>1. v.uid \in Nat
      BY <1>6 DEF ServiceVersion
    <3>2. s[Len(s)].uid <= v.uid
      BY <1>6, Zenon DEF Current
    <3>3. ASSUME NEW i \in 1 .. Len(s)
          PROVE  s[i].uid <= v.uid
      <4>1. Len(s) \in 1 .. Len(s) /\ i <= Len(s)
        BY <1>1
      <4>2. s[i].uid <= s[Len(s)].uid
        BY <1>2, <4>1
      <4>3. s[i].uid \in Nat /\ s[Len(s)].uid \in Nat
        BY <1>1, <4>1
      <4> QED
        BY <3>1, <3>2, <4>2, <4>3
    <3> QED
      BY <3>1, <3>3
  <2>3. ASSUME NEW i \in 1 .. Len(s) + 1, NEW j \in 1 .. Len(s) + 1, i <= j
        PROVE  Append(s, v)[i].uid <= Append(s, v)[j].uid
    <3>1. CASE j = Len(s) + 1 /\ i = j
      BY <2>1, <2>2, <3>1
    <3>2. CASE j = Len(s) + 1 /\ i # j
      <4>1. i \in 1 .. Len(s)
        BY <1>1, <3>2
      <4> QED
        BY <2>1, <2>2, <3>2, <4>1
    <3>3. CASE j # Len(s) + 1
      <4>1. i \in 1 .. Len(s) /\ j \in 1 .. Len(s)
        BY <1>1, <2>3, <3>3
      <4> QED
        BY <1>2, <2>1, <2>3, <4>1
    <3> QED
      BY <3>1, <3>2, <3>3
  <2> QED
    BY <1>1, <1>2, <1>6, <2>1, <2>3 DEF Cached
<1> QED
  BY <1>3, <1>4, <1>5, <1>6, ServicesCases, ServicesStep

LEMMA AgesInvStep ==
    ASSUME TypeOK, AgesInv, [Next]_vars
    PROVE  AgesInv'
<1>1. Ages' /\ \A n \in Name : Cached(services[n]).uid <= Cached(services'[n]).uid
  BY AgesStep DEF AgesInv
<1>2. \A n \in Name : /\ Cached(services[n]).uid \in Nat
                      /\ Cached(services'[n]).uid \in Nat
  <2>1. ASSUME NEW n \in Name
        PROVE  Cached(services[n]).uid \in Nat /\ Cached(services'[n]).uid \in Nat
    <3>1. services'[n] \in Seq(ServiceVersion) /\ services'[n] # <<>>
      BY ServicesTyped
    <3>2. Cached(services'[n]) \in ServiceVersion
      BY <3>1, StreamEnds
    <3> QED
      BY <3>2, ServiceFacts DEF ServiceVersion
  <2> QED
    BY <2>1
<1>3. /\ pass # NoPass => pass.name \in Name /\ pass.uid \in Nat
      /\ NoPass.name \notin Name
      /\ pass.name \in Name => pass # NoPass
  BY OwnershipAssumption DEF TypeOK, Reference, NoPass
<1>4. \A v \in Versions(child) : \A r \in v.owners : r.name \in Name /\ r.uid \in Nat
  BY ChildFacts DEF ChildVersion, Reference
<1>5. pass' \in {pass, NoPass} \/ \E n \in Name : Start(n)
  BY DEF Next, Operator, CreateOrUpdate, CreateOrUpdateFails, DeliverService,
     DeliverChild, Restart, UserCreates, UserDeletes, ChildDeleted, Collect, Prune, vars
<1>6. ASSUME NEW n \in Name, Start(n)
      PROVE  PassIsCached' /\ NoNewerReference'
  <2>1. /\ UNCHANGED <<services, child>>
        /\ pass' # NoPass => pass' = [name |-> n, uid |-> Cached(services[n]).uid]
    BY <1>6 DEF Start
  <2>2. PassIsCached'
    BY <1>2, <2>1 DEF PassIsCached
  <2>3. ASSUME NEW v \in Versions(child), NEW r \in v.owners
        PROVE  /\ r.uid <= Cached(services[r.name]).uid
               /\ pass'.name = r.name => r.uid <= pass'.uid
    <3>1. r.uid <= Cached(services[r.name]).uid
      BY DEF AgesInv, NoNewerReference
    <3> QED
      BY <1>3, <1>4, <2>1, <3>1
  <2> QED
    BY <2>1, <2>2, <2>3 DEF NoNewerReference
<1>7. CASE pass' \in {pass, NoPass}
  <2>1. PassIsCached'
    <3> SUFFICES ASSUME pass' = pass, pass # NoPass
                 PROVE  pass.uid <= Cached(services'[pass.name]).uid
      BY <1>7 DEF PassIsCached
    <3>1. pass.uid <= Cached(services[pass.name]).uid
      BY DEF AgesInv, PassIsCached
    <3> QED
      BY <1>1, <1>2, <1>3, <3>1
  <2>2. ASSUME NEW v \in Versions(child), NEW r \in v.owners
        PROVE  /\ r.uid <= Cached(services'[r.name]).uid
               /\ pass'.name = r.name => r.uid <= pass'.uid
    <3>1. r.uid <= Cached(services[r.name]).uid /\ (pass.name = r.name => r.uid <= pass.uid)
      BY DEF AgesInv, NoNewerReference
    <3>2. r.name \in Name /\ r.uid \in Nat
      BY <1>4
    <3> QED
      BY <1>1, <1>2, <1>3, <1>7, <3>1, <3>2
  <2>3. \A v \in Versions(child') : \A r \in v.owners :
           \/ \E w \in Versions(child) : r \in w.owners
           \/ ~Idle /\ r = pass /\ pass' = NoPass /\ UNCHANGED services
    <3>1. Current(child) \in Versions(child) /\ Cached(child) \in Versions(child)
      BY ChildFacts
    <3>2. \A r \in NoChild.owners : FALSE
      BY DEF NoChild
    <3>3. \A r \in Pruned.owners : r \in Current(child).owners
      BY DEF Pruned
    <3>4. ~Idle => \A r \in Wanted.owners : r \in Cached(child).owners \/ r = pass
      <4>1. Cached(child).owners \in SUBSET Reference
        BY ChildFacts DEF ChildVersion
      <4> QED
        BY <4>1, WantedFacts, EnsuredFacts DEF Idle
    <3> QED
      BY <3>1, <3>2, <3>3, <3>4, ChildStep
  <2>4. NoNewerReference'
    <3> SUFFICES ASSUME NEW v \in Versions(child'), NEW r \in v.owners
                 PROVE  /\ r.uid <= Cached(services'[r.name]).uid
                        /\ pass'.name = r.name => r.uid <= pass'.uid
      BY DEF NoNewerReference
    <3>1. CASE \E w \in Versions(child) : r \in w.owners
      BY <2>2, <3>1
    <3>2. CASE ~Idle /\ r = pass /\ pass' = NoPass /\ UNCHANGED services
      <4>1. r.name \in Name /\ r.uid <= Cached(services[r.name]).uid
        BY <1>3, <3>2 DEF AgesInv, PassIsCached, Idle
      <4> QED
        BY <1>3, <3>2, <4>1
    <3> QED
      BY <2>3, <3>1, <3>2
  <2> QED
    BY <1>1, <2>1, <2>4 DEF AgesInv
<1> QED
  BY <1>1, <1>5, <1>6, <1>7 DEF AgesInv

LEMMA AgesInvInit == Init => AgesInv
<1> SUFFICES ASSUME Init PROVE AgesInv
  OBVIOUS
<1>1. Ages
  BY DEF Init, Ages
<1>2. PassIsCached /\ NoNewerReference
  BY DEF Init, PassIsCached, NoNewerReference, Versions, NoChild
<1> QED
  BY <1>1, <1>2 DEF AgesInv

(* A service that stays keeps its incarnation. *)
LEMMA RefLasts ==
    ASSUME TypeOK, [Next]_vars, NEW n \in Name, Live(n), Live(n)'
    PROVE  Ref(n)' = Ref(n)
<1>1. services[n] \in Seq(ServiceVersion) /\ services[n] # <<>>
  BY ServiceFacts
<1>2. Current(services'[n]).exists
  BY DEF Live
<1>3. \/ services'[n] = services[n]
      \/ services'[n] = Relisted(services[n])
      \/ services'[n] = Tail(services[n]) /\ ~Synced(services[n])
      \/ \E v \in ServiceVersion : services'[n] = Append(services[n], v) /\ ~v.exists
  BY ServicesCases, ServicesStep
<1>4. /\ Current(Relisted(services[n])) = Current(services[n])
      /\ ~Synced(services[n]) => Current(Tail(services[n])) = Current(services[n])
      /\ \A v \in ServiceVersion : Current(Append(services[n], v)) = v
  BY <1>1, AppendFacts, RelistFacts, DeliverFacts
<1>5. Current(services'[n]) = Current(services[n])
  BY <1>2, <1>3, <1>4
<1> QED
  BY <1>5 DEF Ref

LEMMA OwnershipStep ==
    ASSUME TypeOK, AgesInv, [Next]_vars, NEW n \in Name,
           Owns(n), Live(n)', ~ChildDeleted
    PROVE  Owns(n)'
<1>1. /\ Current(child).exists /\ Ref(n) \in Current(child).owners /\ Live(n)
      /\ Ref(n) = [name |-> n, uid |-> Current(services[n]).uid]
  BY DEF Owns, Owned, Ref
<1>2. Ref(n)' = Ref(n)
  BY <1>1, RefLasts
<1>3. child \in Seq(ChildVersion) /\ child # <<>>
  BY ChildFacts
<1>4. Current(child').exists /\ Ref(n) \in Current(child').owners
  <2>1. CASE UNCHANGED child
    BY <1>1, <2>1
  <2>2. CASE ~Idle /\ Accepted /\ Cached(child) # Wanted /\ child' = Store(child, Wanted)
    <3>1. Current(child') = Wanted /\ Wanted.exists
      BY <1>3, <2>2, WantedFacts, StoreFacts DEF Idle, Wanted
    <3>2. Cached(child) = Current(child)
      BY <1>1, <2>2, ChildFacts DEF Accepted, Owned
    <3>3. /\ Wanted.owners = ensureOwnerRef(Current(child).owners, OwnRef)
          /\ OwnRef = pass /\ OwnRef \in Reference
          /\ Current(child).owners \in SUBSET Reference
      BY <2>2, <3>2, WantedFacts, ChildFacts DEF Idle, ChildVersion
    <3>4. CASE n # pass.name
      BY <1>1, <3>1, <3>3, <3>4, EnsuredFacts
    <3>5. CASE n = pass.name
      <4>1. Current(services[n]).uid <= pass.uid
        BY <1>1, <3>5, ChildFacts DEF AgesInv, NoNewerReference
      <4>2. pass.uid <= Cached(services[n]).uid
        BY <2>2, <3>5 DEF AgesInv, PassIsCached, Idle
      <4>3. Cached(services[n]).uid <= Current(services[n]).uid
        BY CachedOldest DEF AgesInv
      <4>4. pass.uid = Current(services[n]).uid
        BY <3>3, <4>1, <4>2, <4>3, ServiceFacts DEF Reference
      <4>5. OwnRef = Ref(n)
        BY <3>3, <3>5, <4>4 DEF OwnRef, Ref
      <4> QED
        BY <3>1, <3>3, <4>5, EnsuredFacts
    <3> QED
      BY <3>4, <3>5
  <2>3. CASE DeliverChild
    BY <1>1, <1>3, <2>3, DeliverFacts DEF DeliverChild
  <2>4. CASE Restart
    BY <1>1, <1>3, <2>4, RelistFacts DEF Restart
  <2>5. CASE Collect
    BY <1>1, <2>5 DEF Collect, Present
  <2>6. CASE Prune
    <3>1. Current(child') = Pruned
      BY <1>3, <2>6, PrunedFacts, AppendFacts DEF Prune
    <3>2. Present(Ref(n))
      BY <1>1 DEF Present
    <3> QED
      BY <1>1, <3>1, <3>2 DEF Pruned
  <2> QED
    BY <2>1, <2>2, <2>3, <2>4, <2>5, <2>6, ChildCases
<1> QED
  BY <1>2, <1>4 DEF Owns, Owned

(* As long as a service is there, nothing but a deletion of the object takes the
   object from it. *)
THEOREM OwnershipAlwaysLasts == SafetySpec => OwnershipLasts
<1>1. AgesInv /\ TypeOK /\ [Next]_vars => AgesInv'
  BY AgesInvStep
<1>2. AgesInv /\ TypeOK /\ [Next]_vars =>
          [\A n \in Name : Owns(n) /\ Live(n)' /\ ~ChildDeleted => Owns(n)']_vars
  BY OwnershipStep
<1> QED
  BY <1>1, <1>2, AgesInvInit, TypeCorrect, PTL DEF SafetySpec, OwnershipLasts

-----------------------------------------------------------------------------
(* No service is forgotten.  One that is there is queued, has an event of its own
   on its way, is served by a pass that knows its incarnation, owns the object, or
   is named by a version of the object that the operator has yet to see replaced,
   so that the event of the replacement will queue it. *)

Named(n) == \E i \in 1 .. Len(child) - 1 : \E r \in child[i].owners : r.name = n

WillOwn(n) ==
    \/ n \in queue
    \/ ~Synced(services[n])
    \/ pass = Ref(n)
    \/ Owns(n)
    \/ Named(n)

NoneForgotten == \A n \in Name : Live(n) => WillOwn(n)

(* A new version of the object leaves the one that it replaces to be seen. *)
LEMMA ReplacedIsSeen ==
    ASSUME TypeOK, NEW n \in Name, NEW v \in ChildVersion, child' = Append(child, v),
           \/ Named(n)
           \/ \E r \in Current(child).owners : r.name = n
    PROVE  Named(n)'
<1>1. /\ Len(child) \in Nat /\ Len(child) > 0
      /\ Len(child') = Len(child) + 1
      /\ \A i \in 1 .. Len(child) : child'[i] = child[i]
  BY ChildFacts, StreamEnds, AppendFacts
<1>2. \E i \in 1 .. Len(child) : \E r \in child[i].owners : r.name = n
  <2>1. Len(child) \in 1 .. Len(child) /\ 1 .. Len(child) - 1 \subseteq 1 .. Len(child)
    BY <1>1
  <2> QED
    BY <2>1 DEF Named, Current
<1>3. 1 .. Len(child') - 1 = 1 .. Len(child)
  BY <1>1
<1> QED
  BY <1>1, <1>2, <1>3 DEF Named

(* What the object's versions promise a service is kept or redeemed. *)
LEMMA NamedStep ==
    ASSUME TypeOK, [Next]_vars, NEW n \in Name, Live(n), Live(n)',
           Named(n) \/ Owns(n)
    PROVE  n \in queue' \/ Named(n)' \/ Owns(n)'
<1>1. child \in Seq(ChildVersion) /\ child # <<>>
  BY ChildFacts
<1>2. Ref(n)' = Ref(n) /\ Ref(n).name = n
  BY RefLasts DEF Ref
<1>3. Owns(n) => \E r \in Current(child).owners : r.name = n
  BY <1>2 DEF Owns
<1>4. Owns(n) /\ Current(child') = Current(child) => Owns(n)'
  BY <1>2 DEF Owns, Owned
<1>5. CASE UNCHANGED child
  BY <1>4, <1>5 DEF Named
<1>6. ASSUME NEW v \in ChildVersion, child' = Append(child, v)
      PROVE  Named(n)'
  BY <1>3, <1>6, ReplacedIsSeen
<1>7. CASE ~Idle /\ child' = Store(child, Wanted)
  <2>1. Wanted \in ChildVersion
    BY <1>7, WantedFacts DEF Idle
  <2> QED
    BY <1>5, <1>6, <1>7, <2>1 DEF Store
<1>8. CASE DeliverChild
  <2>1. /\ Current(Tail(child)) = Current(child)
        /\ Len(child) \in Nat /\ Len(child) > 1
        /\ Len(Tail(child)) = Len(child) - 1
        /\ \A i \in 1 .. Len(child) - 1 : Tail(child)[i] = child[i + 1]
    BY <1>1, <1>8, StreamEnds, DeliverFacts DEF DeliverChild
  <2>2. CASE Owns(n)
    BY <1>4, <1>8, <2>1, <2>2 DEF DeliverChild
  <2>3. CASE Named(n)
    <3>1. PICK i \in 1 .. Len(child) - 1 : \E r \in child[i].owners : r.name = n
      BY <2>3 DEF Named
    <3>2. CASE i = 1
      BY <1>8, <3>1, <3>2 DEF DeliverChild, EnqueuedOwners
    <3>3. CASE i # 1
      <4>1. i - 1 \in 1 .. Len(child) - 2 /\ child'[i - 1] = child[i]
        <5>1. i - 1 \in 1 .. Len(child) - 2 /\ i - 1 \in 1 .. Len(child) - 1
          BY <2>1, <3>3
        <5>2. Tail(child)[i - 1] = child[(i - 1) + 1] /\ (i - 1) + 1 = i
          BY <2>1, <5>1
        <5> QED
          BY <1>8, <5>1, <5>2 DEF DeliverChild
      <4>2. Len(child') - 1 = Len(child) - 2
        BY <1>8, <2>1 DEF DeliverChild
      <4> QED
        BY <3>1, <4>1, <4>2 DEF Named
    <3> QED
      BY <3>2, <3>3
  <2> QED
    BY <2>2, <2>3
<1>9. CASE Restart
  BY <1>9 DEF Restart
<1>10. CASE ChildDeleted \/ Collect \/ Prune
  BY <1>6, <1>10, PrunedFacts DEF ChildDeleted, Collect, Prune
<1> QED
  BY <1>5, <1>7, <1>8, <1>9, <1>10, ChildCases

(* A pass that is accepted leaves the reference it was run for. *)
LEMMA PassStep ==
    ASSUME TypeOK, [Next]_vars, NEW n \in Name, Live(n), Live(n)', pass = Ref(n)
    PROVE  n \in queue' \/ pass' = Ref(n)' \/ Named(n)' \/ Owns(n)'
<1>1. child \in Seq(ChildVersion) /\ child # <<>>
  BY ChildFacts
<1>2. Ref(n)' = Ref(n) /\ Ref(n).name = n
  BY RefLasts DEF Ref
<1>3. ~Idle /\ pass # NoPass
  BY <1>2, OwnershipAssumption DEF Idle, NoPass
<1>4. CASE CreateOrUpdate
  <2>1. Wanted \in ChildVersion /\ Wanted.exists /\ Ref(n) \in Wanted.owners
    <3>1. Cached(child).owners \in SUBSET Reference
      BY ChildFacts DEF ChildVersion
    <3> QED
      BY <1>3, <3>1, WantedFacts, EnsuredFacts DEF Wanted
  <2>2. CASE Cached(child) = Wanted
    <3>1. child' = child
      BY <1>4, <2>2 DEF CreateOrUpdate, Apply
    <3>2. CASE Synced(child)
      <4>1. Current(child') = Wanted
        BY <2>2, <3>1, <3>2, ChildFacts
      <4> QED
        BY <1>2, <2>1, <4>1 DEF Owns, Owned
    <3>3. CASE ~Synced(child)
      <4>1. 1 \in 1 .. Len(child) - 1
        <5>1. Len(child) \in Nat /\ Len(child) > 1
          BY <1>1, <3>3, StreamEnds, DeliverFacts
        <5> QED
          BY <5>1
      <4>2. child[1] = Wanted
        BY <2>2 DEF Cached
      <4> QED
        BY <1>2, <2>1, <3>1, <4>1, <4>2 DEF Named
    <3> QED
      BY <3>2, <3>3
  <2>3. CASE Cached(child) # Wanted
    <3>1. Current(child') = Wanted
      BY <1>1, <1>4, <2>1, <2>3, StoreFacts DEF CreateOrUpdate, Apply
    <3> QED
      BY <1>2, <2>1, <3>1 DEF Owns, Owned
  <2> QED
    BY <2>2, <2>3
<1>5. CASE CreateOrUpdateFails
  BY <1>2, <1>5 DEF CreateOrUpdateFails, Retry
<1>6. CASE Restart
  BY <1>6 DEF Restart
<1>7. CASE UNCHANGED pass
  BY <1>2, <1>7
<1> QED
  BY <1>3, <1>4, <1>5, <1>6, <1>7 DEF Next, Operator, Start, DeliverService, DeliverChild,
     UserCreates, UserDeletes, ChildDeleted, Collect, Prune, vars

(* Whatever happens to the object of a service itself becomes an event, and an
   event that arrives, or that a restart makes up for, queues the service. *)
LEMMA EventStep ==
    ASSUME TypeOK, [Next]_vars, NEW n \in Name, Live(n)',
           ~Synced(services[n]) \/ services'[n] # services[n]
    PROVE  n \in queue' \/ ~Synced(services'[n])
<1>1. services[n] \in Seq(ServiceVersion) /\ services[n] # <<>>
  BY ServiceFacts
<1>2. CASE services'[n] = services[n]
  BY <1>2
<1>3. CASE \E v \in ServiceVersion : services'[n] = Append(services[n], v)
  <2>1. Len(services[n]) \in Nat /\ Len(services[n]) > 0
        /\ Len(services'[n]) = Len(services[n]) + 1
    BY <1>1, <1>3, StreamEnds, AppendFacts
  <2> QED
    BY <2>1 DEF Synced
<1>4. CASE Restart
  <2>1. services'[n] = Relisted(services[n])
    BY <1>4 DEF Restart
  <2>2. Live(n)
    BY <1>1, <2>1, RelistFacts DEF Live
  <2> QED
    BY <1>4, <2>2 DEF Restart
<1>5. ASSUME NEW m \in Name, DeliverService(m)
      PROVE  n \in queue' \/ services'[n] = services[n]
  BY <1>5 DEF DeliverService, TypeOK
<1>6. ASSUME NEW m \in Name, UserCreates(m) \/ UserDeletes(m)
      PROVE  \/ services'[n] = services[n]
             \/ \E v \in ServiceVersion : services'[n] = Append(services[n], v)
  <2>1. services \in [Name -> Seq(ServiceVersion)]
    BY DEF TypeOK
  <2>2. Current(services[n]) \in ServiceVersion /\ Current(services[n]).uid + 1 \in Nat
    BY ServiceFacts
  <2>3. /\ [exists |-> TRUE, uid |-> Current(services[n]).uid + 1] \in ServiceVersion
        /\ [Current(services[n]) EXCEPT !.exists = FALSE] \in ServiceVersion
    BY <2>2 DEF ServiceVersion
  <2> QED
    BY <1>6, <2>1, <2>3 DEF UserCreates, UserDeletes
<1> QED
  BY <1>2, <1>3, <1>4, <1>5, <1>6 DEF Next, Operator, Start, CreateOrUpdate,
     CreateOrUpdateFails, DeliverChild, ChildDeleted, Collect, Prune, vars

LEMMA NoneForgottenStep ==
    ASSUME TypeOK, NoneForgotten, [Next]_vars
    PROVE  NoneForgotten'
<1> SUFFICES ASSUME NEW n \in Name, Live(n)'
             PROVE  WillOwn(n)'
  BY DEF NoneForgotten
<1>1. CASE ~Synced(services[n]) \/ services'[n] # services[n]
  BY <1>1, EventStep DEF WillOwn
<1>2. CASE Synced(services[n]) /\ services'[n] = services[n]
  <2>1. Live(n) /\ WillOwn(n)
    BY <1>2 DEF Live, NoneForgotten
  <2>2. CASE n \in queue
    <3>1. CASE Start(n)
      <4>1. Cached(services[n]) = Current(services[n])
        BY <1>2, ServiceFacts, StreamEnds
      <4>2. pass' = Ref(n)'
        BY <1>2, <2>1, <3>1, <4>1 DEF Start, Live, Ref
      <4> QED
        BY <4>2 DEF WillOwn
    <3>2. CASE ~Start(n)
      <4>1. n \in queue'
        BY <2>1, <2>2, <3>2 DEF Next, Operator, Start, CreateOrUpdate, CreateOrUpdateFails,
           Retry, DeliverService, DeliverChild, Restart, UserCreates, UserDeletes,
           ChildDeleted, Collect, Prune, vars
      <4> QED
        BY <4>1 DEF WillOwn
    <3> QED
      BY <3>1, <3>2
  <2>3. CASE pass = Ref(n)
    BY <2>1, <2>3, PassStep DEF WillOwn
  <2>4. CASE Named(n) \/ Owns(n)
    BY <2>1, <2>4, NamedStep DEF WillOwn
  <2> QED
    BY <1>2, <2>1, <2>2, <2>3, <2>4 DEF WillOwn
<1> QED
  BY <1>1, <1>2

(* Whenever the operator is at rest, every service that is there owns the object:
   no order of deletions, collections, refused writes, late events and restarts
   leaves one without it and without a wake-up to come. *)
THEOREM NoServiceForgotten == SafetySpec => []OwnedAtRest
<1>1. Init => NoneForgotten
  BY DEF Init, NoneForgotten, Live, Current
<1>2. TypeOK /\ NoneForgotten /\ [Next]_vars => NoneForgotten'
  BY NoneForgottenStep
<1>3. NoneForgotten => OwnedAtRest
  <2> SUFFICES ASSUME NoneForgotten, AtRest, NEW n \in Name, Live(n)
               PROVE  Owns(n)
    BY DEF OwnedAtRest
  <2>1. pass # Ref(n)
    BY OwnershipAssumption DEF AtRest, Idle, NoPass, Ref
  <2>2. ~Named(n)
    BY DEF AtRest, Synced, Named
  <2> QED
    BY <2>1, <2>2 DEF NoneForgotten, WillOwn, AtRest
<1> QED
  BY <1>1, <1>2, <1>3, TypeCorrect, PTL DEF SafetySpec
=============================================================================
