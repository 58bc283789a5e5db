------------------------ MODULE ReleaseLookupProofs ------------------------
(* Theorems about ReleaseLookup, for any services, workers, images and pods,
   and any number of disruptions. *)
EXTENDS ReleaseLookup, FiniteSetTheorems, TLAPS

-----------------------------------------------------------------------------
(* Type correctness. *)

PassTyped ==
    /\ pass \in [Worker -> PassRecord]
    /\ \A w \in Worker : pass[w].at # "idle" => pass[w].service \in Service
    /\ \A w \in Worker : pass[w].at \in {"poll", "logs", "delete"} => pass[w].pod \in PodName

LEMMA NoneApart == None \notin Content /\ None \notin Worker /\ None \notin Service
                   /\ None \notin PodName
  BY LookupAssumption

LEMMA PassFacts ==
    ASSUME TypeOK, NEW w \in Worker, pass[w].at # "idle"
    PROVE  /\ pass[w] \in PassRecord
           /\ pass[w].service \in Service /\ ImageFor(w) \in Image
           /\ pass[w].result \in Content \cup {None}
           /\ pass[w].at \in {"poll", "logs", "delete"} =>
                 pass[w].pod \in PodName /\ PodOf(w) \in Pod
<1>1. pass[w] \in PassRecord /\ pass[w].service \in Service
  BY DEF TypeOK
<1>2. ImageFor(w) \in Image
  BY <1>1, LookupAssumption DEF ImageFor
<1> QED
  BY <1>1, <1>2 DEF TypeOK, PodOf, PassRecord

LEMMA FreshFacts ==
    ASSUME \E p \in PodName : Unused(p)
    PROVE  FreshName \in PodName /\ Unused(FreshName)
  BY DEF FreshName

(* A pass that goes on, ends or begins. *)
LEMMA PassChanges ==
    ASSUME PassTyped, NEW w \in Worker, NEW r \in PassRecord,
           pass' = [pass EXCEPT ![w] = r],
           r.at # "idle" => r.service \in Service,
           r.at \in {"poll", "logs", "delete"} => r.pod \in PodName
    PROVE  PassTyped'
  BY DEF PassTyped

LEMMA NoPassTyped == NoPass \in PassRecord /\ NoPass.at = "idle"
  BY DEF NoPass, PassRecord, Step

LEMMA WorkerPasses ==
    ASSUME TypeOK, NEW w \in Worker,
           CacheHit(w) \/ CacheMiss(w) \/ Lookup(w)
    PROVE  PassTyped' /\ queue' \subseteq Service
<1>1. PassTyped /\ pass \in [Worker -> PassRecord] /\ queue \subseteq Service
  BY DEF TypeOK, PassTyped
<1>2. pass[w].at # "idle" /\ pass[w] \in PassRecord /\ pass[w].service \in Service
  BY <1>1 DEF CacheHit, CacheMiss, Lookup, CreatePod, CreateFails, PodSucceeded, PollFails,
     ReadLogs, LogsFail, LookupReturns, LookupFails, TypeOK
<1>3. CASE pass' = [pass EXCEPT ![w] = NoPass] /\ queue' \subseteq Service
  BY <1>1, <1>3, NoPassTyped, PassChanges
<1>4. CASE CacheMiss(w)
  <2>1. [pass[w] EXCEPT !.at = "create"] \in PassRecord
    BY <1>2 DEF PassRecord, Step, LookupStep
  <2> QED
    BY <1>1, <1>2, <1>4, <2>1, PassChanges DEF CacheMiss, PassRecord
<1>5. CASE CreatePod(w)
  <2>1. FreshName \in PodName
    BY <1>5, FreshFacts DEF CreatePod
  <2> DEFINE r == [pass[w] EXCEPT !.at = "poll", !.pod = FreshName]
  <2>2. r \in PassRecord /\ r.service = pass[w].service /\ r.pod \in PodName
    BY <1>2, <2>1 DEF PassRecord, Step, LookupStep
  <2>3. pass' = [pass EXCEPT ![w] = r]
    BY <1>1, <1>5 DEF CreatePod
  <2> HIDE DEF r
  <2> QED
    BY <1>1, <1>2, <1>5, <2>2, <2>3, PassChanges DEF CreatePod
<1>6. ASSUME NEW step \in {"logs", "delete"},
             pass[w].at \in {"poll", "logs"},
             pass' = [pass EXCEPT ![w].at = step] \/
                 pass' = [pass EXCEPT ![w].at = step, ![w].result = PodOf(w).log],
             UNCHANGED queue
      PROVE  PassTyped' /\ queue' \subseteq Service
  <2> DEFINE q == [pass[w] EXCEPT !.at = step]
             r == [pass[w] EXCEPT !.at = step, !.result = PodOf(w).log]
  <2>1. PodOf(w).log \in Content \cup {None} /\ pass[w].pod \in PodName
    BY <1>2, <1>6, PassFacts DEF Pod
  <2>2. /\ q \in PassRecord /\ q.service = pass[w].service /\ q.pod = pass[w].pod
        /\ r \in PassRecord /\ r.service = pass[w].service /\ r.pod = pass[w].pod
    BY <1>2, <2>1 DEF PassRecord, Step, LookupStep
  <2>3. pass' = [pass EXCEPT ![w] = q] \/ pass' = [pass EXCEPT ![w] = r]
    BY <1>1, <1>6
  <2> HIDE DEF q, r
  <2> QED
    BY <1>1, <1>2, <1>6, <2>1, <2>2, <2>3, PassChanges
<1>7. CASE PodSucceeded(w) \/ PollFails(w) \/ ReadLogs(w) \/ LogsFail(w)
  <2>1. CASE PodSucceeded(w)
    BY <1>6, <2>1 DEF PodSucceeded
  <2>2. CASE PollFails(w)
    BY <1>6, <2>2 DEF PollFails
  <2>3. CASE ReadLogs(w)
    BY <1>6, <2>3 DEF ReadLogs
  <2>4. CASE LogsFail(w)
    BY <1>6, <2>4 DEF LogsFail
  <2> QED
    BY <1>7, <2>1, <2>2, <2>3, <2>4
<1>8. CASE CacheHit(w) \/ CreateFails(w) \/ LookupReturns(w) \/ LookupFails(w)
  BY <1>1, <1>2, <1>3, <1>8 DEF CacheHit, CreateFails, LookupReturns, LookupFails, GiveUp
<1> QED
  BY <1>4, <1>5, <1>7, <1>8 DEF Lookup

LEMMA PassesTyped ==
    ASSUME TypeOK, [Next]_vars
    PROVE  PassTyped' /\ queue' \subseteq Service
<1>1. PassTyped /\ pass \in [Worker -> PassRecord] /\ queue \subseteq Service
  BY DEF TypeOK, PassTyped
<1>2. ASSUME NEW w \in Worker, NEW s \in Service, Begin(w, s)
      PROVE  PassTyped' /\ queue' \subseteq Service
  <2> DEFINE r == [NoPass EXCEPT !.at = "lock", !.service = s]
  <2>1. r \in PassRecord /\ r.service = s /\ r.at = "lock"
    BY DEF NoPass, PassRecord, Step
  <2>2. pass' = [pass EXCEPT ![w] = r] /\ queue' = queue \ {s}
    BY <1>2 DEF Begin
  <2> HIDE DEF r
  <2> QED
    BY <1>1, <2>1, <2>2, PassChanges
<1>3. CASE Exit
  BY <1>3, NoPassTyped DEF Exit, PassTyped
<1>4. CASE UNCHANGED <<pass, queue>>
  BY <1>1, <1>4 DEF PassTyped
<1>5. CASE \E s \in Service : Enqueue(s)
  BY <1>1, <1>5 DEF Enqueue, PassTyped
<1> QED
  BY <1>2, <1>3, <1>4, <1>5, WorkerPasses DEF Next, PodEnds, PodLost, Retag, Shutdown, vars

LEMMA BudgetTyped ==
    ASSUME TypeOK, [Next]_vars
    PROVE  budget' \in 0 .. MaxDisruptions
<1>1. budget \in 0 .. MaxDisruptions /\ MaxDisruptions \in Nat
  BY LookupAssumption DEF TypeOK
<1>2. \A kind \in DisruptionKind : Disturb(kind) => budget' \in 0 .. MaxDisruptions
  BY <1>1 DEF Disturb
<1>3. budget' = budget \/ \E kind \in DisruptionKind : Disturb(kind)
  BY DEF Next, Enqueue, Begin, CacheHit, CacheMiss, Lookup, CreatePod, CreateFails,
     PodSucceeded, PollFails, ReadLogs, LogsFail, LookupReturns, LookupFails, CleanUp,
     CallFails, PodEnds, PodLost, Retag, Shutdown, Exit, DisruptionKind, vars
<1> QED
  BY <1>1, <1>2, <1>3

(* What happens to the pods: one starts, ends or goes. *)
LEMMA PodChanges ==
    ASSUME TypeOK, [Next]_vars
    PROVE  \/ UNCHANGED pods
           \/ \E w \in Worker : /\ pass[w].at = "create"
                                /\ FreshName \in PodName /\ Unused(FreshName)
                                /\ pods' = [pods EXCEPT ![FreshName] = Started(ImageFor(w))]
           \/ \E p \in PodName : PodEnds(p)
           \/ \E p \in PodName : /\ pods[p].phase = "Pending"
                                 /\ pods' = [pods EXCEPT ![p].phase = "Failed"]
           \/ \E p \in PodName : pods' = [pods EXCEPT ![p] = NoPod]
<1>1. ASSUME NEW w \in Worker, CreatePod(w) \/ CreateFails(w)
      PROVE  \/ UNCHANGED pods
             \/ /\ pass[w].at = "create"
                /\ FreshName \in PodName /\ Unused(FreshName)
                /\ pods' = [pods EXCEPT ![FreshName] = Started(ImageFor(w))]
  BY <1>1, FreshFacts DEF CreatePod, CreateFails
<1>2. ASSUME NEW w \in Worker, LookupReturns(w) \/ LookupFails(w)
      PROVE  UNCHANGED pods \/ \E p \in PodName : pods' = [pods EXCEPT ![p] = NoPod]
  <2>1. pass[w].pod \in PodName
    BY <1>2 DEF LookupReturns, LookupFails, TypeOK
  <2> QED
    BY <1>2, <2>1 DEF LookupReturns, LookupFails, CleanUp, DeletePod
<1>3. ASSUME NEW w \in Worker,
             \/ CacheHit(w) \/ CacheMiss(w) \/ PodSucceeded(w) \/ PollFails(w)
             \/ ReadLogs(w) \/ LogsFail(w)
      PROVE  UNCHANGED pods
  BY <1>3 DEF CacheHit, CacheMiss, PodSucceeded, PollFails, ReadLogs, LogsFail
<1>4. ASSUME NEW p \in PodName, PodLost(p)
      PROVE  \/ /\ pods[p].phase = "Pending"
                /\ pods' = [pods EXCEPT ![p].phase = "Failed"]
             \/ pods' = [pods EXCEPT ![p] = NoPod]
  BY <1>4 DEF PodLost
<1>5. CASE \/ \E s \in Service : Enqueue(s) \/ \E w \in Worker : Begin(w, s)
           \/ \E i \in Image, c \in Content : Retag(i, c)
           \/ Shutdown \/ Exit \/ UNCHANGED vars
  BY <1>5 DEF Enqueue, Begin, Retag, Shutdown, Exit, vars
<1> QED
  BY <1>1, <1>2, <1>3, <1>4, <1>5 DEF Next, Lookup

LEMMA PodsTyped ==
    ASSUME TypeOK, [Next]_vars
    PROVE  pods' \in [PodName -> Pod]
<1>1. pods \in [PodName -> Pod] /\ tagged \in [Image -> Content]
  BY DEF TypeOK
<1>2. NoPod \in Pod
  BY DEF NoPod, Pod
<1>3. \A i \in Image : Started(i) \in Pod
  BY DEF Started, Pod
<1>4. ASSUME NEW p \in PodName, PodEnds(p)
      PROVE  pods' \in [PodName -> Pod]
  <2>1. pods[p] \in Pod
    BY <1>1
  <2> DEFINE c == tagged[pods[p].image]
             q == IF c \in Readable THEN [pods[p] EXCEPT !.phase = "Succeeded", !.log = c]
                  ELSE [pods[p] EXCEPT !.phase = "Failed"]
  <2>2. pods' = [pods EXCEPT ![p] = q]
    BY <1>1, <1>4 DEF PodEnds
  <2>3. c \in Readable => c \in Content
    BY LookupAssumption
  <2>4. q \in Pod
    <3> HIDE DEF c
    <3> QED
      BY <2>1, <2>3 DEF Pod
  <2> HIDE DEF q
  <2> QED
    BY <1>1, <2>2, <2>4
<1>5. ASSUME NEW p \in PodName, pods' = [pods EXCEPT ![p].phase = "Failed"]
      PROVE  pods' \in [PodName -> Pod]
  <2>1. [pods[p] EXCEPT !.phase = "Failed"] \in Pod
    BY <1>1 DEF Pod
  <2> QED
    BY <1>1, <1>5, <2>1
<1>6. \A w \in Worker : pass[w].at = "create" => ImageFor(w) \in Image
  BY PassFacts
<1> QED
  BY <1>1, <1>2, <1>3, <1>4, <1>5, <1>6, PodChanges

LEMMA RestTyped ==
    ASSUME TypeOK, [Next]_vars
    PROVE  /\ tagged' \in [Image -> Content]
           /\ held' \in [Image -> SUBSET Content]
           /\ mutex' \in Worker \cup {None}
           /\ cache' \in [Image -> Content \cup {None}]
           /\ given' \in [Service -> Content \cup {None}]
           /\ stopping' \in BOOLEAN
<1>1. ASSUME NEW w \in Worker, CacheHit(w) \/ CacheMiss(w) \/ Lookup(w)
      PROVE  /\ UNCHANGED <<tagged, held, stopping>>
             /\ mutex' \in Worker \cup {None}
             /\ cache' \in [Image -> Content \cup {None}]
             /\ given' \in [Service -> Content \cup {None}]
  <2>1. UNCHANGED <<tagged, held, stopping>> /\ mutex' \in {mutex, w, None}
    BY <1>1 DEF CacheHit, CacheMiss, Lookup, CreatePod, CreateFails, PodSucceeded, PollFails,
       ReadLogs, LogsFail, LookupReturns, LookupFails, GiveUp
  <2>2. CASE CacheHit(w) \/ LookupReturns(w)
    <3>1. pass[w].at # "idle"
      BY <2>2 DEF CacheHit, LookupReturns
    <3>2. pass[w].result \in Content \cup {None} /\ ImageFor(w) \in Image
      BY <3>1, PassFacts
    <3> QED
      BY <2>1, <2>2, <3>1, <3>2 DEF CacheHit, LookupReturns, Remember, TypeOK
  <2>3. CASE ~CacheHit(w) /\ ~LookupReturns(w)
    <3>1. UNCHANGED <<cache, given>>
      BY <1>1, <2>3 DEF CacheMiss, Lookup, CreatePod, CreateFails, PodSucceeded, PollFails,
         ReadLogs, LogsFail, LookupFails
    <3> QED
      BY <2>1, <3>1 DEF TypeOK
  <2> QED
    BY <2>2, <2>3
<1>2. CASE \E i \in Image, c \in Content : Retag(i, c)
  BY <1>2 DEF Retag, TypeOK
<1>3. CASE Exit
  BY <1>3 DEF Exit, TypeOK
<1>4. CASE Shutdown
  BY <1>4 DEF Shutdown, TypeOK
<1>5. CASE \/ \E s \in Service : Enqueue(s) \/ \E w \in Worker : Begin(w, s)
           \/ \E p \in PodName : PodEnds(p) \/ PodLost(p)
           \/ UNCHANGED vars
  BY <1>5 DEF Enqueue, Begin, PodEnds, PodLost, TypeOK, vars
<1> QED
  BY <1>1, <1>2, <1>3, <1>4, <1>5 DEF Next, TypeOK

(* The state keeps its types. *)
THEOREM TypeCorrect == SafetySpec => []TypeOK
<1>1. Init => TypeOK
  <2> SUFFICES ASSUME Init PROVE TypeOK
    OBVIOUS
  <2>1. NoPod \in Pod
    BY DEF NoPod, Pod
  <2>2. \A w \in Worker : pass[w] = NoPass
    BY DEF Init
  <2>3. budget \in 0 .. MaxDisruptions
    BY LookupAssumption DEF Init
  <2>4. tagged \in [Image -> Content]
    BY LookupAssumption DEF Init
  <2>5. held \in [Image -> SUBSET Content]
    BY <2>4 DEF Init
  <2> QED
    BY <2>1, <2>2, <2>3, <2>4, <2>5, NoPassTyped DEF Init, TypeOK
<1>2. TypeOK /\ [Next]_vars => TypeOK'
  BY PassesTyped, BudgetTyped, PodsTyped, RestTyped DEF TypeOK, PassTyped
<1> QED
  BY <1>1, <1>2, PTL DEF SafetySpec

-----------------------------------------------------------------------------
(* One lookup at a time. *)

(* Who holds the mutex and who starts to look up. *)
LEMMA OneLookupStep ==
    ASSUME TypeOK, OneLookup, [Next]_vars
    PROVE  OneLookup'
<1>1. pass \in [Worker -> PassRecord] /\ cache \in [Image -> Content \cup {None}]
  BY DEF TypeOK
<1>2. "idle" \notin LookupStep /\ "lock" \notin LookupStep /\ NoPass.at = "idle"
  BY DEF LookupStep, NoPass
<1>3. \A w \in Worker : pass[w].at \in LookupStep => mutex = w /\ cache[ImageFor(w)] = None
  BY DEF OneLookup
<1>4. ASSUME NEW w \in Worker, Lookup(w)
      PROVE  OneLookup'
  <2>1. pass[w].at \in LookupStep
    BY <1>4 DEF Lookup, CreatePod, CreateFails, PodSucceeded, PollFails, ReadLogs, LogsFail,
       LookupReturns, LookupFails, LookupStep
  <2>2. \A v \in Worker \ {w} : pass[v].at \notin LookupStep
    BY <1>3, <2>1
  <2>3. \A v \in Worker \ {w} : pass'[v] = pass[v]
    BY <1>1, <1>4 DEF Lookup, CreatePod, CreateFails, PodSucceeded, PollFails, ReadLogs,
       LogsFail, LookupReturns, LookupFails, GiveUp
  <2>4. CASE pass' = [pass EXCEPT ![w] = NoPass]
    BY <1>1, <1>2, <2>2, <2>3, <2>4 DEF OneLookup
  <2>5. CASE CreatePod(w) \/ PodSucceeded(w) \/ PollFails(w) \/ ReadLogs(w) \/ LogsFail(w)
    <3>1. UNCHANGED <<mutex, cache>>
      BY <2>5 DEF CreatePod, PodSucceeded, PollFails, ReadLogs, LogsFail
    <3>2. pass'[w].service = pass[w].service
      BY <1>1, <2>5 DEF CreatePod, PodSucceeded, PollFails, ReadLogs, LogsFail, PassRecord
    <3> QED
      BY <1>3, <2>1, <2>2, <2>3, <3>1, <3>2 DEF OneLookup, ImageFor
  <2> QED
    BY <1>4, <2>4, <2>5 DEF Lookup, CreateFails, LookupReturns, LookupFails, GiveUp
<1>5. ASSUME NEW w \in Worker, CacheMiss(w)
      PROVE  OneLookup'
  <2>1. \A v \in Worker : pass[v].at \notin LookupStep
    BY <1>3, <1>5, NoneApart DEF CacheMiss, LockFree
  <2>2. /\ \A v \in Worker \ {w} : pass'[v] = pass[v]
        /\ pass'[w].service = pass[w].service
        /\ mutex' = w /\ cache' = cache /\ cache[ImageFor(w)] = None
    BY <1>1, <1>5 DEF CacheMiss, PassRecord
  <2> QED
    BY <2>1, <2>2 DEF OneLookup, ImageFor
<1>6. ASSUME NEW w \in Worker, CacheHit(w) \/ \E s \in Service : Begin(w, s)
      PROVE  OneLookup'
  <2>1. /\ \A v \in Worker \ {w} : pass'[v] = pass[v]
        /\ pass'[w].at \in {"idle", "lock"}
        /\ UNCHANGED <<mutex, cache>>
    <3>1. CASE CacheHit(w)
      BY <1>1, <1>2, <3>1 DEF CacheHit
    <3>2. ASSUME NEW s \in Service, Begin(w, s)
          PROVE  /\ \A v \in Worker \ {w} : pass'[v] = pass[v]
                 /\ pass'[w].at = "lock"
                 /\ UNCHANGED <<mutex, cache>>
      BY <1>1, <3>2 DEF Begin, NoPass
    <3> QED
      BY <1>6, <3>1, <3>2
  <2> QED
    BY <1>2, <1>3, <2>1 DEF OneLookup, ImageFor
<1>7. CASE Exit
  BY <1>2, <1>7 DEF Exit, OneLookup
<1>8. CASE UNCHANGED <<pass, mutex, cache>>
  BY <1>3, <1>8 DEF OneLookup, ImageFor
<1> QED
  BY <1>4, <1>5, <1>6, <1>7, <1>8 DEF Next, Enqueue, PodEnds, PodLost, Retag, Shutdown, vars

(* At most one worker looks up an image, and only one that is not known yet. *)
THEOREM OneLookupAlways == SafetySpec => []OneLookup
<1>1. Init => OneLookup
  BY DEF Init, OneLookup, LookupStep, NoPass
<1> QED
  BY <1>1, OneLookupStep, TypeCorrect, PTL DEF SafetySpec

-----------------------------------------------------------------------------
(* The abstract memo.  What a lookup finds is something the registry held for
   its image while this process ran: its pod started in this process, and no
   other lookup takes the pod's name meanwhile. *)

TaggedHeld == \A i \in Image : tagged[i] \in held[i]

PodsOwn ==
    \A w \in Worker : pass[w].at \in {"poll", "logs"} =>
        \/ PodOf(w) = NoPod
        \/ /\ PodOf(w).image = ImageFor(w)
           /\ PodOf(w).log \in held[ImageFor(w)] \cup {None}

ResultsHeld ==
    \A w \in Worker : pass[w].at # "idle" =>
        /\ pass[w].result \in held[ImageFor(w)] \cup {None}
        /\ pass[w].at \in {"lock", "create", "poll"} => pass[w].result = None

MemoInv == TaggedHeld /\ PodsOwn /\ ResultsHeld

LEMMA MemoInvInit == Init => MemoInv
<1> SUFFICES ASSUME Init PROVE MemoInv
  OBVIOUS
<1>1. TaggedHeld
  BY LookupAssumption DEF Init, TaggedHeld
<1>2. PodsOwn /\ ResultsHeld
  BY DEF Init, PodsOwn, ResultsHeld, NoPass
<1> QED
  BY <1>1, <1>2 DEF MemoInv

LEMMA HeldGrows ==
    ASSUME TypeOK, TaggedHeld, [Next]_vars
    PROVE  /\ TaggedHeld'
           /\ Exit \/ \A i \in Image : held[i] \subseteq held'[i]
<1>1. CASE \E i \in Image, c \in Content : Retag(i, c)
  BY <1>1 DEF Retag, TypeOK, TaggedHeld
<1>2. CASE Exit
  BY <1>2 DEF Exit, TaggedHeld
<1>3. CASE UNCHANGED <<tagged, held>>
  BY <1>3 DEF TaggedHeld
<1> QED
  BY <1>1, <1>2, <1>3 DEF Next, Enqueue, Begin, CacheHit, CacheMiss, Lookup, CreatePod,
     CreateFails, PodSucceeded, PollFails, ReadLogs, LogsFail, LookupReturns, LookupFails,
     PodEnds, PodLost, Shutdown, vars

(* How the pass of a worker may change. *)
LEMMA PassStep ==
    ASSUME TypeOK, [Next]_vars, ~Exit, NEW w \in Worker
    PROVE  \/ pass'[w] = pass[w]
           \/ pass'[w] = NoPass
           \/ /\ pass'[w].at = "lock" /\ pass'[w].result = None
           \/ /\ pass'[w].at = "create" /\ pass[w].at = "lock"
              /\ pass'[w].service = pass[w].service /\ pass'[w].result = pass[w].result
           \/ /\ pass'[w].at = "poll" /\ pass[w].at = "create"
              /\ pass'[w].service = pass[w].service /\ pass'[w].result = pass[w].result
              /\ FreshName \in PodName /\ pass'[w].pod = FreshName
              /\ pods' = [pods EXCEPT ![FreshName] = Started(ImageFor(w))]
           \/ /\ pass'[w].at \in {"logs", "delete"} /\ pass[w].at \in {"poll", "logs"}
              /\ pass'[w].service = pass[w].service /\ pass'[w].pod = pass[w].pod
              /\ pass'[w].result \in {pass[w].result, PodOf(w).log}
              /\ UNCHANGED <<pods, held>>
<1>1. pass \in [Worker -> PassRecord]
  BY DEF TypeOK
<1>2. ASSUME NEW v \in Worker, Lookup(v) \/ CacheHit(v) \/ CacheMiss(v), v # w
      PROVE  pass'[w] = pass[w]
  BY <1>1, <1>2 DEF Lookup, CreatePod, CreateFails, PodSucceeded, PollFails, ReadLogs, LogsFail,
     LookupReturns, LookupFails, GiveUp, CacheHit, CacheMiss
<1>3. ASSUME NEW v \in Worker, NEW s \in Service, Begin(v, s)
      PROVE  pass'[w] = pass[w] \/ (pass'[w].at = "lock" /\ pass'[w].result = None)
  <2> DEFINE r == [NoPass EXCEPT !.at = "lock", !.service = s]
  <2>1. r.at = "lock" /\ r.result = None /\ pass' = [pass EXCEPT ![v] = r]
    BY <1>3 DEF Begin, NoPass
  <2> HIDE DEF r
  <2> QED
    BY <1>1, <2>1
<1>4. CASE CacheHit(w) \/ CreateFails(w) \/ LookupReturns(w) \/ LookupFails(w)
  BY <1>1, <1>4 DEF CacheHit, CreateFails, LookupReturns, LookupFails, GiveUp
<1>5. CASE CacheMiss(w)
  BY <1>1, <1>5 DEF CacheMiss, PassRecord
<1>6. CASE CreatePod(w)
  BY <1>1, <1>6, FreshFacts DEF CreatePod, PassRecord
<1>7. CASE PodSucceeded(w) \/ PollFails(w) \/ LogsFail(w)
  BY <1>1, <1>7 DEF PodSucceeded, PollFails, LogsFail, PassRecord
<1>8. CASE ReadLogs(w)
  BY <1>1, <1>8 DEF ReadLogs, PassRecord
<1>9. CASE UNCHANGED pass
  BY <1>9
<1> QED
  BY <1>2, <1>3, <1>4, <1>5, <1>6, <1>7, <1>8, <1>9
     DEF Next, Lookup, Enqueue, PodEnds, PodLost, Retag, Shutdown, vars

(* A pod that a lookup waits for ends or goes, and is not replaced. *)
LEMMA PodsOwnStep ==
    ASSUME TypeOK, OneLookup, TaggedHeld, PodsOwn, [Next]_vars, ~Exit
    PROVE  PodsOwn'
<1> SUFFICES ASSUME NEW w \in Worker, pass'[w].at \in {"poll", "logs"}
             PROVE  \/ PodOf(w)' = NoPod
                    \/ /\ PodOf(w)'.image = ImageFor(w)'
                       /\ PodOf(w)'.log \in held'[ImageFor(w)'] \cup {None}
  BY DEF PodsOwn
<1>1. \A i \in Image : held[i] \subseteq held'[i]
  BY HeldGrows
<1>2. pods \in [PodName -> Pod] /\ tagged \in [Image -> Content]
  BY DEF TypeOK
<1>3. CASE /\ pass'[w].at = "poll" /\ pass'[w].service = pass[w].service
           /\ FreshName \in PodName /\ pass'[w].pod = FreshName
           /\ pods' = [pods EXCEPT ![FreshName] = Started(ImageFor(w))]
  BY <1>2, <1>3 DEF PodOf, ImageFor, Started
<1>4. CASE /\ pass[w].at \in {"poll", "logs"}
           /\ pass'[w].service = pass[w].service /\ pass'[w].pod = pass[w].pod
  <2>1. pass[w].pod \in PodName /\ PodOf(w) \in Pod /\ ImageFor(w) \in Image
    BY <1>4, PassFacts
  <2>2. PodOf(w)' = pods'[pass[w].pod] /\ ImageFor(w)' = ImageFor(w)
    BY <1>4 DEF PodOf, ImageFor
  <2>3. \A v \in Worker : pass[v].at # "create"
    BY <1>4 DEF OneLookup, LookupStep
  <2>4. CASE UNCHANGED pods
    BY <1>1, <1>4, <2>1, <2>2, <2>4 DEF PodsOwn, PodOf
  <2>5. ASSUME NEW p \in PodName, PodEnds(p)
        PROVE  \/ PodOf(w)' = NoPod
               \/ /\ PodOf(w)'.image = ImageFor(w)'
                  /\ PodOf(w)'.log \in held'[ImageFor(w)'] \cup {None}
    <3>1. CASE p # pass[w].pod
      <4>1. PodOf(w)' = PodOf(w)
        BY <1>2, <2>1, <2>2, <2>5, <3>1 DEF PodEnds, PodOf
      <4> QED
        BY <1>1, <1>4, <2>1, <2>2, <4>1 DEF PodsOwn
    <3>2. CASE p = pass[w].pod
      <4>1. PodOf(w) # NoPod
        BY <2>5, <3>2 DEF PodEnds, PodOf, NoPod
      <4>2. /\ PodOf(w).image = ImageFor(w)
            /\ PodOf(w).log \in held[ImageFor(w)] \cup {None}
        BY <1>4, <4>1 DEF PodsOwn
      <4>3. tagged[ImageFor(w)] \in held[ImageFor(w)]
        BY <2>1 DEF TaggedHeld
      <4>4. /\ PodOf(w)'.image = PodOf(w).image
            /\ PodOf(w)'.log \in {PodOf(w).log, tagged[PodOf(w).image]}
        BY <1>2, <2>1, <2>2, <2>5, <3>2 DEF PodEnds, PodOf, Pod
      <4> QED
        BY <1>1, <2>1, <2>2, <4>2, <4>3, <4>4
    <3> QED
      BY <3>1, <3>2
  <2>6. ASSUME NEW p \in PodName,
               \/ /\ pods[p].phase = "Pending"
                  /\ pods' = [pods EXCEPT ![p].phase = "Failed"]
               \/ pods' = [pods EXCEPT ![p] = NoPod]
        PROVE  \/ PodOf(w)' = NoPod
               \/ /\ PodOf(w)'.image = ImageFor(w)'
                  /\ PodOf(w)'.log \in held'[ImageFor(w)'] \cup {None}
    <3>1. \/ PodOf(w)' = NoPod \/ PodOf(w)' = PodOf(w)
          \/ /\ PodOf(w).phase = "Pending"
             /\ PodOf(w)'.image = PodOf(w).image /\ PodOf(w)'.log = PodOf(w).log
      BY <1>2, <2>1, <2>2, <2>6 DEF PodOf, Pod
    <3>2. PodOf(w).phase = "Pending" => PodOf(w) # NoPod
      BY DEF NoPod
    <3> QED
      BY <1>1, <1>4, <2>1, <2>2, <3>1, <3>2 DEF PodsOwn
  <2> QED
    BY <2>3, <2>4, <2>5, <2>6, PodChanges
<1>5. CASE pass'[w].at = "poll" /\ pass[w].at = "create"
  BY <1>3, <1>5, PassStep, NoPassTyped
<1> QED
  BY <1>4, <1>5, PassStep, NoPassTyped

LEMMA ResultsHeldStep ==
    ASSUME TypeOK, PodsOwn, ResultsHeld, TaggedHeld, [Next]_vars, ~Exit
    PROVE  ResultsHeld'
<1> SUFFICES ASSUME NEW w \in Worker, pass'[w].at # "idle"
             PROVE  /\ pass'[w].result \in held'[ImageFor(w)'] \cup {None}
                    /\ pass'[w].at \in {"lock", "create", "poll"} => pass'[w].result = None
  BY DEF ResultsHeld
<1>1. \A i \in Image : held[i] \subseteq held'[i]
  BY HeldGrows
<1>2. ASSUME pass[w].at # "idle", pass'[w].service = pass[w].service
      PROVE  /\ pass[w].result \in held'[ImageFor(w)'] \cup {None}
             /\ ImageFor(w)' = ImageFor(w) /\ ImageFor(w) \in Image
  BY <1>1, <1>2, PassFacts DEF ResultsHeld, ImageFor
<1>3. CASE /\ pass'[w].at \in {"logs", "delete"} /\ pass[w].at \in {"poll", "logs"}
           /\ pass'[w].service = pass[w].service /\ pass'[w].pod = pass[w].pod
           /\ pass'[w].result \in {pass[w].result, PodOf(w).log}
           /\ UNCHANGED <<pods, held>>
  BY <1>2, <1>3 DEF PodsOwn, NoPod
<1>4. CASE /\ pass'[w].at \in {"create", "poll"} /\ pass[w].at \in {"lock", "create"}
           /\ pass'[w].service = pass[w].service /\ pass'[w].result = pass[w].result
  BY <1>4 DEF ResultsHeld
<1>5. CASE pass'[w] = pass[w]
  BY <1>2, <1>5 DEF ResultsHeld
<1> QED
  BY <1>3, <1>4, <1>5, PassStep, NoPassTyped

LEMMA MemoInvStep ==
    ASSUME TypeOK, OneLookup, MemoInv, [Next]_vars
    PROVE  MemoInv'
<1>1. TaggedHeld'
  BY HeldGrows DEF MemoInv
<1>2. CASE Exit
  BY <1>1, <1>2, NoPassTyped DEF Exit, MemoInv, PodsOwn, ResultsHeld
<1>3. CASE ~Exit
  BY <1>1, <1>3, PodsOwnStep, ResultsHeldStep DEF MemoInv
<1> QED
  BY <1>2, <1>3

LEMMA MemoStep ==
    ASSUME TypeOK, OneLookup, MemoInv, [Next]_vars
    PROVE  [Memo!MemoNext]_<<cache, given, held>>
<1>1. cache \in [Image -> Content \cup {None}] /\ given \in [Service -> Content \cup {None}]
  BY DEF TypeOK
<1>2. ASSUME NEW w \in Worker, CacheHit(w)
      PROVE  Memo!MemoNext
  <2>1. pass[w].service \in Service /\ ImageFor(w) \in Image
    BY <1>2, PassFacts DEF CacheHit
  <2>2. cache[ImageFor(w)] \in Content
    BY <1>1, <1>2, <2>1 DEF CacheHit
  <2>3. Memo!Provide(pass[w].service, cache[ImageFor(w)])
    BY <1>1, <1>2, <2>1 DEF CacheHit, Memo!Provide, ImageFor
  <2> QED
    BY <2>1, <2>2, <2>3 DEF Memo!MemoNext
<1>3. ASSUME NEW w \in Worker, LookupReturns(w)
      PROVE  Memo!MemoNext
  <2>1. /\ pass[w].at = "delete" /\ pass[w].result # None
        /\ pass[w].service \in Service /\ ImageFor(w) \in Image
        /\ pass[w].result \in Content \cup {None}
    BY <1>3, PassFacts DEF LookupReturns
  <2>2. pass[w].result \in Content /\ pass[w].result \in held[ImageFor(w)]
    BY <2>1 DEF MemoInv, ResultsHeld
  <2>3. cache[ImageFor(w)] = None
    BY <2>1 DEF OneLookup, LookupStep
  <2>4. Memo!Provide(pass[w].service, pass[w].result)
    BY <1>3, <2>2, <2>3 DEF LookupReturns, Remember, Memo!Provide, ImageFor
  <2> QED
    BY <2>1, <2>2, <2>4 DEF Memo!MemoNext
<1>4. ASSUME NEW i \in Image, NEW c \in Content, Retag(i, c)
      PROVE  Memo!MemoNext
  BY <1>4 DEF Retag, Memo!MemoNext, Memo!Replace
<1>5. CASE Exit
  BY <1>5 DEF Exit, MemoInv, TaggedHeld, Memo!MemoNext, Memo!Forget
<1>6. ASSUME NEW w \in Worker, CacheMiss(w) \/ (Lookup(w) /\ ~LookupReturns(w))
      PROVE  UNCHANGED <<cache, given, held>>
  BY <1>6 DEF CacheMiss, Lookup, CreatePod, CreateFails, PodSucceeded, PollFails, ReadLogs,
     LogsFail, LookupFails
<1>7. CASE \/ \E s \in Service : Enqueue(s) \/ \E w \in Worker : Begin(w, s)
           \/ \E p \in PodName : PodEnds(p) \/ PodLost(p)
           \/ Shutdown \/ UNCHANGED vars
  BY <1>7 DEF Enqueue, Begin, PodEnds, PodLost, Shutdown, vars
<1> QED
  BY <1>2, <1>3, <1>4, <1>5, <1>6, <1>7 DEF Next, Lookup

(* The services of one process are given one content for each image, one that
   the registry held while the process ran. *)
THEOREM LookupImplementsMemo == SafetySpec => ImplementsMemo
<1>1. Init => Memo!MemoInit
  BY LookupAssumption DEF Init, Memo!MemoInit
<1>2. TypeOK /\ OneLookup /\ MemoInv /\ [Next]_vars => MemoInv'
  BY MemoInvStep
<1>3. TypeOK /\ OneLookup /\ MemoInv /\ [Next]_vars => [Memo!MemoNext]_<<cache, given, held>>
  BY MemoStep
<1> QED
  BY <1>1, <1>2, <1>3, MemoInvInit, TypeCorrect, OneLookupAlways, PTL
     DEF SafetySpec, ImplementsMemo, Memo!MemoSpec, Memo!memoVars

-----------------------------------------------------------------------------
(* The pods that lookups leave behind.  A shutdown is paid for at once, what it
   causes comes later: once the context is cancelled, every pass that is still
   running may start a pod and fail to delete it. *)

Busy == {w \in Worker : pass[w].at # "idle"}

Owed == IF stopping THEN Cardinality(Busy) ELSE 0

Allowed == Cardinality(Worker) * (MaxDisruptions - budget)

(* A pass names no pod before it created one. *)
PodsNamed == \A w \in Worker : pass[w].at \in {"idle", "lock", "create"} => pass[w].pod = None

LeaksInv ==
    /\ PodsNamed
    /\ IsFiniteSet(Orphans)
    /\ Cardinality(Orphans) + Owed <= Allowed

LEMMA PodsNamedStep ==
    ASSUME TypeOK, PodsNamed, [Next]_vars
    PROVE  PodsNamed'
<1> SUFFICES ASSUME NEW w \in Worker, pass'[w].at \in {"idle", "lock", "create"}
             PROVE  pass'[w].pod = None
  BY DEF PodsNamed
<1>0. pass \in [Worker -> PassRecord]
  BY DEF TypeOK
<1>1. CASE pass'[w] = pass[w]
  BY <1>1 DEF PodsNamed
<1>2. CASE pass'[w] = NoPass
  BY <1>2 DEF NoPass
<1>3. ASSUME NEW s \in Service, Begin(w, s) PROVE pass'[w].pod = None
  BY <1>0, <1>3 DEF Begin, NoPass
<1>4. CASE CacheMiss(w)
  BY <1>0, <1>4 DEF CacheMiss, PodsNamed, PassRecord
<1>5. CASE CreatePod(w) \/ PodSucceeded(w) \/ PollFails(w) \/ ReadLogs(w) \/ LogsFail(w)
  BY <1>0, <1>5 DEF CreatePod, PodSucceeded, PollFails, ReadLogs, LogsFail, PassRecord
<1>6. CASE CacheHit(w) \/ CreateFails(w) \/ LookupReturns(w) \/ LookupFails(w) \/ Exit
  BY <1>0, <1>2, <1>6 DEF CacheHit, CreateFails, LookupReturns, LookupFails, GiveUp, Exit
<1>7. ASSUME NEW v \in Worker, v # w,
             \/ \E s \in Service : Begin(v, s)
             \/ CacheHit(v) \/ CacheMiss(v) \/ Lookup(v)
      PROVE  pass'[w] = pass[w]
  BY <1>0, <1>7 DEF Begin, CacheHit, CacheMiss, Lookup, CreatePod, CreateFails, PodSucceeded,
     PollFails, ReadLogs, LogsFail, LookupReturns, LookupFails, GiveUp
<1>8. CASE UNCHANGED pass
  BY <1>1, <1>8
<1> QED
  BY <1>1, <1>3, <1>4, <1>5, <1>6, <1>7, <1>8
     DEF Next, Lookup, Enqueue, PodEnds, PodLost, Retag, Shutdown, vars

(* What a disruption buys. *)
LEMMA AllowedFacts ==
    ASSUME TypeOK
    PROVE  /\ Cardinality(Worker) \in Nat /\ Allowed \in Nat
           /\ IsFiniteSet(Busy) /\ Cardinality(Busy) \in Nat
           /\ Cardinality(Busy) <= Cardinality(Worker)
           /\ Owed \in Nat
           /\ UNCHANGED budget => Allowed' = Allowed
           /\ \A kind : Disturb(kind) => Allowed' = Allowed + Cardinality(Worker)
<1>1. Cardinality(Worker) \in Nat
  BY WorkersAssumption, FS_CardinalityType
<1>2. IsFiniteSet(Busy) /\ Cardinality(Busy) <= Cardinality(Worker)
  BY WorkersAssumption, FS_Subset DEF Busy
<1>3. Cardinality(Busy) \in Nat
  BY <1>2, FS_CardinalityType
<1>4. budget \in Nat /\ MaxDisruptions \in Nat /\ MaxDisruptions - budget \in Nat
  BY LookupAssumption DEF TypeOK
<1>5. \A m, n \in Nat : m * n \in Nat /\ m * (n + 1) = m * n + m
  OBVIOUS
<1>6. Allowed \in Nat
  BY <1>1, <1>4, <1>5 DEF Allowed
<1>7. ASSUME NEW kind, Disturb(kind)
      PROVE  Allowed' = Allowed + Cardinality(Worker)
  <2>1. MaxDisruptions - budget' = (MaxDisruptions - budget) + 1
    BY <1>4, <1>7 DEF Disturb
  <2> DEFINE n == MaxDisruptions - budget
             m == Cardinality(Worker)
  <2>2. m * (n + 1) = m * n + m
    <3> HIDE DEF m, n
    <3> QED
      BY <1>1, <1>4, <1>5 DEF m, n
  <2> QED
    BY <2>1, <2>2 DEF Allowed
<1> QED
  BY <1>1, <1>2, <1>3, <1>6, <1>7 DEF Allowed, Owed

(* No step takes back what was allowed. *)
LEMMA AllowedGrows ==
    ASSUME TypeOK, [Next]_vars
    PROVE  Allowed' \in Nat /\ Allowed' >= Allowed
<1>1. budget' = budget \/ \E kind \in DisruptionKind : Disturb(kind)
  BY DEF Next, Enqueue, Begin, CacheHit, CacheMiss, Lookup, CreatePod, CreateFails,
     PodSucceeded, PollFails, ReadLogs, LogsFail, LookupReturns, LookupFails, CleanUp,
     CallFails, PodEnds, PodLost, Retag, Shutdown, Exit, DisruptionKind, vars
<1>2. Allowed' = Allowed \/ Allowed' = Allowed + Cardinality(Worker)
  BY <1>1, AllowedFacts
<1> QED
  BY <1>2, AllowedFacts

(* The ways the count can change.  First: no new orphan. *)
LEMMA NoNewOrphan ==
    ASSUME TypeOK, [Next]_vars, LeaksInv, Orphans' \subseteq Orphans,
           stopping' => stopping /\ Busy' \subseteq Busy
    PROVE  IsFiniteSet(Orphans') /\ Cardinality(Orphans') + Owed' <= Allowed'
<1>1. IsFiniteSet(Orphans') /\ Cardinality(Orphans') <= Cardinality(Orphans)
  BY FS_Subset DEF LeaksInv
<1>2. Cardinality(Orphans) \in Nat /\ Cardinality(Orphans') \in Nat
  BY <1>1, FS_CardinalityType DEF LeaksInv
<1>3. Owed' \in Nat /\ Owed' <= Owed
  <2>1. CASE stopping'
    <3>1. Cardinality(Busy') \in Nat /\ Cardinality(Busy') <= Cardinality(Busy)
      BY <2>1, AllowedFacts, FS_Subset, FS_CardinalityType
    <3> QED
      BY <2>1, <3>1 DEF Owed
  <2>2. CASE ~stopping'
    BY <2>2, AllowedFacts DEF Owed
  <2> QED
    BY <2>1, <2>2
<1>4. Owed \in Nat /\ Allowed \in Nat /\ Allowed' \in Nat /\ Allowed' >= Allowed
  BY AllowedFacts, AllowedGrows
<1> QED
  BY <1>1, <1>2, <1>3, <1>4 DEF LeaksInv

(* Second: an orphan of a pass that ends after a shutdown, or of a call that fails,
   or of the one pass that looks up when the process ends. *)
LEMMA OneOrphan ==
    ASSUME TypeOK, [Next]_vars, LeaksInv, NEW p, Orphans' \subseteq Orphans \cup {p},
           \/ stopping' /\ stopping /\ \E w \in Busy : Busy' \subseteq Busy \ {w}
           \/ ~stopping' /\ stopping /\ Busy # {}
           \/ /\ \E kind : Disturb(kind)
              /\ Worker # {}
              /\ stopping' => stopping /\ Busy' \subseteq Busy
    PROVE  IsFiniteSet(Orphans') /\ Cardinality(Orphans') + Owed' <= Allowed'
<1>1. /\ IsFiniteSet(Orphans \cup {p})
      /\ Cardinality(Orphans \cup {p}) <= Cardinality(Orphans) + 1
      /\ Cardinality(Orphans) \in Nat
  <2>1. IsFiniteSet(Orphans) /\ Cardinality(Orphans) \in Nat
    BY FS_CardinalityType DEF LeaksInv
  <2>2. /\ IsFiniteSet(Orphans \cup {p})
        /\ Cardinality(Orphans \cup {p}) \in {Cardinality(Orphans), Cardinality(Orphans) + 1}
    BY <2>1, FS_AddElement
  <2> QED
    BY <2>1, <2>2
<1>2. /\ IsFiniteSet(Orphans')
      /\ Cardinality(Orphans') \in Nat
      /\ Cardinality(Orphans') <= Cardinality(Orphans) + 1
  <2>1. IsFiniteSet(Orphans') /\ Cardinality(Orphans') <= Cardinality(Orphans \cup {p})
    BY <1>1, FS_Subset
  <2>2. Cardinality(Orphans') \in Nat /\ Cardinality(Orphans \cup {p}) \in Nat
    BY <1>1, <2>1, FS_CardinalityType
  <2> QED
    BY <1>1, <2>1, <2>2
<1>3. /\ Owed \in Nat /\ Allowed \in Nat /\ Allowed' \in Nat /\ Allowed' >= Allowed
      /\ IsFiniteSet(Busy) /\ Cardinality(Busy) \in Nat
  BY AllowedFacts, AllowedGrows
<1>4. Owed' \in Nat /\ Owed' + 1 + Allowed <= Owed + Allowed'
  <2>1. CASE stopping' /\ stopping /\ \E w \in Busy : Busy' \subseteq Busy \ {w}
    <3>1. PICK w \in Busy : Busy' \subseteq Busy \ {w}
      BY <2>1
    <3>2. IsFiniteSet(Busy \ {w}) /\ Cardinality(Busy \ {w}) = Cardinality(Busy) - 1
      BY <1>3, FS_RemoveElement
    <3>3. IsFiniteSet(Busy') /\ Cardinality(Busy') <= Cardinality(Busy \ {w})
      BY <3>1, <3>2, FS_Subset
    <3>4. Cardinality(Busy') \in Nat
      BY <3>3, FS_CardinalityType
    <3>5. Owed' = Cardinality(Busy') /\ Owed = Cardinality(Busy)
      BY <2>1 DEF Owed
    <3> QED
      BY <1>3, <3>2, <3>3, <3>4, <3>5
  <2>2. CASE ~stopping' /\ stopping /\ Busy # {}
    <3>1. Cardinality(Busy) # 0
      BY <1>3, <2>2, FS_EmptySet
    <3>2. Owed' = 0 /\ Owed = Cardinality(Busy)
      BY <2>2 DEF Owed
    <3> QED
      BY <1>3, <3>1, <3>2
  <2>3. CASE /\ \E kind : Disturb(kind)
             /\ Worker # {}
             /\ stopping' => stopping /\ Busy' \subseteq Busy
    <3>1. Allowed' = Allowed + Cardinality(Worker) /\ Cardinality(Worker) \in Nat
      BY <2>3, AllowedFacts
    <3>2. Cardinality(Worker) # 0
      BY <2>3, WorkersAssumption, FS_EmptySet
    <3>3. Owed' \in Nat /\ Owed' <= Owed
      <4>1. CASE stopping'
        <5>1. Cardinality(Busy') \in Nat /\ Cardinality(Busy') <= Cardinality(Busy)
          BY <1>3, <2>3, <4>1, FS_Subset, FS_CardinalityType
        <5> QED
          BY <2>3, <4>1, <5>1 DEF Owed
      <4>2. CASE ~stopping'
        BY <1>3, <4>2 DEF Owed
      <4> QED
        BY <4>1, <4>2
    <3> QED
      BY <1>3, <3>1, <3>2, <3>3
  <2> QED
    BY <2>1, <2>2, <2>3
<1>5. Cardinality(Orphans) + Owed <= Allowed
  BY DEF LeaksInv
<1>6. Cardinality(Orphans') + Owed' <= Allowed'
  <2>1. \A a, b, c, d, e, f \in Nat :
            d <= a + 1 /\ e + 1 + c <= b + f /\ a + b <= c => d + e <= f
    OBVIOUS
  <2> QED
    BY <1>1, <1>2, <1>3, <1>4, <1>5, <2>1
<1> QED
  BY <1>2, <1>6

(* Third: a shutdown owes one for each pass. *)
LEMMA ShutdownOwes ==
    ASSUME TypeOK, LeaksInv, Shutdown
    PROVE  IsFiniteSet(Orphans') /\ Cardinality(Orphans') + Owed' <= Allowed'
<1>1. Orphans' = Orphans /\ Busy' = Busy
  BY DEF Shutdown, Orphans, Unused, InUse, Busy
<1>2. Allowed' = Allowed + Cardinality(Worker)
  BY AllowedFacts DEF Shutdown
<1>3. Owed = 0 /\ Owed' = Cardinality(Busy)
  BY <1>1 DEF Shutdown, Owed
<1>4. Cardinality(Orphans) \in Nat
  BY FS_CardinalityType DEF LeaksInv
<1> QED
  BY <1>1, <1>2, <1>3, <1>4, AllowedFacts DEF LeaksInv

(* Which pods and passes a worker's own step concerns. *)
LEMMA OwnStep ==
    ASSUME TypeOK, [Next]_vars, NEW w \in Worker,
           \/ \E s \in Service : Begin(w, s)
           \/ CacheHit(w) \/ CacheMiss(w) \/ Lookup(w)
    PROVE  /\ \A v \in Worker \ {w} : pass'[v] = pass[v]
           /\ UNCHANGED stopping
           /\ stopping => w \in Busy /\ Busy' \subseteq Busy
           /\ stopping /\ pass'[w] = NoPass => Busy' \subseteq Busy \ {w}
<1>0. pass \in [Worker -> PassRecord]
  BY DEF TypeOK
<1>1. \A v \in Worker \ {w} : pass'[v] = pass[v]
  BY <1>0 DEF Begin, CacheHit, CacheMiss, Lookup, CreatePod, CreateFails, PodSucceeded,
     PollFails, ReadLogs, LogsFail, LookupReturns, LookupFails, GiveUp
<1>2. UNCHANGED stopping
  BY DEF Begin, CacheHit, CacheMiss, Lookup, CreatePod, CreateFails, PodSucceeded,
     PollFails, ReadLogs, LogsFail, LookupReturns, LookupFails
<1>3. stopping => w \in Busy
  BY DEF Begin, CacheHit, CacheMiss, Lookup, CreatePod, CreateFails, PodSucceeded,
     PollFails, ReadLogs, LogsFail, LookupReturns, LookupFails, Busy
<1> QED
  BY <1>1, <1>2, <1>3 DEF Busy, NoPass

LEMMA WorkerLeaks ==
    ASSUME TypeOK, [Next]_vars, LeaksInv, NEW w \in Worker,
           \/ \E s \in Service : Begin(w, s)
           \/ CacheHit(w) \/ CacheMiss(w) \/ Lookup(w)
    PROVE  IsFiniteSet(Orphans') /\ Cardinality(Orphans') + Owed' <= Allowed'
<1>0. /\ pass \in [Worker -> PassRecord] /\ pods \in [PodName -> Pod]
      /\ None \notin PodName
  BY NoneApart DEF TypeOK
<1>1. /\ \A v \in Worker \ {w} : pass'[v] = pass[v]
      /\ UNCHANGED stopping
      /\ stopping => w \in Busy /\ Busy' \subseteq Busy
      /\ stopping /\ pass'[w] = NoPass => Busy' \subseteq Busy \ {w}
  BY OwnStep
<1>2. \A p \in PodName : InUse(p) /\ p # pass[w].pod => InUse(p)'
  BY <1>1 DEF InUse
<1>3. CASE Orphans' \subseteq Orphans
  BY <1>1, <1>3, NoNewOrphan
<1>4. CASE (\E s \in Service : Begin(w, s)) \/ CacheHit(w) \/ CacheMiss(w)
  <2>1. UNCHANGED pods
    BY <1>4 DEF Begin, CacheHit, CacheMiss
  <2>2. pass[w].at \in {"idle", "lock"}
    BY <1>4 DEF Begin, CacheHit, CacheMiss
  <2>3. \A p \in PodName : p # pass[w].pod
    BY <1>0, <2>2 DEF LeaksInv, PodsNamed
  <2>4. Orphans' \subseteq Orphans
    BY <1>2, <2>1, <2>3 DEF Orphans, Unused
  <2> QED
    BY <1>3, <2>4
<1>5. CASE PodSucceeded(w) \/ PollFails(w) \/ ReadLogs(w) \/ LogsFail(w)
  <2>1. UNCHANGED pods /\ pass'[w].pod = pass[w].pod /\ pass'[w].at \in LookupStep
    BY <1>0, <1>5 DEF PodSucceeded, PollFails, ReadLogs, LogsFail, PassRecord, LookupStep
  <2>2. \A p \in PodName : InUse(p) => InUse(p)'
    BY <1>2, <2>1 DEF InUse
  <2>3. Orphans' \subseteq Orphans
    BY <2>1, <2>2 DEF Orphans, Unused
  <2> QED
    BY <1>3, <2>3
<1>6. CASE CreatePod(w)
  <2>1. PICK q \in PodName :
            /\ pods' = [pods EXCEPT ![q] = Started(ImageFor(w))]
            /\ pass'[w].pod = q /\ pass'[w].at = "poll"
            /\ pass[w].pod = None
    BY <1>0, <1>6, FreshFacts DEF CreatePod, PassRecord, LeaksInv, PodsNamed
  <2>2. InUse(q)'
    BY <2>1 DEF InUse, LookupStep
  <2>3. \A p \in PodName : InUse(p) => InUse(p)'
    BY <1>0, <1>2, <2>1
  <2>4. \A p \in PodName \ {q} : pods'[p] = pods[p]
    BY <1>0, <2>1
  <2>5. Orphans' \subseteq Orphans
    <3>1. q \notin Orphans'
      BY <2>2 DEF Orphans
    <3>2. \A p \in PodName \ {q} : p \in Orphans' => p \in Orphans
      BY <2>3, <2>4 DEF Orphans, Unused
    <3> QED
      BY <3>1, <3>2 DEF Orphans
  <2> QED
    BY <1>3, <2>5
<1>7. CASE CreateFails(w)
  <2>1. pass[w].pod = None
    BY <1>7 DEF CreateFails, LeaksInv, PodsNamed
  <2>2. \A p \in PodName : InUse(p) => InUse(p)'
    BY <1>0, <1>2, <2>1
  <2>3. Orphans' \subseteq Orphans \cup {FreshName}
    <3>1. \A p \in PodName \ {FreshName} : pods'[p] = pods[p]
      BY <1>0, <1>7 DEF CreateFails
    <3> QED
      BY <2>2, <3>1 DEF Orphans, Unused
  <2>4. Disturb("call")
    BY <1>7 DEF CreateFails
  <2> QED
    BY <1>1, <2>3, <2>4, OneOrphan
<1>8. CASE LookupReturns(w) \/ LookupFails(w)
  <2>1. PICK q \in PodName : pass[w].pod = q /\ pass'[w] = NoPass /\ CleanUp(w)
    BY <1>0, <1>8 DEF LookupReturns, LookupFails, GiveUp, TypeOK
  <2>2. CASE DeletePod(w)
    <3>1. \A p \in PodName \ {q} : pods'[p] = pods[p]
      BY <1>0, <2>1, <2>2 DEF DeletePod
    <3>2. Unused(q)'
      BY <1>0, <2>1, <2>2 DEF DeletePod, Unused, NoPod
    <3>3. q \notin Orphans'
      BY <2>1, <3>2 DEF Orphans
    <3>4. \A p \in PodName \ {q} : p \in Orphans' => p \in Orphans
      BY <1>2, <2>1, <3>1 DEF Orphans, Unused
    <3>5. Orphans' \subseteq Orphans
      BY <3>3, <3>4 DEF Orphans
    <3> QED
      BY <1>3, <3>5
  <2>3. CASE CallFails /\ UNCHANGED pods
    <3>1. Orphans' \subseteq Orphans \cup {q}
      BY <1>2, <2>1, <2>3 DEF Orphans, Unused
    <3>2. CASE stopping
      BY <1>1, <2>1, <3>1, <3>2, OneOrphan
    <3>3. CASE ~stopping
      BY <1>1, <2>3, <3>1, <3>3, OneOrphan DEF CallFails
    <3> QED
      BY <3>2, <3>3
  <2> QED
    BY <2>1, <2>2, <2>3 DEF CleanUp
<1> QED
  BY <1>4, <1>5, <1>6, <1>7, <1>8 DEF Lookup

(* The end of a process leaves the pod of the one pass that looks up. *)
LEMMA ExitLeaks ==
    ASSUME TypeOK, OneLookup, [Next]_vars, LeaksInv, Exit
    PROVE  IsFiniteSet(Orphans') /\ Cardinality(Orphans') + Owed' <= Allowed'
<1>1. UNCHANGED pods /\ ~stopping'
  BY DEF Exit
<1>2. CASE \A w \in Worker : pass[w].at \notin LookupStep
  <2>1. Orphans' \subseteq Orphans
    BY <1>1, <1>2 DEF Orphans, Unused, InUse
  <2> QED
    BY <1>1, <2>1, NoNewOrphan
<1>3. ASSUME NEW w \in Worker, pass[w].at \in LookupStep
      PROVE  IsFiniteSet(Orphans') /\ Cardinality(Orphans') + Owed' <= Allowed'
  <2>1. \A v \in Worker : pass[v].at \in LookupStep => v = w
    BY <1>3 DEF OneLookup
  <2>2. Orphans' \subseteq Orphans \cup {pass[w].pod}
    BY <1>1, <2>1 DEF Orphans, Unused, InUse
  <2>3. Busy # {}
    BY <1>3 DEF Busy, LookupStep
  <2>4. stopping \/ Disturb("crash")
    BY DEF Exit
  <2> QED
    BY <1>1, <1>3, <2>2, <2>3, <2>4, OneOrphan
<1> QED
  BY <1>2, <1>3

LEMMA LeaksStep ==
    ASSUME TypeOK, OneLookup, LeaksInv, [Next]_vars
    PROVE  LeaksInv'
<1>0. pods \in [PodName -> Pod]
  BY DEF TypeOK
<1>1. PodsNamed'
  BY PodsNamedStep DEF LeaksInv
<1>2. IsFiniteSet(Orphans') /\ Cardinality(Orphans') + Owed' <= Allowed'
  <2>1. CASE UNCHANGED <<pods, pass, stopping>>
    BY <2>1, NoNewOrphan DEF Orphans, Unused, InUse, Busy
  <2>2. ASSUME NEW p \in PodName, PodEnds(p) \/ PodLost(p)
        PROVE  IsFiniteSet(Orphans') /\ Cardinality(Orphans') + Owed' <= Allowed'
    <3>1. UNCHANGED <<pass, stopping>>
      BY <2>2 DEF PodEnds, PodLost
    <3>2. ~Unused(p)
      BY <2>2 DEF PodEnds, PodLost, Unused
    <3>3. \A q \in PodName \ {p} : pods'[q] = pods[q]
      BY <1>0, <2>2 DEF PodEnds, PodLost
    <3>4. Orphans' \subseteq Orphans /\ Busy' = Busy
      BY <3>1, <3>2, <3>3 DEF Orphans, Unused, InUse, Busy
    <3> QED
      BY <3>1, <3>4, NoNewOrphan
  <2>3. CASE Shutdown
    BY <2>3, ShutdownOwes
  <2>4. CASE Exit
    BY <2>4, ExitLeaks
  <2> QED
    BY <2>1, <2>2, <2>3, <2>4, WorkerLeaks DEF Next, Enqueue, Retag, vars
<1> QED
  BY <1>1, <1>2 DEF LeaksInv

LEMMA LeaksInit == Init => LeaksInv
<1> SUFFICES ASSUME Init PROVE LeaksInv
  OBVIOUS
<1>1. PodsNamed
  BY DEF Init, PodsNamed, NoPass
<1>2. Orphans = {}
  BY DEF Init, Orphans, Unused, NoPod
<1>3. Owed = 0
  BY DEF Init, Owed
<1>4. Allowed = 0
  <2>1. Cardinality(Worker) \in Nat /\ MaxDisruptions \in Nat
    BY WorkersAssumption, LookupAssumption, FS_CardinalityType
  <2>2. \A m, n \in Nat : m * (n - n) = 0
    OBVIOUS
  <2> QED
    BY <2>1, <2>2 DEF Init, Allowed
<1> QED
  BY <1>1, <1>2, <1>3, <1>4, FS_EmptySet DEF LeaksInv

(* However many lookups fail, the pods they leave are bounded by the calls that
   failed and the processes that ended, not by the number of lookups. *)
THEOREM LeaksAlwaysBounded == SafetySpec => []LeaksBounded
<1>1. TypeOK /\ LeaksInv => LeaksBounded
  <2> SUFFICES ASSUME TypeOK, LeaksInv PROVE LeaksBounded
    OBVIOUS
  <2>1. Cardinality(Orphans) \in Nat /\ Owed \in Nat /\ Allowed \in Nat
    BY AllowedFacts, FS_CardinalityType DEF LeaksInv
  <2>2. Cardinality(Orphans) <= Allowed
    BY <2>1 DEF LeaksInv
  <2> QED
    BY <2>2 DEF LeaksBounded, Allowed
<1> QED
  BY <1>1, LeaksInit, LeaksStep, TypeCorrect, OneLookupAlways, PTL DEF SafetySpec
=============================================================================
