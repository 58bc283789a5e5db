----------------------------- MODULE PkiProofs -----------------------------
(* Theorems about Pki, for every kind of disruption and any number of them, and
   about what its certificates are for: the names and addresses of Network. *)
EXTENDS Pki, Network, VersionStreamProofs, TLAPS

-----------------------------------------------------------------------------
(* Type correctness. *)

LEMMA OrderFacts ==
    /\ Len(Order) = 9
    /\ Places = 1 .. 9
    /\ \A i \in Places : Order[i] \in Secret \ {RootCA}
    /\ RootCA \in Secret /\ ServiceAccountKey \in Secret \ {RootCA}
<1>1. Len(Order) = 9 /\ Places = 1 .. 9
  BY DEF Order, Places
<1>2. \A i \in 1 .. 9 : Order[i] # "root-ca"
  BY DEF Order, ServiceAccountKey
<1>3. Order[6] = ServiceAccountKey
  BY DEF Order
<1> QED
  BY <1>1, <1>2, <1>3 DEF Secret, RootCA

LEMMA SecretFacts ==
    ASSUME TypeOK, NEW s \in Secret
    PROVE  /\ secrets[s] \in Seq(SecretVersion) /\ secrets[s] # <<>>
           /\ SecretCurrent(s) \in SecretVersion
           /\ SecretCached(s) \in SecretVersion
           /\ Synced(secrets[s]) => SecretCached(s) = SecretCurrent(s)
<1>1. secrets[s] \in Seq(SecretVersion) /\ secrets[s] # <<>>
  BY DEF TypeOK, SecretsOK, PassOK
<1> QED
  BY <1>1, StreamEnds DEF SecretCurrent, SecretCached

LEMMA VersionTypes ==
    ASSUME NEW v \in SecretVersion, NEW signer \in Nat, NEW e \in SUBSET Entries
    PROVE  /\ NoSecret \in SecretVersion
           /\ Gone(v) \in SecretVersion
           /\ Generated(v, signer) \in SecretVersion
           /\ [v EXCEPT !.keys = @ \ e] \in SecretVersion
<1>1. NoSecret \in SecretVersion
  BY DEF SecretVersion, NoSecret
<1>2. Gone(v) \in SecretVersion
  BY <1>1 DEF SecretVersion, Gone
<1>3. Generated(v, signer) \in SecretVersion
  BY DEF SecretVersion, Generated
<1>4. [v EXCEPT !.keys = @ \ e] \in SecretVersion
  BY DEF SecretVersion
<1> QED
  BY <1>1, <1>2, <1>3, <1>4

(* A write concerns one secret and keeps the types. *)
LEMMA StoreType ==
    ASSUME TypeOK, NEW s \in Secret, NEW v \in SecretVersion,
           secrets' = [secrets EXCEPT ![s] = Store(@, v)]
    PROVE  /\ SecretsOK'
           /\ secrets'[s] = Store(secrets[s], v)
           /\ \A t \in Secret \ {s} : secrets'[t] = secrets[t]
           /\ SecretCurrent(s)' = v
           /\ SecretCached(s)' = SecretCached(s)
<1>1. secrets[s] \in Seq(SecretVersion) /\ secrets[s] # <<>>
  BY SecretFacts
<1>2. /\ Store(secrets[s], v) \in Seq(SecretVersion) /\ Store(secrets[s], v) # <<>>
      /\ Current(Store(secrets[s], v)) = v
      /\ Cached(Store(secrets[s], v)) = Cached(secrets[s])
  <2>1. \A t \in Seq(SecretVersion) : t # <<>> =>
            /\ Store(t, v) \in Seq(SecretVersion) /\ Store(t, v) # <<>>
            /\ Current(Store(t, v)) = v
            /\ Cached(Store(t, v)) = Cached(t)
    BY StoreFacts
  <2> QED
    BY <1>1, <2>1
<1>3. secrets' = [secrets EXCEPT ![s] = Store(secrets[s], v)]
  OBVIOUS
<1>4. secrets \in [Secret -> Seq(SecretVersion)] /\ \A t \in Secret : secrets[t] # <<>>
  BY DEF TypeOK, SecretsOK, PassOK
<1>5. secrets'[s] = Store(secrets[s], v)
  BY <1>3, <1>4
<1>6. \A t \in Secret \ {s} : secrets'[t] = secrets[t]
  BY <1>3, <1>4
<1>7. secrets' \in [Secret -> Seq(SecretVersion)]
  BY <1>2, <1>3, <1>4
<1>8. \A t \in Secret : secrets'[t] # <<>>
  BY <1>2, <1>4, <1>5, <1>6
<1> QED
  BY <1>2, <1>5, <1>6, <1>7, <1>8 DEF SecretsOK, SecretCurrent, SecretCached

(* What generating key material for s, signed by signer, does to the secrets. *)
LEMMA GenerateFacts ==
    ASSUME TypeOK, NEW s \in Secret, NEW signer \in Nat, Generate(s, signer)
    PROVE  /\ SecretsOK'
           /\ \/ UNCHANGED secrets
              \/ /\ Accepted(s)
                 /\ Generated(SecretCurrent(s), signer) \in SecretVersion
                 /\ secrets' = [secrets EXCEPT ![s] = Store(@, Generated(SecretCurrent(s), signer))]
<1>1. CASE Accepted(s)
  <2>1. secrets' = [secrets EXCEPT ![s] = Store(@, Generated(Current(@), signer))]
    BY <1>1 DEF Generate
  <2>2. secrets' = [secrets EXCEPT ![s] = Store(@, Generated(SecretCurrent(s), signer))]
    BY <2>1 DEF SecretCurrent
  <2>3. Generated(SecretCurrent(s), signer) \in SecretVersion
    BY SecretFacts, VersionTypes
  <2> QED
    BY <1>1, <2>2, <2>3, StoreType
<1>2. CASE ~Accepted(s)
  BY <1>2 DEF Generate, TypeOK, SecretsOK
<1> QED
  BY <1>1, <1>2

LEMMA SignerType ==
    ASSUME TypeOK, NEW s \in Secret
    PROVE  Signer(s, ca) \in Nat
  BY DEF TypeOK, PassOK, Signer, SecretVersion

(* A pass that ends forgets its copy of the root CA. *)
LEMMA EndOfPass ==
    ASSUME TypeOK, Done \/ Retry
    PROVE  /\ due' \in BOOLEAN /\ pc' = "idle" /\ at' \in Places /\ ca' \in SecretVersion
<1>1. at' \in Places
  BY OrderFacts DEF Done, Retry, NoPass
<1>2. NoSecret \in SecretVersion
  BY DEF SecretVersion, NoSecret
<1> QED
  BY <1>1, <1>2 DEF Done, Retry, NoPass, TypeOK, PassOK

(* A call that fails stores the new key material, or nothing at all. *)
LEMMA FailureFacts ==
    ASSUME TypeOK, NEW s \in Secret, NEW signer \in Nat, GenerateFails(s, signer)
    PROVE  budget' \in Nat /\ (UNCHANGED secrets \/ Generate(s, signer))
  BY DEF TypeOK, GenerateFails, Disturb

(* After a secret the pass ends, goes on to the next secret with the same copy of
   the root CA, or reads the root CA for the next stage. *)
LEMMA ProceedFacts ==
    ASSUME TypeOK, pc = "Secret", Proceed
    PROVE  /\ PassOK' /\ budget' \in Nat
           /\ pc' = "Secret" => ca' = ca
<1>1. at \in 1 .. 9 /\ Places = 1 .. 9 /\ Len(Order) = 9
  BY OrderFacts DEF TypeOK, PassOK
<1>2. CASE at \notin EndOfStage /\ at' = at + 1 /\ UNCHANGED <<due, pc, ca, budget>>
  BY <1>1, <1>2 DEF TypeOK, PassOK, EndOfStage
<1>3. CASE /\ at \in EndOfStage \ {Len(Order)} /\ at' = at + 1 /\ pc' = "ReadCA"
           /\ UNCHANGED <<due, ca, budget>>
  BY <1>1, <1>3 DEF TypeOK, PassOK
<1>4. CASE at \in EndOfStage /\ Disturb("gate") /\ Retry
  BY <1>4, EndOfPass DEF TypeOK, PassOK, Disturb
<1>5. CASE Done /\ UNCHANGED budget
  BY <1>5, EndOfPass DEF TypeOK, PassOK
<1> QED
  BY <1>2, <1>3, <1>4, <1>5 DEF Proceed

(* What a step of the pass may do with the secret s: nothing but generate key
   material for it, and only if it did not look up to date. *)
Judged(s) ==
    /\ pc = "Secret" /\ s = Order[at] /\ s \in Secret \ {RootCA}
    /\ ~SignedSecretUpToDate(s, SecretCached(s), ca)
    /\ Generate(s, Signer(s, ca))

LEMMA ReconcileSecretFacts ==
    ASSUME TypeOK, ReconcileSecret
    PROVE  /\ TypeOK'
           /\ pc = "Secret" /\ (pc' = "Secret" => ca' = ca)
           /\ UNCHANGED secrets \/ Judged(Order[at])
<1> DEFINE s == Order[at]
           signer == Signer(s, ca)
           upToDate == SignedSecretUpToDate(s, SecretCached(s), ca)
<1>1. pc = "Secret"
  BY DEF ReconcileSecret
<1>2. s \in Secret \ {RootCA} /\ signer \in Nat
  BY OrderFacts, SignerType DEF TypeOK, PassOK
<1>3. SecretsOK /\ PassOK /\ budget \in Nat
  BY DEF TypeOK
<1>4. CASE Retry /\ UNCHANGED <<secrets, budget>>
  BY <1>1, <1>3, <1>4, EndOfPass DEF TypeOK, SecretsOK, PassOK
<1>5. CASE Proceed /\ UNCHANGED secrets
  BY <1>1, <1>3, <1>5, ProceedFacts DEF TypeOK, SecretsOK
<1>6. CASE ~upToDate /\ Generate(s, signer) /\ Proceed
  <2>1. SecretsOK' /\ PassOK' /\ budget' \in Nat /\ (pc' = "Secret" => ca' = ca)
    BY <1>1, <1>2, <1>6, GenerateFacts, ProceedFacts
  <2>2. Judged(s)
    BY <1>1, <1>2, <1>6 DEF Judged
  <2> QED
    BY <1>1, <2>1, <2>2 DEF TypeOK
<1>7. CASE ~upToDate /\ GenerateFails(s, signer) /\ Retry
  <2>1. budget' \in Nat /\ (UNCHANGED secrets \/ Generate(s, signer))
    BY <1>2, <1>7, FailureFacts
  <2>2. PassOK' /\ pc' = "idle"
    BY <1>7, EndOfPass DEF PassOK
  <2>3. SecretsOK'
    BY <1>2, <1>3, <2>1, GenerateFacts DEF SecretsOK
  <2>4. UNCHANGED secrets \/ Judged(s)
    BY <1>1, <1>2, <1>7, <2>1 DEF Judged
  <2> QED
    BY <1>1, <2>1, <2>2, <2>3, <2>4 DEF TypeOK
<1> QED
  BY <1>4, <1>5, <1>6, <1>7 DEF ReconcileSecret

LEMMA ReconcileRootCAFacts ==
    ASSUME TypeOK, ReconcileRootCA
    PROVE  /\ TypeOK'
           /\ pc' # "Secret"
           /\ UNCHANGED secrets
              \/ (~KeepsRootCA(SecretCached(RootCA)) /\ Generate(RootCA, 0))
<1>1. RootCA \in Secret /\ 0 \in Nat
  BY OrderFacts
<1>2. CASE UNCHANGED <<secrets, due, at, ca, budget>> /\ pc' = "ReadCA"
  BY <1>2 DEF TypeOK, SecretsOK, PassOK
<1>3. CASE /\ ~KeepsRootCA(SecretCached(RootCA)) /\ Generate(RootCA, 0)
           /\ pc' = "ReadCA" /\ UNCHANGED <<due, at, ca, budget>>
  <2>1. SecretsOK'
    BY <1>1, <1>3, GenerateFacts
  <2> QED
    BY <1>3, <2>1 DEF TypeOK, PassOK
<1>4. CASE ~KeepsRootCA(SecretCached(RootCA)) /\ GenerateFails(RootCA, 0) /\ Retry
  <2>1. budget' \in Nat /\ (UNCHANGED secrets \/ Generate(RootCA, 0))
    BY <1>1, <1>4, FailureFacts
  <2>2. PassOK' /\ pc' = "idle"
    BY <1>4, EndOfPass DEF PassOK
  <2>3. SecretsOK'
    BY <1>1, <2>1, GenerateFacts DEF TypeOK, SecretsOK
  <2> QED
    BY <1>4, <2>1, <2>2, <2>3 DEF TypeOK
<1> QED
  BY <1>2, <1>3, <1>4 DEF ReconcileRootCA

LEMMA ReadCAFacts ==
    ASSUME TypeOK, ReadCA
    PROVE  /\ TypeOK' /\ UNCHANGED secrets
           /\ pc' = "Secret" => ca' = SecretCached(RootCA)
<1>1. SecretCached(RootCA) \in SecretVersion
  BY OrderFacts, SecretFacts
<1>2. UNCHANGED <<secrets, budget>>
  BY DEF ReadCA
<1>3. CASE /\ ca' = SecretCached(RootCA) /\ pc' = "Secret" /\ UNCHANGED <<due, at>>
  BY <1>1, <1>2, <1>3 DEF TypeOK, SecretsOK, PassOK
<1>4. CASE Retry
  BY <1>2, <1>4, EndOfPass DEF TypeOK, SecretsOK, PassOK
<1> QED
  BY <1>3, <1>4 DEF ReadCA

(* A write by a user only takes something away: the key material stays the same,
   and so does its signer unless the secret is gone. *)
UserWrites(s, v) ==
    /\ v \in SecretVersion
    /\ v.serial = SecretCurrent(s).serial /\ v.signer \in {0, SecretCurrent(s).signer}
    /\ secrets' = [secrets EXCEPT ![s] = Store(@, v)]

LEMMA UserFacts ==
    ASSUME TypeOK, NEW s \in Secret,
           UserDeletes(s) \/ \E entry \in Entries : UserRemoves(s, entry)
    PROVE  /\ TypeOK' /\ UNCHANGED <<pc, ca>>
           /\ \E v : UserWrites(s, v)
<1>1. SecretCurrent(s) \in SecretVersion
  BY SecretFacts
<1>2. PICK v \in SecretVersion :
          /\ v.serial = SecretCurrent(s).serial /\ v.signer \in {0, SecretCurrent(s).signer}
          /\ Write(s, v)
  <2>1. CASE UserDeletes(s)
    <3>1. Gone(SecretCurrent(s)) \in SecretVersion
      BY <1>1, VersionTypes
    <3>2. /\ Gone(SecretCurrent(s)).serial = SecretCurrent(s).serial
          /\ Gone(SecretCurrent(s)).signer = 0
      BY DEF Gone, NoSecret
    <3> QED
      BY <2>1, <3>1, <3>2 DEF UserDeletes
  <2>2. ASSUME NEW entry \in Entries, UserRemoves(s, entry)
        PROVE  \E v \in SecretVersion :
                  /\ v.serial = SecretCurrent(s).serial
                  /\ v.signer \in {0, SecretCurrent(s).signer}
                  /\ Write(s, v)
    <3> DEFINE w == [SecretCurrent(s) EXCEPT !.keys = @ \ {entry}]
    <3>1. w \in SecretVersion
      BY <1>1, VersionTypes
    <3>2. w.serial = SecretCurrent(s).serial /\ w.signer = SecretCurrent(s).signer
      BY <1>1 DEF SecretVersion
    <3>3. Write(s, w)
      BY <2>2 DEF UserRemoves
    <3> QED
      BY <3>1, <3>2, <3>3
  <2> QED
    BY <2>1, <2>2
<1>3. SecretsOK'
  BY <1>2, StoreType DEF Write
<1>4. budget' \in Nat
  <2>1. \E kind : Disturb(kind)
    <3>1. CASE UserDeletes(s)
      BY <3>1 DEF UserDeletes
    <3>2. ASSUME NEW entry \in Entries, UserRemoves(s, entry)
          PROVE  \E kind : Disturb(kind)
      BY <3>2 DEF UserRemoves
    <3> QED
      BY <3>1, <3>2
  <2> QED
    BY <2>1 DEF TypeOK, Disturb
<1>5. UserWrites(s, v)
  BY <1>2 DEF UserWrites, Write
<1> QED
  BY <1>2, <1>3, <1>4, <1>5 DEF Write, TypeOK, PassOK

LEMMA DeliverKeeps ==
    ASSUME TypeOK, NEW s \in Secret, Deliver(s)
    PROVE  /\ TypeOK' /\ UNCHANGED <<pc, ca>>
           /\ ~Synced(secrets[s])
           /\ secrets'[s] = Tail(secrets[s])
           /\ \A t \in Secret \ {s} : secrets'[t] = secrets[t]
           /\ \A t \in Secret : SecretCurrent(t)' = SecretCurrent(t)
<1>1. secrets[s] \in Seq(SecretVersion) /\ secrets[s] # <<>>
  BY SecretFacts
<1>2. ~Synced(secrets[s]) /\ secrets' = [secrets EXCEPT ![s] = Tail(secrets[s])]
  BY DEF Deliver
<1>3. /\ Tail(secrets[s]) \in Seq(SecretVersion) /\ Tail(secrets[s]) # <<>>
      /\ Current(Tail(secrets[s])) = Current(secrets[s])
  <2>1. \A t \in Seq(SecretVersion) : t # <<>> /\ ~Synced(t) =>
            /\ Tail(t) \in Seq(SecretVersion) /\ Tail(t) # <<>>
            /\ Current(Tail(t)) = Current(t)
    BY DeliverFacts
  <2> QED
    BY <1>1, <1>2, <2>1
<1>4. secrets'[s] = Tail(secrets[s]) /\ \A t \in Secret \ {s} : secrets'[t] = secrets[t]
  BY <1>2 DEF TypeOK, SecretsOK
<1>5. SecretsOK'
  BY <1>2, <1>3, <1>4 DEF TypeOK, SecretsOK
<1>6. \A t \in Secret : SecretCurrent(t)' = SecretCurrent(t)
  BY <1>3, <1>4 DEF SecretCurrent
<1> QED
  BY <1>2, <1>4, <1>5, <1>6 DEF Deliver, TypeOK, PassOK

LEMMA RestartKeeps ==
    ASSUME TypeOK, Restart
    PROVE  /\ TypeOK' /\ pc' = "idle"
           /\ \A t \in Secret : /\ Len(secrets'[t]) = 1
                                /\ SecretCurrent(t)' = SecretCurrent(t)
                               /\ SecretCached(t)' = SecretCurrent(t)
<1>1. \A t \in Secret : secrets'[t] = Relisted(secrets[t])
  BY DEF Restart
<1>2. ASSUME NEW t \in Secret
      PROVE  /\ secrets'[t] \in Seq(SecretVersion) /\ secrets'[t] # <<>>
             /\ Len(secrets'[t]) = 1
             /\ SecretCurrent(t)' = SecretCurrent(t)
             /\ SecretCached(t)' = SecretCurrent(t)
  BY <1>1, SecretFacts, RelistFacts DEF SecretCurrent, SecretCached
<1>3. SecretsOK'
  BY <1>2 DEF SecretsOK, Restart
<1>4. at' \in Places /\ NoSecret \in SecretVersion
  BY OrderFacts DEF Restart, NoPass, SecretVersion, NoSecret
<1>5. PassOK' /\ budget' \in Nat /\ pc' = "idle"
  BY <1>4 DEF Restart, NoPass, Disturb, TypeOK, PassOK
<1> QED
  BY <1>2, <1>3, <1>5 DEF TypeOK

LEMMA InitType == Init => TypeOK
<1> SUFFICES ASSUME Init PROVE TypeOK
  OBVIOUS
<1>1. NoSecret \in SecretVersion /\ 1 \in Places
  BY OrderFacts DEF SecretVersion, NoSecret
<1>2. <<NoSecret>> \in Seq(SecretVersion) /\ <<NoSecret>> # <<>>
  BY <1>1
<1> QED
  BY <1>1, <1>2, DisruptionsAssumption DEF Init, TypeOK, SecretsOK, PassOK

LEMMA StepType == TypeOK /\ [Next]_vars => TypeOK'
<1> SUFFICES ASSUME TypeOK, [Next]_vars PROVE TypeOK'
  OBVIOUS
<1>1. CASE Start
  BY <1>1 DEF Start, TypeOK, SecretsOK, PassOK
<1>2. CASE ReconcileRootCA
  BY <1>2, ReconcileRootCAFacts
<1>3. CASE ReadCA
  BY <1>3, ReadCAFacts
<1>4. CASE ReconcileSecret
  BY <1>4, ReconcileSecretFacts
<1>5. ASSUME NEW s \in Secret, Deliver(s) PROVE TypeOK'
  BY <1>5, DeliverKeeps
<1>6. ASSUME NEW s \in Secret,
             UserDeletes(s) \/ \E entry \in Entries : UserRemoves(s, entry)
      PROVE  TypeOK'
  BY <1>6, UserFacts
<1>7. CASE Resync
  BY <1>7 DEF Resync, TypeOK, SecretsOK, PassOK
<1>8. CASE Restart
  BY <1>8, RestartKeeps
<1>9. CASE UNCHANGED vars
  BY <1>9 DEF vars, TypeOK, SecretsOK, PassOK
<1> QED
  BY <1>1, <1>2, <1>3, <1>4, <1>5, <1>6, <1>7, <1>8, <1>9 DEF Next, Reconcile

(* Every reachable state has the types of TypeOK: the pass never runs past the last
   secret, and every secret always has a version to read. *)
THEOREM PkiTypeCorrect == SafetySpec => []TypeOK
<1>1. Init => TypeOK
  BY InitType
<1>2. TypeOK /\ [Next]_vars => TypeOK'
  BY StepType
<1> QED
  BY <1>1, <1>2, PTL DEF SafetySpec

-----------------------------------------------------------------------------
(* Key material is kept. *)

(* The versions of the root CA are numbered in the order they are generated. *)
RootOrdered ==
    \A i, j \in 1 .. Len(secrets[RootCA]) :
        i <= j => secrets[RootCA][i].serial <= secrets[RootCA][j].serial

(* No certificate is signed by a root CA that the cache does not show yet. *)
SignedByKnownCA ==
    \A s \in Secret \ {RootCA} :
        SecretCurrent(s).signer <= SecretCached(RootCA).serial

ServiceAccountKeyUnsigned == SecretCurrent(ServiceAccountKey).signer = 0

(* The copy that a pass signs with is not newer than the cache's, and not older than
   what any certificate is signed by. *)
CAOfPass ==
    pc = "Secret" =>
        /\ ca.serial <= SecretCached(RootCA).serial
        /\ \A s \in Secret \ {RootCA} : SecretCurrent(s).signer <= ca.serial

KeysInv == RootOrdered /\ SignedByKnownCA /\ ServiceAccountKeyUnsigned /\ CAOfPass

(* One write: it keeps the number of the secret's key material or increases it, and
   a certificate gets no signer but the one it has, none, or the pass's root CA. *)
LEMMA WriteKeepsInv ==
    ASSUME TypeOK, KeysInv, NEW s \in Secret, NEW v \in SecretVersion,
           secrets' = [secrets EXCEPT ![s] = Store(@, v)],
           v.serial >= SecretCurrent(s).serial,
           s # RootCA => \/ v.signer \in {0, SecretCurrent(s).signer}
                         \/ pc = "Secret" /\ v.signer = Signer(s, ca),
           pc' = "Secret" => pc = "Secret" /\ ca' = ca
    PROVE  KeysInv'
<1>1. /\ secrets'[s] = Store(secrets[s], v)
      /\ \A t \in Secret \ {s} : secrets'[t] = secrets[t]
      /\ SecretCurrent(s)' = v /\ SecretCached(s)' = SecretCached(s)
  BY StoreType
<1>2. \A t \in Secret \ {s} : /\ SecretCurrent(t)' = SecretCurrent(t)
                              /\ SecretCached(t)' = SecretCached(t)
  BY <1>1 DEF SecretCurrent, SecretCached
<1>3. RootCA \in Secret /\ ServiceAccountKey \in Secret \ {RootCA}
  BY OrderFacts
<1>4. SecretCached(RootCA)' = SecretCached(RootCA)
  BY <1>1, <1>2, <1>3
<1>5. \A t \in Secret : /\ SecretCurrent(t).signer \in Nat /\ SecretCurrent(t).serial \in Nat
                        /\ SecretCached(t).serial \in Nat
  BY SecretFacts DEF SecretVersion
<1>6. v.signer \in Nat /\ v.serial \in Nat /\ ca.serial \in Nat
  BY DEF SecretVersion, TypeOK, PassOK
<1>7. s # RootCA => /\ v.signer <= SecretCached(RootCA).serial
                    /\ pc = "Secret" => v.signer <= ca.serial
                    /\ s = ServiceAccountKey => v.signer = 0
  BY <1>3, <1>5, <1>6
     DEF KeysInv, SignedByKnownCA, CAOfPass, ServiceAccountKeyUnsigned, Signer
<1>8. RootOrdered'
  <2>1. CASE s = RootCA
    <3> DEFINE r == secrets[RootCA]
    <3>1. r \in Seq(SecretVersion) /\ r # <<>>
      BY <1>3, SecretFacts
    <3>2. Len(r) \in Nat \ {0} /\ \A i \in 1 .. Len(r) : r[i].serial \in Nat
      <4>1. Len(r) \in Nat \ {0} /\ \A i \in 1 .. Len(r) : r[i] \in SecretVersion
        BY <3>1
      <4> QED
        BY <4>1 DEF SecretVersion
    <3>3. CASE v = Current(r)
      BY <1>1, <2>1, <3>3 DEF Store, KeysInv, RootOrdered
    <3>4. CASE v # Current(r)
      <4>1. secrets'[RootCA] = Append(r, v)
        BY <1>1, <2>1, <3>4 DEF Store
      <4>2. /\ Len(Append(r, v)) = Len(r) + 1
            /\ \A i \in 1 .. Len(r) : Append(r, v)[i] = r[i]
            /\ Append(r, v)[Len(r) + 1] = v
        BY <3>1
      <4>3. \A i \in 1 .. Len(r) : r[i].serial <= v.serial
        <5>1. \A i \in 1 .. Len(r) : r[i].serial <= r[Len(r)].serial
          BY <3>2 DEF KeysInv, RootOrdered
        <5>2. r[Len(r)].serial <= v.serial
          BY <2>1 DEF SecretCurrent, Current
        <5> QED
          BY <1>6, <3>2, <5>1, <5>2
      <4>4. \A i, j \in 1 .. Len(r) : i <= j => r[i].serial <= r[j].serial
        BY DEF KeysInv, RootOrdered
      <4>5. ASSUME NEW i \in 1 .. Len(r) + 1, NEW j \in 1 .. Len(r) + 1, i <= j
            PROVE  Append(r, v)[i].serial <= Append(r, v)[j].serial
        <5>1. CASE j \in 1 .. Len(r)
          <6>1. i \in 1 .. Len(r)
            BY <3>2, <4>5, <5>1
          <6> QED
            BY <4>2, <4>4, <4>5, <5>1, <6>1
        <5>2. CASE j = Len(r) + 1 /\ i \in 1 .. Len(r)
          BY <4>2, <4>3, <5>2
        <5>3. CASE j = Len(r) + 1 /\ i = Len(r) + 1
          BY <1>6, <4>2, <5>3
        <5> QED
          BY <3>2, <5>1, <5>2, <5>3
      <4> QED
        BY <4>1, <4>2, <4>5 DEF RootOrdered
    <3> QED
      BY <3>3, <3>4
  <2>2. CASE s # RootCA
    BY <1>1, <1>3, <2>2 DEF KeysInv, RootOrdered
  <2> QED
    BY <2>1, <2>2
<1>9. SignedByKnownCA'
  BY <1>1, <1>2, <1>4, <1>7 DEF KeysInv, SignedByKnownCA
<1>10. ServiceAccountKeyUnsigned'
  BY <1>1, <1>2, <1>3, <1>7 DEF KeysInv, ServiceAccountKeyUnsigned
<1>11. CAOfPass'
  BY <1>1, <1>2, <1>4, <1>7 DEF KeysInv, CAOfPass
<1> QED
  BY <1>8, <1>9, <1>10, <1>11 DEF KeysInv

(* A step that writes no secret and signs with the same copy, or takes the cache's. *)
LEMMA NoWriteKeepsInv ==
    ASSUME TypeOK, KeysInv, UNCHANGED secrets,
           pc' = "Secret" => (pc = "Secret" /\ ca' = ca) \/ ca' = SecretCached(RootCA)
    PROVE  KeysInv'
<1>1. RootOrdered' /\ SignedByKnownCA' /\ ServiceAccountKeyUnsigned'
  BY DEF KeysInv, RootOrdered, SignedByKnownCA, ServiceAccountKeyUnsigned,
         SecretCurrent, SecretCached
<1>2. SecretCached(RootCA).serial \in Nat
  BY OrderFacts, SecretFacts DEF SecretVersion
<1>3. CAOfPass'
  BY <1>2 DEF KeysInv, CAOfPass, SignedByKnownCA, SecretCurrent, SecretCached
<1> QED
  BY <1>1, <1>3 DEF KeysInv

Kept == \A s \in Secret : Intact(s) => SecretCurrent(s)'.serial = SecretCurrent(s).serial

LEMMA NoWriteKeepsKeys ==
    ASSUME UNCHANGED secrets PROVE Kept
  BY DEF Kept, SecretCurrent

(* Key material is generated for one secret, and that one is not intact. *)
LEMMA GenerateKeepsKeys ==
    ASSUME TypeOK, KeysInv, NEW s \in Secret, NEW signer \in Nat, Generate(s, signer),
           Accepted(s) => ~Intact(s),
           s # RootCA => pc = "Secret" /\ signer = Signer(s, ca),
           pc' = "Secret" => pc = "Secret" /\ ca' = ca
    PROVE  KeysInv' /\ Kept
<1>1. CASE UNCHANGED secrets
  BY <1>1, NoWriteKeepsInv, NoWriteKeepsKeys
<1>2. CASE ~UNCHANGED secrets
  <2> DEFINE v == Generated(SecretCurrent(s), signer)
  <2>1. /\ Accepted(s) /\ v \in SecretVersion
        /\ secrets' = [secrets EXCEPT ![s] = Store(@, v)]
    BY <1>2, GenerateFacts
  <2>2. v.signer = signer /\ v.serial = SecretCurrent(s).serial + 1
    BY DEF Generated
  <2>3. SecretCurrent(s).serial \in Nat
    BY SecretFacts DEF SecretVersion
  <2>4. v.serial >= SecretCurrent(s).serial
    BY <2>2, <2>3
  <2>5. KeysInv'
    BY <2>1, <2>2, <2>4, WriteKeepsInv
  <2>6. \A t \in Secret \ {s} : SecretCurrent(t)' = SecretCurrent(t)
    BY <2>1, StoreType DEF SecretCurrent
  <2>7. Kept
    BY <2>1, <2>6 DEF Kept
  <2> QED
    BY <2>5, <2>7
<1> QED
  BY <1>1, <1>2

(* The judgement of a certificate by cached copies: what it finds out of date and
   may replace is not intact. *)
LEMMA JudgedRightly ==
    ASSUME TypeOK, KeysInv, Judged(Order[at]), Accepted(Order[at])
    PROVE  ~Intact(Order[at])
<1> DEFINE s == Order[at]
<1>1. /\ pc = "Secret" /\ s \in Secret \ {RootCA}
      /\ ~SignedSecretUpToDate(s, SecretCached(s), ca)
  BY DEF Judged
<1>2. CASE ~SecretCached(s).exists
  BY <1>2 DEF Accepted, Intact
<1>3. CASE SecretCached(s).exists
  <2>1. SecretCached(s) = SecretCurrent(s)
    BY <1>1, <1>3, SecretFacts DEF Accepted
  <2>2. \/ ~ (Entries \subseteq SecretCurrent(s).keys)
        \/ SecretCurrent(s).signer # Signer(s, ca)
    BY <1>1, <1>3, <2>1 DEF SignedSecretUpToDate, hasKeys
  <2>3. CASE ~ (Entries \subseteq SecretCurrent(s).keys)
    BY <1>1, <2>3 DEF Intact
  <2>4. CASE SecretCurrent(s).signer # Signer(s, ca)
    <3>1. s # ServiceAccountKey /\ SecretCurrent(s).signer # ca.serial
      BY <2>4 DEF KeysInv, ServiceAccountKeyUnsigned, Signer
    <3>2. ca.serial <= SecretCached(RootCA).serial /\ SecretCurrent(s).signer <= ca.serial
      BY <1>1 DEF KeysInv, CAOfPass
    <3>3. SecretCached(RootCA).serial <= SecretCurrent(RootCA).serial
      <4>1. secrets[RootCA] \in Seq(SecretVersion) /\ secrets[RootCA] # <<>>
        BY OrderFacts, SecretFacts
      <4>2. Len(secrets[RootCA]) \in Nat \ {0}
        BY <4>1
      <4> QED
        BY <4>2 DEF KeysInv, RootOrdered, SecretCached, SecretCurrent, Cached, Current
    <3>4. /\ ca.serial \in Nat /\ SecretCurrent(s).signer \in Nat
          /\ SecretCached(RootCA).serial \in Nat /\ SecretCurrent(RootCA).serial \in Nat
      BY <1>1, OrderFacts, SecretFacts DEF SecretVersion, TypeOK, PassOK
    <3>5. SecretCurrent(s).signer # SecretCurrent(RootCA).serial
      BY <3>1, <3>2, <3>3, <3>4
    <3> QED
      BY <1>1, <3>1, <3>5 DEF Intact
  <2> QED
    BY <2>2, <2>3, <2>4
<1> QED
  BY <1>2, <1>3

LEMMA RootJudgedRightly ==
    ASSUME TypeOK, ~KeepsRootCA(SecretCached(RootCA)), Accepted(RootCA)
    PROVE  ~Intact(RootCA)
  BY OrderFacts, SecretFacts DEF Accepted, KeepsRootCA, Intact, hasKeys

LEMMA DeliverKeepsKeys ==
    ASSUME TypeOK, KeysInv, NEW s \in Secret, Deliver(s)
    PROVE  KeysInv' /\ Kept
<1>1. /\ UNCHANGED <<pc, ca>> /\ ~Synced(secrets[s]) /\ secrets'[s] = Tail(secrets[s])
      /\ \A t \in Secret \ {s} : secrets'[t] = secrets[t]
      /\ \A t \in Secret : SecretCurrent(t)' = SecretCurrent(t)
  BY DeliverKeeps
<1>2. Kept
  BY <1>1 DEF Kept
<1>3. RootCA \in Secret /\ ServiceAccountKey \in Secret
  BY OrderFacts
<1>4. RootOrdered' /\ SecretCached(RootCA).serial <= SecretCached(RootCA)'.serial
  <2> DEFINE r == secrets[RootCA]
  <2>1. r \in Seq(SecretVersion) /\ r # <<>>
    BY <1>3, SecretFacts
  <2>2. CASE s = RootCA
    <3>1. /\ Len(r) > 1 /\ Len(Tail(r)) = Len(r) - 1
          /\ \A i \in 1 .. Len(r) - 1 : Tail(r)[i] = r[i + 1]
      BY <1>1, <2>1, <2>2, DeliverFacts
    <3>2. Len(r) \in Nat
      BY <2>1
    <3>3. \A i, j \in 1 .. Len(r) : i <= j => r[i].serial <= r[j].serial
      BY DEF KeysInv, RootOrdered
    <3>4. secrets'[RootCA] = Tail(r)
      BY <1>1, <2>2
    <3>5. \A i, j \in 1 .. Len(Tail(r)) : i <= j => Tail(r)[i].serial <= Tail(r)[j].serial
      BY <3>1, <3>2, <3>3
    <3>6. r[1].serial <= Tail(r)[1].serial
      BY <3>1, <3>2, <3>3
    <3> QED
      BY <3>4, <3>5, <3>6 DEF RootOrdered, SecretCached, Cached
  <2>3. CASE s # RootCA
    <3>1. secrets'[RootCA] = secrets[RootCA] /\ SecretCached(RootCA).serial \in Nat
      BY <1>1, <1>3, <2>3, SecretFacts DEF SecretVersion
    <3> QED
      BY <3>1 DEF KeysInv, RootOrdered, SecretCached
  <2> QED
    BY <2>2, <2>3
<1>5. SecretCached(RootCA)'.serial \in Nat /\ SecretCached(RootCA).serial \in Nat
  <2>1. TypeOK'
    BY DeliverKeeps
  <2>2. \A t \in Seq(SecretVersion) : t # <<>> => Cached(t) \in SecretVersion
    BY StreamEnds
  <2> QED
    BY <1>3, <2>1, <2>2 DEF TypeOK, SecretsOK, SecretCached, SecretVersion
<1>6. /\ \A t \in Secret : SecretCurrent(t).signer \in Nat
      /\ ca.serial \in Nat
  BY SecretFacts DEF SecretVersion, TypeOK, PassOK
<1>7. SignedByKnownCA' /\ CAOfPass' /\ ServiceAccountKeyUnsigned'
  BY <1>1, <1>3, <1>4, <1>5, <1>6
     DEF KeysInv, SignedByKnownCA, CAOfPass, ServiceAccountKeyUnsigned
<1> QED
  BY <1>2, <1>4, <1>7 DEF KeysInv

LEMMA InitKeys == Init => KeysInv
<1> SUFFICES ASSUME Init PROVE KeysInv
  OBVIOUS
<1>1. \A s \in Secret : /\ secrets[s] = <<NoSecret>>
                        /\ SecretCurrent(s) = NoSecret /\ SecretCached(s) = NoSecret
  BY DEF Init, SecretCurrent, SecretCached, Current, Cached
<1>2. RootOrdered
  BY <1>1, OrderFacts DEF RootOrdered, NoSecret
<1> QED
  BY <1>1, <1>2, OrderFacts
     DEF Init, KeysInv, SignedByKnownCA, ServiceAccountKeyUnsigned, CAOfPass, NoSecret

LEMMA StepKeys == TypeOK /\ KeysInv /\ [Next]_vars => KeysInv' /\ Kept
<1> SUFFICES ASSUME TypeOK, KeysInv, [Next]_vars PROVE KeysInv' /\ Kept
  OBVIOUS
<1>1. CASE Start
  BY <1>1, NoWriteKeepsInv, NoWriteKeepsKeys DEF Start
<1>2. CASE ReconcileRootCA
  <2>1. pc' # "Secret" /\ RootCA \in Secret /\ 0 \in Nat
    BY <1>2, ReconcileRootCAFacts, OrderFacts
  <2>2. CASE UNCHANGED secrets
    BY <2>1, <2>2, NoWriteKeepsInv, NoWriteKeepsKeys
  <2>3. CASE ~KeepsRootCA(SecretCached(RootCA)) /\ Generate(RootCA, 0)
    BY <2>1, <2>3, RootJudgedRightly, GenerateKeepsKeys
  <2> QED
    BY <1>2, <2>2, <2>3, ReconcileRootCAFacts
<1>3. CASE ReadCA
  BY <1>3, ReadCAFacts, NoWriteKeepsInv, NoWriteKeepsKeys
<1>4. CASE ReconcileSecret
  <2>1. pc = "Secret" /\ (pc' = "Secret" => ca' = ca)
    BY <1>4, ReconcileSecretFacts
  <2>2. CASE UNCHANGED secrets
    BY <2>1, <2>2, NoWriteKeepsInv, NoWriteKeepsKeys
  <2>3. CASE Judged(Order[at])
    <3>1. /\ Order[at] \in Secret /\ Signer(Order[at], ca) \in Nat
          /\ Generate(Order[at], Signer(Order[at], ca))
      BY <2>3, SignerType DEF Judged
    <3>2. Accepted(Order[at]) => ~Intact(Order[at])
      BY <2>3, JudgedRightly
    <3> QED
      BY <2>1, <3>1, <3>2, GenerateKeepsKeys
  <2> QED
    BY <1>4, <2>2, <2>3, ReconcileSecretFacts
<1>5. ASSUME NEW s \in Secret, Deliver(s) PROVE KeysInv' /\ Kept
  BY <1>5, DeliverKeepsKeys
<1>6. ASSUME NEW s \in Secret,
             UserDeletes(s) \/ \E entry \in Entries : UserRemoves(s, entry)
      PROVE  KeysInv' /\ Kept
  <2>1. UNCHANGED <<pc, ca>>
    BY <1>6, UserFacts
  <2>2. PICK v : UserWrites(s, v)
    BY <1>6, UserFacts
  <2>3. SecretCurrent(s).serial \in Nat
    BY SecretFacts DEF SecretVersion
  <2>4. /\ v \in SecretVersion /\ v.serial = SecretCurrent(s).serial
        /\ v.serial >= SecretCurrent(s).serial
        /\ v.signer \in {0, SecretCurrent(s).signer}
        /\ secrets' = [secrets EXCEPT ![s] = Store(@, v)]
    BY <2>2, <2>3 DEF UserWrites
  <2>5. KeysInv'
    BY <2>1, <2>4, WriteKeepsInv
  <2>6. /\ SecretCurrent(s)' = v
        /\ \A t \in Secret \ {s} : SecretCurrent(t)' = SecretCurrent(t)
    BY <2>4, StoreType DEF SecretCurrent
  <2>7. Kept
    BY <2>4, <2>6 DEF Kept
  <2> QED
    BY <2>5, <2>7
<1>7. CASE Resync
  BY <1>7, NoWriteKeepsInv, NoWriteKeepsKeys DEF Resync
<1>8. CASE Restart
  <2>1. /\ pc' = "idle"
        /\ \A t \in Secret : /\ Len(secrets'[t]) = 1
                             /\ SecretCurrent(t)' = SecretCurrent(t)
                            /\ SecretCached(t)' = SecretCurrent(t)
    BY <1>8, RestartKeeps
  <2>2. Kept
    BY <2>1 DEF Kept
  <2>3. RootCA \in Secret /\ ServiceAccountKey \in Secret
    BY OrderFacts
  <2>4. RootOrdered'
    <3>1. TypeOK' /\ Len(secrets'[RootCA]) = 1
      BY <1>8, <2>1, <2>3, RestartKeeps
    <3>2. SecretCached(RootCA)'.serial \in Nat
      BY <2>1, <2>3, SecretFacts DEF SecretVersion
    <3> QED
      BY <3>1, <3>2 DEF RootOrdered, SecretCached, Cached
  <2>5. SecretCached(RootCA).serial <= SecretCurrent(RootCA).serial
    <3>1. secrets[RootCA] \in Seq(SecretVersion) /\ secrets[RootCA] # <<>>
      BY <2>3, SecretFacts
    <3>2. Len(secrets[RootCA]) \in Nat \ {0}
      BY <3>1
    <3> QED
      BY <3>2 DEF KeysInv, RootOrdered, SecretCached, SecretCurrent, Cached, Current
  <2>6. \A t \in Secret : /\ SecretCurrent(t).signer \in Nat /\ SecretCurrent(t).serial \in Nat
                          /\ SecretCached(t).serial \in Nat
    BY SecretFacts DEF SecretVersion
  <2>7. SignedByKnownCA' /\ ServiceAccountKeyUnsigned' /\ CAOfPass'
    BY <2>1, <2>3, <2>5, <2>6
       DEF KeysInv, SignedByKnownCA, ServiceAccountKeyUnsigned, CAOfPass
  <2> QED
    BY <2>2, <2>4, <2>7 DEF KeysInv
<1>9. CASE UNCHANGED vars
  BY <1>9, NoWriteKeepsInv, NoWriteKeepsKeys DEF vars
<1> QED
  BY <1>1, <1>2, <1>3, <1>4, <1>5, <1>6, <1>7, <1>8, <1>9 DEF Next, Reconcile

(* No pass replaces key material that is in order, whatever its cached copies show:
   the resource version of an update and the order of the root CA's numbers, which
   the pass's copy and every certificate's signer lag behind, see to it. *)
THEOREM PkiKeysKept == SafetySpec => KeysKept
<1>1. Init => TypeOK /\ KeysInv
  BY InitType, InitKeys
<1>2. TypeOK /\ KeysInv /\ [Next]_vars => TypeOK' /\ KeysInv'
  BY StepType, StepKeys
<1>3. TypeOK /\ KeysInv /\ [Next]_vars =>
          [\A s \in Secret : Intact(s) => SecretCurrent(s)'.serial = SecretCurrent(s).serial]_vars
  BY StepKeys DEF Kept
<1> QED
  BY <1>1, <1>2, <1>3, PTL DEF SafetySpec, KeysKept

-----------------------------------------------------------------------------
(* What the derived addresses, ranges and certificates have to do with each other,
   for every range and port. *)

(* The bytes that nextIP increments: a last run of 255s and the byte before. *)
LEMMA IncrementedBytes ==
    ASSUME NEW ip \in Address
    PROVE  /\ 4 \in Incremented(ip)
           /\ 3 \in Incremented(ip) <=> ip[4] = 255
           /\ 2 \in Incremented(ip) <=> ip[4] = 255 /\ ip[3] = 255
           /\ 1 \in Incremented(ip) <=> ip[4] = 255 /\ ip[3] = 255 /\ ip[2] = 255
<1>1. /\ 5 .. 4 = {} /\ 4 .. 4 = {4} /\ 3 .. 4 = {3, 4} /\ 2 .. 4 = {2, 3, 4}
  OBVIOUS
<1>2. 4 \in Incremented(ip)
  BY DEF Incremented
<1>3. 3 \in Incremented(ip) <=> ip[4] = 255
  BY <1>1 DEF Incremented
<1>4. 2 \in Incremented(ip) <=> ip[4] = 255 /\ ip[3] = 255
  BY <1>1 DEF Incremented
<1>5. 1 \in Incremented(ip) <=> ip[4] = 255 /\ ip[3] = 255 /\ ip[2] = 255
  BY <1>1 DEF Incremented
<1> QED
  BY <1>2, <1>3, <1>4, <1>5

(* nextIP, which carries byte by byte by overflow, is the successor of an
   address (kas/certs.go:120): only the last address wraps, to zero. *)
THEOREM NextIPIsSuccessor ==
    ASSUME NEW ip \in Address
    PROVE  /\ nextIP(ip) \in Address
           /\ AddressAsNumber(nextIP(ip)) =
                 IF ip = LastAddress THEN 0 ELSE AddressAsNumber(ip) + 1
<1> DEFINE next == nextIP(ip)
<1>1. \A j \in 1 .. 4 : ip[j] \in 0 .. 255
  BY DEF Address
<1>2. \A b \in 0 .. 255 : (b + 1) % 256 = IF b = 255 THEN 0 ELSE b + 1
  OBVIOUS
<1>3. \A j \in 1 .. 4 : next[j] = IF j \in Incremented(ip) THEN (ip[j] + 1) % 256 ELSE ip[j]
  BY DEF nextIP
<1>4. \A j \in 1 .. 4 : next[j] = IF j \in Incremented(ip)
                                  THEN IF ip[j] = 255 THEN 0 ELSE ip[j] + 1
                                  ELSE ip[j]
  <2> SUFFICES ASSUME NEW j \in 1 .. 4
               PROVE  next[j] = IF j \in Incremented(ip)
                                THEN IF ip[j] = 255 THEN 0 ELSE ip[j] + 1
                                ELSE ip[j]
    OBVIOUS
  <2> HIDE DEF next
  <2>1. (ip[j] + 1) % 256 = IF ip[j] = 255 THEN 0 ELSE ip[j] + 1
    BY <1>1, <1>2
  <2>2. next[j] = IF j \in Incremented(ip) THEN (ip[j] + 1) % 256 ELSE ip[j]
    BY <1>3
  <2> QED
    BY <2>1, <2>2, Zenon
<1>5. next \in Address
  <2>1. \A j \in 1 .. 4 : (IF j \in Incremented(ip) THEN (ip[j] + 1) % 256 ELSE ip[j]) \in 0 .. 255
    BY <1>1, <1>2
  <2> QED
    BY <2>1 DEF nextIP, Address
<1>6. /\ next[4] = IF ip[4] = 255 THEN 0 ELSE ip[4] + 1
      /\ next[3] = IF ip[4] = 255 THEN IF ip[3] = 255 THEN 0 ELSE ip[3] + 1 ELSE ip[3]
      /\ next[2] = IF ip[4] = 255 /\ ip[3] = 255
                   THEN IF ip[2] = 255 THEN 0 ELSE ip[2] + 1 ELSE ip[2]
      /\ next[1] = IF ip[4] = 255 /\ ip[3] = 255 /\ ip[2] = 255
                   THEN IF ip[1] = 255 THEN 0 ELSE ip[1] + 1 ELSE ip[1]
  BY <1>4, IncrementedBytes
<1>7. ip = LastAddress <=> ip[1] = 255 /\ ip[2] = 255 /\ ip[3] = 255 /\ ip[4] = 255
  <2>1. ip = [j \in 1 .. 4 |-> ip[j]]
    BY DEF Address
  <2>2. (\A j \in 1 .. 4 : ip[j] = 255) <=> ip[1] = 255 /\ ip[2] = 255 /\ ip[3] = 255 /\ ip[4] = 255
    OBVIOUS
  <2>3. ip = LastAddress <=> \A j \in 1 .. 4 : ip[j] = 255
    BY <2>1 DEF LastAddress
  <2> QED
    BY <2>2, <2>3
<1>8. AddressAsNumber(next) = IF ip = LastAddress THEN 0 ELSE AddressAsNumber(ip) + 1
  <2>1. AddressAsNumber(next) = 256 * (256 * (256 * next[1] + next[2]) + next[3]) + next[4]
    BY DEF AddressAsNumber
  <2>2. AddressAsNumber(ip) = 256 * (256 * (256 * ip[1] + ip[2]) + ip[3]) + ip[4]
    BY DEF AddressAsNumber
  <2>3. \A j \in 1 .. 4 : ip[j] \in Nat
    BY <1>1
  <2> HIDE DEF next
  <2>4. CASE ip[4] # 255
    BY <1>6, <1>7, <2>1, <2>2, <2>3, <2>4
  <2>5. CASE ip[4] = 255 /\ ip[3] # 255
    BY <1>6, <1>7, <2>1, <2>2, <2>3, <2>5
  <2>6. CASE ip[4] = 255 /\ ip[3] = 255 /\ ip[2] # 255
    BY <1>6, <1>7, <2>1, <2>2, <2>3, <2>6
  <2>7. CASE ip[4] = 255 /\ ip[3] = 255 /\ ip[2] = 255 /\ ip[1] # 255
    BY <1>6, <1>7, <2>1, <2>2, <2>3, <2>7
  <2>8. CASE ip[4] = 255 /\ ip[3] = 255 /\ ip[2] = 255 /\ ip[1] = 255
    BY <1>6, <1>7, <2>1, <2>2, <2>8
  <2> QED
    BY <2>4, <2>5, <2>6, <2>7, <2>8
<1> QED
  BY <1>5, <1>8

(* The address in the API server's certificate lies in the service range, past
   its network address, for every range of at least two addresses: block q of
   the blocks of that size (kas/certs.go:132). *)
THEOREM ServiceAddressInRange ==
    ASSUME NEW network \in Address, NEW size \in Nat, NEW q \in Nat,
           size >= 2, AddressAsNumber(network) = size * q,
           size * q + size <= AddressAsNumber(LastAddress) + 1
    PROVE  /\ firstIP(network) \in KasServerCertificate(network).addresses
           /\ AddressAsNumber(firstIP(network)) = size * q + 1
           /\ AddressAsNumber(firstIP(network)) < size * (q + 1)
<1>1. size * q \in Nat /\ size * (q + 1) = size * q + size
  OBVIOUS
<1>2. network # LastAddress
  <2> SUFFICES ASSUME network = LastAddress PROVE FALSE
    OBVIOUS
  <2>1. AddressAsNumber(LastAddress) = size * q
    OBVIOUS
  <2> HIDE DEF LastAddress
  <2> QED
    BY <1>1, <2>1
<1>3. AddressAsNumber(firstIP(network)) = size * q + 1
  BY <1>2, NextIPIsSuccessor DEF firstIP
<1> QED
  BY <1>1, <1>3 DEF KasServerCertificate, Certificate

(* kcmArgs is called with its arguments in the other order (kcm/deployment.go:79
   and :174): whatever the two ranges are, the controller manager hands nodes pod
   ranges out of the range in which the API server allocates services. *)
THEOREM ControllerManagerRangesSwapped ==
    ASSUME NEW podCIDR, NEW serviceCIDR
    PROVE  /\ KcmDeploymentRanges(podCIDR, serviceCIDR).clusterCIDR
                 = servicesSubnet(serviceCIDR)
           /\ KcmDeploymentRanges(podCIDR, serviceCIDR).serviceClusterIPRange = podCIDR
  BY DEF KcmDeploymentRanges, kcmArgs, servicesSubnet

(* Every connection of the control plane is accepted: the name that is dialled
   is one the server's certificate proves, both certificates may be used so, the
   aggregator's name is one the API server lets through, and a request to the
   Service reaches the port the API server is bound to. *)
THEOREM ConnectionsAccepted ==
    ASSUME NEW network, NEW port
    PROVE  /\ Accepts(EtcdServerCertificate, EtcdUrl.host, EtcdClientCertificate)
           /\ Accepts(KasServerCertificate(network), ServiceKubeconfigUrl(port).host,
                      AdminCertificate)
           /\ Accepts(KasServerCertificate(network), LocalhostKubeconfigUrl(port).host,
                      AdminCertificate)
           /\ AggregatorCertificate.commonName \in requestheaderAllowedNames
           /\ ReconcileService(port, port).port = ServiceKubeconfigUrl(port).port
           /\ ReconcileService(port, port).targetPort = KasBindPort(port)
           /\ LocalhostKubeconfigUrl(port).port = KasBindPort(port)
<1>1. Accepts(EtcdServerCertificate, EtcdUrl.host, EtcdClientCertificate)
  BY DEF Accepts, EtcdServerCertificate, EtcdClientCertificate, Certificate, EtcdUrl
<1>2. /\ Accepts(KasServerCertificate(network), ServiceKubeconfigUrl(port).host, AdminCertificate)
      /\ Accepts(KasServerCertificate(network), LocalhostKubeconfigUrl(port).host, AdminCertificate)
  BY DEF Accepts, KasServerCertificate, AdminCertificate, Certificate,
     ServiceKubeconfigUrl, LocalhostKubeconfigUrl, KasService
<1>3. AggregatorCertificate.commonName \in requestheaderAllowedNames
  BY DEF AggregatorCertificate, Certificate, requestheaderAllowedNames
<1>4. /\ ReconcileService(port, port).port = ServiceKubeconfigUrl(port).port
      /\ ReconcileService(port, port).targetPort = KasBindPort(port)
      /\ LocalhostKubeconfigUrl(port).port = KasBindPort(port)
  BY DEF ReconcileService, ServiceKubeconfigUrl, LocalhostKubeconfigUrl, KasBindPort
<1> QED
  BY <1>1, <1>2, <1>3, <1>4
=============================================================================
