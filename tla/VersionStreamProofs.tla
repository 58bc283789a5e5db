------------------------ MODULE VersionStreamProofs ------------------------
(* What the operations on a stream of versions return and preserve. *)
EXTENDS VersionStream, TLAPS

(* The cache and the API server always have a version to return. *)
LEMMA StreamEnds ==
    ASSUME NEW V, NEW s \in Seq(V), s # <<>>
    PROVE  /\ Len(s) \in Nat /\ Len(s) > 0
           /\ Cached(s) \in V /\ Current(s) \in V
           /\ Cached(s) \in Versions(s) /\ Current(s) \in Versions(s)
           /\ Versions(s) \subseteq V
           /\ Synced(s) => Cached(s) = Current(s)
<1>1. Len(s) \in Nat /\ Len(s) > 0
  OBVIOUS
<1>2. \A i \in 1 .. Len(s) : s[i] \in V
  OBVIOUS
<1> QED
  BY <1>1, <1>2 DEF Cached, Current, Synced, Versions

(* A new version becomes the current one and leaves the cached one alone. *)
LEMMA AppendFacts ==
    ASSUME NEW V, NEW s \in Seq(V), s # <<>>, NEW v \in V
    PROVE  /\ Append(s, v) \in Seq(V) /\ Append(s, v) # <<>>
           /\ Current(Append(s, v)) = v
           /\ Cached(Append(s, v)) = Cached(s)
           /\ Versions(Append(s, v)) \subseteq Versions(s) \cup {v}
           /\ Len(Append(s, v)) = Len(s) + 1
           /\ Append(s, v)[Len(s) + 1] = v
           /\ \A i \in 1 .. Len(s) : Append(s, v)[i] = s[i]
<1>1. /\ Append(s, v) \in Seq(V) /\ Len(Append(s, v)) = Len(s) + 1
      /\ \A i \in 1 .. Len(s) : Append(s, v)[i] = s[i]
      /\ Append(s, v)[Len(s) + 1] = v
  OBVIOUS
<1>2. Len(s) \in Nat /\ Len(s) > 0
  OBVIOUS
<1>3. Append(s, v) # <<>>
  BY <1>1, <1>2
<1>4. Versions(Append(s, v)) \subseteq Versions(s) \cup {v}
  BY <1>1, <1>2 DEF Versions
<1> QED
  BY <1>1, <1>2, <1>3, <1>4 DEF Current, Cached

(* A write becomes the current version and leaves the cached one alone. *)
LEMMA StoreFacts ==
    ASSUME NEW V, NEW s \in Seq(V), s # <<>>, NEW v \in V
    PROVE  /\ Store(s, v) \in Seq(V) /\ Store(s, v) # <<>>
           /\ Current(Store(s, v)) = v
           /\ Cached(Store(s, v)) = Cached(s)
           /\ Versions(Store(s, v)) \subseteq Versions(s) \cup {v}
           /\ Len(Store(s, v)) \in {Len(s), Len(s) + 1}
           /\ \A i \in 1 .. Len(s) : Store(s, v)[i] = s[i]
<1>1. CASE v = Current(s)
  BY <1>1 DEF Store, Versions
<1>2. CASE v # Current(s)
  BY <1>2, AppendFacts DEF Store
<1> QED
  BY <1>1, <1>2

(* Delivering an event shows the cache the next version and stores nothing. *)
LEMMA DeliverFacts ==
    ASSUME NEW V, NEW s \in Seq(V), s # <<>>, ~Synced(s)
    PROVE  /\ Tail(s) \in Seq(V) /\ Tail(s) # <<>>
           /\ Current(Tail(s)) = Current(s)
           /\ Versions(Tail(s)) \subseteq Versions(s)
           /\ Len(s) > 1 /\ Len(Tail(s)) = Len(s) - 1
           /\ \A i \in 1 .. Len(s) - 1 : Tail(s)[i] = s[i + 1]
<1>1. Len(s) \in Nat /\ Len(s) > 1
  BY DEF Synced
<1>2. /\ Tail(s) \in Seq(V) /\ Len(Tail(s)) = Len(s) - 1
      /\ \A i \in 1 .. Len(s) - 1 : Tail(s)[i] = s[i + 1]
  BY <1>1
<1>3. Tail(s) # <<>>
  <2>1. \A t \in Seq(V) : Len(t) = Len(s) - 1 => t # <<>>
    BY <1>1
  <2> QED
    BY <1>2, <2>1
<1> QED
  BY <1>1, <1>2, <1>3 DEF Current, Versions

(* A new list replaces the whole history by the current version. *)
LEMMA RelistFacts ==
    ASSUME NEW V, NEW s \in Seq(V), s # <<>>
    PROVE  /\ Relisted(s) \in Seq(V) /\ Relisted(s) # <<>>
           /\ Current(Relisted(s)) = Current(s)
           /\ Cached(Relisted(s)) = Current(s)
           /\ Len(Relisted(s)) = 1
           /\ Versions(Relisted(s)) \subseteq Versions(s)
<1>1. Current(s) \in V /\ Current(s) \in Versions(s)
  BY StreamEnds
<1> QED
  BY <1>1 DEF Relisted, Current, Cached, Versions
=============================================================================
