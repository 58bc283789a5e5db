------------------------- MODULE ReleaseInfoProofs -------------------------
(* Theorems about ReleaseInfo, for every release, any number of components,
   versions and display names, and labels of any length. *)
EXTENDS ReleaseInfo, FiniteSetTheorems, TLAPS

-----------------------------------------------------------------------------
(* Numbers, sets and sequences. *)

(* A set of numbers below a bound that has an element has a greatest one. *)
LEMMA GreatestExists ==
    ASSUME NEW n \in Nat, NEW S \in SUBSET (0 .. n), S # {}
    PROVE  \E x \in S : \A y \in S : x >= y
<1> DEFINE T == {m \in Nat : n - m \in S}
<1>1. T \subseteq Nat /\ T # {}
  <2>1. PICK x \in S : TRUE
    OBVIOUS
  <2>2. n - x \in Nat /\ n - (n - x) = x
    BY <2>1
  <2> QED
    BY <2>1, <2>2
<1>2. PICK m \in T : \A y \in T : ~(<<y, m>> \in OpToRel(<, Nat))
  BY <1>1, NatLessThanWellFounded, WFMin
<1>3. \A y \in T : ~(y < m)
  BY <1>2 DEF OpToRel
<1>4. ASSUME NEW y \in S
      PROVE  n - m >= y
  <2>1. y \in 0 .. n /\ m \in Nat
    OBVIOUS
  <2>2. n - y \in T
    BY <2>1
  <2>3. ~(n - y < m)
    BY <1>3, <2>2
  <2> HIDE DEF T
  <2> QED
    BY <2>1, <2>3
<1> QED
  BY <1>2, <1>4

(* The place of the last field of a key, which is the one that counts. *)
LEMMA LatestField ==
    ASSUME NEW label, Len(label) \in Nat, DOMAIN label = 1 .. Len(label),
           NEW k \in Keys(label)
    PROVE  /\ Latest(label, k) \in DOMAIN label
           /\ label[Latest(label, k)].key = k
           /\ \A i \in DOMAIN label : label[i].key = k => i <= Latest(label, k)
<1> DEFINE I == {i \in 1 .. Len(label) : label[i].key = k}
<1>1. I # {} /\ I \in SUBSET (0 .. Len(label))
  BY DEF Keys
<1>2. Max(I) \in I /\ \A y \in I : Max(I) >= y
  BY <1>1, GreatestExists DEF Max
<1>3. Latest(label, k) = Max(I)
  BY <1>1 DEF Latest, SelectLastInSeq
<1> QED
  BY <1>2, <1>3

LEMMA FunctionAsSequence ==
    ASSUME NEW S, NEW n \in Nat, NEW f \in [1 .. n -> S]
    PROVE  f \in Seq(S) /\ Len(f) = n /\ DOMAIN f = 1 .. Len(f)
  OBVIOUS

LEMMA Concatenation ==
    ASSUME NEW S, NEW s \in Seq(S), NEW t \in Seq(S)
    PROVE  /\ Len(s \o t) = Len(s) + Len(t) /\ DOMAIN (s \o t) = 1 .. Len(s) + Len(t)
           /\ \A i \in 1 .. Len(s) : (s \o t)[i] = s[i]
           /\ \A j \in 1 .. Len(t) : (s \o t)[Len(s) + j] = t[j]
  OBVIOUS

(* A finite set has several elements exactly if two of them differ. *)
LEMMA SeveralElements ==
    ASSUME NEW S, IsFiniteSet(S)
    PROVE  Cardinality(S) > 1 <=> \E x, y \in S : x # y
<1>1. Cardinality(S) \in Nat
  BY FS_CardinalityType
<1>2. Cardinality(S) = 0 <=> S = {}
  BY FS_EmptySet
<1>3. Cardinality(S) = 1 <=> \E x : S = {x}
  BY FS_Singleton
<1> QED
  BY <1>1, <1>2, <1>3

(* A set that a function on a finite set produces is finite. *)
LEMMA FiniteRange ==
    ASSUME NEW S, IsFiniteSet(S), NEW f, DOMAIN f = S
    PROVE  IsFiniteSet({f[x] : x \in S})
<1> DEFINE T == {f[x] : x \in S}
<1>1. [x \in S |-> f[x]] \in Surjection(S, T)
  BY DEF Surjection
<1> QED
  BY <1>1, FS_Surjection

-----------------------------------------------------------------------------
(* What a release is made of. *)

LEMMA BoundedSequence ==
    ASSUME NEW S, NEW n \in Nat, NEW s \in SeqOf(S, n)
    PROVE  s \in Seq(S)
<1>1. PICK m \in 0 .. n : s \in [1 .. m -> S]
  BY DEF SeqOf
<1> QED
  BY <1>1

(* The fields of the tags that parse are well-typed. *)
LEMMA TagFacts ==
    ASSUME NEW t \in Tag
    PROVE  /\ Len(t.versions) \in Nat /\ DOMAIN t.versions = 1 .. Len(t.versions)
           /\ Len(t.names) \in Nat /\ DOMAIN t.names = 1 .. Len(t.names)
           /\ Parses(t.versions, t.names) =>
                 /\ \A i \in DOMAIN t.versions : t.versions[i] \in VersionField
                 /\ t.versions # <<>> => \A i \in DOMAIN t.names : t.names[i] \in NameField
<1>1. /\ t.versions \in Seq(VersionField \cup {Malformed})
      /\ t.names \in Seq(NameField \cup {Malformed})
  BY BoundedSequence, InfoAssumption DEF Tag
<1>2. /\ \A i \in DOMAIN t.versions : t.versions[i] \in VersionField \cup {Malformed}
      /\ \A i \in DOMAIN t.names : t.names[i] \in NameField \cup {Malformed}
  BY <1>1
<1>3. ASSUME Parses(t.versions, t.names), t.versions # <<>>
      PROVE  /\ \A i \in DOMAIN t.versions : t.versions[i] \in VersionField
             /\ \A i \in DOMAIN t.names : t.names[i] \in NameField
  <2>1. Malformed \notin ToSet(t.versions) /\ Malformed \notin ToSet(t.names)
    BY <1>3 DEF Parses
  <2> QED
    BY <1>2, <2>1 DEF ToSet
<1>4. t.versions = <<>> => DOMAIN t.versions = {}
  BY <1>1
<1> QED
  BY <1>1, <1>3, <1>4

(* What a tag that parses says of a component that it names. *)
LEMMA ParsedFacts ==
    ASSUME NEW t \in Tag, Parses(t.versions, t.names), NEW k \in Keys(t.versions)
    PROVE  /\ k \in Component
           /\ Parsed(t.versions, t.names)[k].version \in Version
           /\ Parsed(t.versions, t.names)[k].name \in DisplayName \cup {0}
<1>1. t.versions # <<>>
  BY TagFacts DEF Keys
<1>2. /\ Latest(t.versions, k) \in DOMAIN t.versions
      /\ t.versions[Latest(t.versions, k)].key = k
  BY TagFacts, LatestField
<1>3. t.versions[Latest(t.versions, k)] \in VersionField
  BY <1>2, TagFacts
<1>4. k \in Keys(t.names) => t.names[Latest(t.names, k)] \in NameField
  <2>1. k \in Keys(t.names) => Latest(t.names, k) \in DOMAIN t.names
    BY TagFacts, LatestField
  <2> QED
    BY <1>1, <2>1, TagFacts
<1> QED
  BY <1>2, <1>3, <1>4 DEF Parsed, VersionField, NameField

-----------------------------------------------------------------------------
(* What the loop has collected. *)

Fine(i) == Parses(tags[i].versions, tags[i].names)

Said(i, k) == Parsed(tags[i].versions, tags[i].names)[k]

(* The tags up to the n-th that say something of component k. *)
Reporting(n, k) == {i \in 1 .. n : Fine(i) /\ k \in Keys(tags[i].versions)}

InfoInv ==
    /\ tags \in SeqOf(Tag, MaxTags)
    /\ next \in 1 .. Len(tags) + 1
    /\ combined = [k \in Component |-> {Said(i, k).version : i \in Reporting(next - 1, k)}]
    /\ combinedNames = [k \in Component |-> {Said(i, k).name : i \in Reporting(next - 1, k)}]
    /\ errs = {i \in 1 .. next - 1 : ~Fine(i)}

LEMMA TagsTyped ==
    ASSUME tags \in SeqOf(Tag, MaxTags)
    PROVE  /\ Len(tags) \in Nat /\ DOMAIN tags = 1 .. Len(tags)
           /\ \A i \in 1 .. Len(tags) : tags[i] \in Tag
<1>1. tags \in Seq(Tag)
  BY BoundedSequence, InfoAssumption
<1> QED
  BY <1>1

LEMMA InfoInit == Init => InfoInv
<1> SUFFICES ASSUME Init PROVE InfoInv
  OBVIOUS
<1>1. 1 .. next - 1 = {} /\ next \in 1 .. Len(tags) + 1
  BY TagsTyped DEF Init
<1>2. \A k : Reporting(next - 1, k) = {}
  BY <1>1 DEF Reporting
<1> QED
  BY <1>1, <1>2 DEF Init, InfoInv

LEMMA InfoStep == InfoInv /\ [Next]_vars => InfoInv'
<1> SUFFICES ASSUME InfoInv, [Next]_vars PROVE InfoInv'
  OBVIOUS
<1>1. CASE UNCHANGED vars
  BY <1>1 DEF vars, InfoInv, Reporting, Said, Fine
<1>2. CASE ReadTag
  <2> DEFINE t == tags[next]
             all == Parsed(t.versions, t.names)
  <2>1. /\ tags' = tags /\ next' = next + 1 /\ next \in 1 .. Len(tags)
        /\ Len(tags) \in Nat
    BY <1>2, TagsTyped DEF ReadTag, InfoInv
  <2>2. /\ next' - 1 = next
        /\ 1 .. next = (1 .. next - 1) \cup {next}
    BY <2>1
  <2>3. \A i : Fine(i)' = Fine(i)
    BY <2>1 DEF Fine
  <2>4. \A i, k : Said(i, k)' = Said(i, k)
    BY <2>1 DEF Said
  <2>5. \A k : Reporting(next - 1, k)' = Reporting(next, k)
    BY <2>1, <2>2, <2>3 DEF Reporting
  <2>6. ASSUME NEW k
        PROVE  Reporting(next, k) =
                  Reporting(next - 1, k) \cup
                     IF Fine(next) /\ k \in Keys(t.versions) THEN {next} ELSE {}
    BY <2>2 DEF Reporting
  <2>7. errs' = {i \in 1 .. next : ~Fine(i)}
    BY <1>2, <2>2 DEF ReadTag, InfoInv, Fine
  <2>8. \A k : k \in DOMAIN all <=> k \in Keys(t.versions)
    BY DEF Parsed
  <2>9. CASE Fine(next)
    <3>1. /\ combined' = [k \in Component |-> combined[k] \cup
                              IF k \in DOMAIN all THEN {all[k].version} ELSE {}]
          /\ combinedNames' = [k \in Component |-> combinedNames[k] \cup
                              IF k \in DOMAIN all THEN {all[k].name} ELSE {}]
      BY <1>2, <2>9 DEF ReadTag, Fine
    <3>2. ASSUME NEW k \in Component
          PROVE  /\ combined'[k] = {Said(i, k).version : i \in Reporting(next, k)}
                 /\ combinedNames'[k] = {Said(i, k).name : i \in Reporting(next, k)}
      <4>1. /\ combined[k] = {Said(i, k).version : i \in Reporting(next - 1, k)}
            /\ combinedNames[k] = {Said(i, k).name : i \in Reporting(next - 1, k)}
        BY DEF InfoInv
      <4>2. Said(next, k) = all[k]
        BY DEF Said
      <4> HIDE DEF all
      <4>3. CASE k \in Keys(t.versions)
        BY <2>6, <2>8, <2>9, <3>1, <4>1, <4>2, <4>3
      <4>4. CASE k \notin Keys(t.versions)
        BY <2>6, <2>8, <3>1, <4>1, <4>4
      <4> QED
        BY <4>3, <4>4
    <3>3. /\ combined' = [k \in Component |-> {Said(i, k).version : i \in Reporting(next, k)}]
          /\ combinedNames' = [k \in Component |-> {Said(i, k).name : i \in Reporting(next, k)}]
      BY <3>1, <3>2
    <3> QED
      BY <2>1, <2>2, <2>3, <2>4, <2>5, <2>7, <3>3 DEF InfoInv
  <2>10. CASE ~Fine(next)
    <3>1. combined' = combined /\ combinedNames' = combinedNames
      BY <1>2, <2>10 DEF ReadTag, Fine
    <3>2. \A k : Reporting(next, k) = Reporting(next - 1, k)
      BY <2>6, <2>10
    <3> QED
      BY <2>1, <2>2, <2>3, <2>4, <2>5, <2>7, <3>1, <3>2 DEF InfoInv
  <2> QED
    BY <2>9, <2>10
<1> QED
  BY <1>1, <1>2 DEF Next

-----------------------------------------------------------------------------
(* What the tags say, and whether they agree. *)

(* The versions and the display names collected for a component are those of
   what the tags say of it, which is finite. *)
LEMMA Collected ==
    ASSUME InfoInv, Done, NEW k \in Component
    PROVE  /\ IsFiniteSet(Claims(k))
           /\ IsFiniteSet(combined[k]) /\ combined[k] = {c[1] : c \in Claims(k)}
           /\ IsFiniteSet(combinedNames[k]) /\ combinedNames[k] = {c[2] : c \in Claims(k)}
           /\ Claims(k) \in SUBSET (Version \X (DisplayName \cup {0}))
<1> DEFINE R == Reporting(Len(tags), k)
           claim == [i \in R |-> <<Said(i, k).version, Said(i, k).name>>]
<1>1. /\ Len(tags) \in Nat /\ DOMAIN tags = 1 .. Len(tags)
      /\ next - 1 = Len(tags)
  BY TagsTyped DEF InfoInv, Done
<1>2. Claims(k) = {claim[i] : i \in R}
  BY <1>1 DEF Claims, Reporting, Said, Fine
<1>3. IsFiniteSet(R)
  <2>1. R \in SUBSET (1 .. Len(tags))
    BY DEF Reporting
  <2>2. IsFiniteSet(1 .. Len(tags))
    BY <1>1, FS_Interval
  <2> HIDE DEF R
  <2> QED
    BY <2>1, <2>2, FS_Subset
<1>4. /\ combined[k] = {Said(i, k).version : i \in R}
      /\ combinedNames[k] = {Said(i, k).name : i \in R}
  BY <1>1 DEF InfoInv
<1>5. IsFiniteSet(Claims(k))
  <2>1. DOMAIN claim = R
    OBVIOUS
  <2> HIDE DEF R, claim
  <2> QED
    BY <1>2, <1>3, <2>1, FiniteRange
<1>6. combined[k] = {c[1] : c \in Claims(k)} /\ combinedNames[k] = {c[2] : c \in Claims(k)}
  <2>1. \A i \in R : claim[i][1] = Said(i, k).version /\ claim[i][2] = Said(i, k).name
    OBVIOUS
  <2> HIDE DEF R, claim
  <2>2. combined[k] = {claim[i][1] : i \in R} /\ combinedNames[k] = {claim[i][2] : i \in R}
    BY <1>4, <2>1
  <2> QED
    BY <1>2, <2>2
<1>7. IsFiniteSet({[c \in Claims(k) |-> c[1]][x] : x \in Claims(k)})
  BY <1>5, FiniteRange
<1>8. IsFiniteSet({[c \in Claims(k) |-> c[2]][x] : x \in Claims(k)})
  BY <1>5, FiniteRange
<1>9. \A i \in R : claim[i] \in Version \X (DisplayName \cup {0})
  <2>1. \A i \in R : tags[i] \in Tag /\ Fine(i) /\ k \in Keys(tags[i].versions)
    BY <1>1, TagsTyped DEF Reporting, InfoInv
  <2> QED
    BY <2>1, ParsedFacts DEF Fine, Said
<1> QED
  BY <1>2, <1>5, <1>6, <1>7, <1>8, <1>9

(* A component is reported as a multiple exactly if two tags differ on it. *)
LEMMA MultiplesDiffer ==
    ASSUME InfoInv, Done, NEW k \in Component
    PROVE  k \in multiples <=> Cardinality(Claims(k)) > 1
<1>1. k \in multiples <=> \/ \E x, y \in combined[k] : x # y
                          \/ \E x, y \in combinedNames[k] : x # y
  BY Collected, SeveralElements DEF multiples
<1>2. Cardinality(Claims(k)) > 1 <=> \E x, y \in Claims(k) : x # y
  BY Collected, SeveralElements
<1>3. \A x, y \in Claims(k) : x # y <=> x[1] # y[1] \/ x[2] # y[2]
  BY Collected
<1> QED
  BY <1>1, <1>2, <1>3, Collected

(* If there are none, what is returned is what the tags say. *)
LEMMA Returned ==
    ASSUME InfoInv, Done, multiples = {}, NEW k \in Component
    PROVE  /\ k \in DOMAIN out <=> Claims(k) # {}
           /\ k \in DOMAIN out => /\ Claims(k) = {<<out[k].version, out[k].name>>}
                                  /\ out[k] \in [version : Version, name : DisplayName \cup {0}]
<1>1. k \in DOMAIN out <=> Claims(k) # {}
  BY Collected DEF out
<1>2. ASSUME k \in DOMAIN out
      PROVE  /\ Claims(k) = {<<out[k].version, out[k].name>>}
             /\ out[k] \in [version : Version, name : DisplayName \cup {0}]
  <2>1. PICK c \in Claims(k) : TRUE
    BY <1>1, <1>2
  <2>2. Claims(k) = {c}
    BY Collected, MultiplesDiffer, SeveralElements
  <2>3. c = <<c[1], c[2]>> /\ c[1] \in Version /\ c[2] \in DisplayName \cup {0}
    BY Collected
  <2>4. combined[k] = {c[1]} /\ combinedNames[k] = {c[2]}
    BY <2>2, Collected
  <2>5. \A n \in Nat : Min({n}) = n
    BY DEF Min
  <2>6. out[k] = [version |-> c[1], name |-> c[2]]
    BY <1>2, <2>3, <2>4, <2>5, InfoAssumption DEF out
  <2> QED
    BY <2>2, <2>3, <2>6
<1> QED
  BY <1>1, <1>2

LEMMA AgreedOn ==
    ASSUME InfoInv PROVE VersionsAgreed
<1> SUFFICES ASSUME Done PROVE VersionsAgreed
  BY DEF VersionsAgreed
<1>1. errs # {} <=> \E i \in DOMAIN tags : ~Parses(tags[i].versions, tags[i].names)
  <2>1. DOMAIN tags = 1 .. next - 1
    BY TagsTyped DEF InfoInv, Done
  <2> QED
    BY <2>1 DEF InfoInv, Fine
<1>2. multiples # {} <=> \E k \in Component : Cardinality(Claims(k)) > 1
  BY MultiplesDiffer DEF multiples
<1>3. ASSUME ~Fails, NEW k \in Component
      PROVE  Claims(k) = IF k \in DOMAIN out THEN {<<out[k].version, out[k].name>>} ELSE {}
  BY <1>3, Returned DEF Fails
<1> QED
  BY <1>1, <1>2, <1>3 DEF VersionsAgreed, Fails

(* The loop accepts a release exactly if every tag parses and no two tags differ on
   a component, and then returns what they agree on. *)
THEOREM TagsAgree == Spec => []VersionsAgreed
<1>1. Spec => []InfoInv
  BY InfoInit, InfoStep, PTL DEF Spec
<1>2. InfoInv => VersionsAgreed
  BY AgreedOn
<1> QED
  BY <1>1, <1>2, PTL

-----------------------------------------------------------------------------
(* Component images. *)

(* As many different elements as the set has are all of them. *)
LEMMA InjectiveIsOnto ==
    ASSUME NEW S, IsFiniteSet(S), NEW q \in [1 .. Cardinality(S) -> S],
           \A i, j \in 1 .. Cardinality(S) : q[i] = q[j] => i = j
    PROVE  \A x \in S : \E i \in 1 .. Cardinality(S) : q[i] = x
<1> DEFINE n == Cardinality(S)
<1>1. n \in Nat
  BY FS_CardinalityType
<1>2. IsFiniteSet(1 .. n) /\ Cardinality(1 .. n) = n
  BY <1>1, FS_Interval
<1>3. q \in Injection(1 .. n, S)
  BY DEF Injection, IsInjective
<1>4. q \in Surjection(1 .. n, S)
  BY <1>2, <1>3, FS_Injection
<1> QED
  BY <1>4 DEF Surjection

(* The sequence of a finite set has each of its elements. *)
LEMMA SequenceOfSet ==
    ASSUME NEW S, IsFiniteSet(S)
    PROVE  /\ Cardinality(S) \in Nat
           /\ SetToSeq(S) \in [1 .. Cardinality(S) -> S]
           /\ \A x \in S : \E i \in 1 .. Cardinality(S) : SetToSeq(S)[i] = x
<1> DEFINE n == Cardinality(S)
           q == SetToSeq(S)
<1>1. n \in Nat /\ ExistsBijection(1 .. n, S)
  BY FS_CardinalityType
<1>2. \E f \in [1 .. n -> S] : IsInjective(f)
  BY <1>1 DEF ExistsBijection, Bijection, Injection
<1>3. q \in [1 .. n -> S] /\ IsInjective(q)
  BY <1>2 DEF SetToSeq
<1>4. \A i, j \in 1 .. n : q[i] = q[j] => i = j
  BY <1>3 DEF IsInjective
<1> QED
  BY <1>1, <1>3, <1>4, InjectiveIsOnto

(* q has an image for each component of s, and for no other. *)
Covers(q, s) ==
    /\ \A j \in 1 .. Len(q) : q[j].key \in s /\ q[j].image = 0
    /\ \A k \in s : \E j \in 1 .. Len(q) : q[j].key = k

Overridden(both, named, s) ==
    /\ Keys(both) = Keys(named) \cup s
    /\ \A k \in Keys(both) :
          both[Latest(both, k)].image = IF k \in s THEN 0 ELSE named[Latest(named, k)].image

(* What is appended to the named images replaces those of the same key. *)
LEMMA AppendedWins ==
    ASSUME NEW Entry, NEW named \in Seq(Entry), NEW s, NEW q \in Seq(Entry), Covers(q, s)
    PROVE  Overridden(named \o q, named, s)
<1> DEFINE n == Len(named)
           m == Len(q)
           both == named \o q
<1>0. /\ n \in Nat /\ DOMAIN named = 1 .. n
      /\ m \in Nat /\ DOMAIN both = 1 .. n + m /\ Len(both) = n + m
      /\ \A i \in 1 .. n : both[i] = named[i]
      /\ \A j \in 1 .. m : both[n + j] = q[j]
  BY Concatenation
<1> HIDE DEF both
<1>1. \A i \in 1 .. n + m : \/ i \in 1 .. n
                            \/ i - n \in 1 .. m /\ i = n + (i - n)
  BY <1>0
<1>2. \A j \in 1 .. m : n + j \in 1 .. n + m
  BY <1>0
<1>3. /\ \A j \in 1 .. m : q[j].key \in s /\ q[j].image = 0
      /\ \A k \in s : \E j \in 1 .. m : q[j].key = k
  BY DEF Covers
<1>4. Keys(both) = Keys(named) \cup s
  <2>1. ASSUME NEW i \in 1 .. n + m
        PROVE  both[i].key \in Keys(named) \cup s
    <3>1. CASE i \in 1 .. n
      BY <1>0, <3>1 DEF Keys
    <3>2. CASE i - n \in 1 .. m /\ i = n + (i - n)
      <4>1. both[i] = q[i - n]
        BY <1>0, <3>2
      <4> QED
        BY <1>3, <3>2, <4>1
    <3> QED
      BY <1>1, <3>1, <3>2
  <2>2. \A i \in 1 .. n : i \in 1 .. n + m
    BY <1>0
  <2>3. \A k \in Keys(named) : k \in Keys(both)
    BY <1>0, <2>2 DEF Keys
  <2>4. ASSUME NEW k \in s PROVE k \in Keys(both)
    <3>1. PICK j \in 1 .. m : q[j].key = k
      BY <1>3
    <3>2. both[n + j].key = k /\ n + j \in DOMAIN both
      BY <1>0, <1>2, <3>1
    <3> QED
      BY <3>2 DEF Keys
  <2> QED
    <3>1. Keys(both) \subseteq Keys(named) \cup s
      BY <1>0, <2>1 DEF Keys
    <3> QED
      BY <2>3, <2>4, <3>1
<1>5. ASSUME NEW k \in Keys(both)
      PROVE  both[Latest(both, k)].image = IF k \in s THEN 0 ELSE named[Latest(named, k)].image
  <2> DEFINE i == Latest(both, k)
  <2>1. /\ i \in 1 .. n + m /\ both[i].key = k
        /\ \A x \in 1 .. n + m : both[x].key = k => x <= i
    <3>1. Len(both) \in Nat
      BY <1>0
    <3> QED
      BY <1>0, <3>1, LatestField
  <2> HIDE DEF i
  <2>2. CASE k \in s
    <3>1. PICK j \in 1 .. m : q[j].key = k
      BY <1>3, <2>2
    <3>2. n + j <= i
      BY <1>0, <1>2, <2>1, <3>1
    <3>3. i - n \in 1 .. m /\ i = n + (i - n)
      BY <1>0, <2>1, <3>2
    <3>4. both[i] = q[i - n]
      BY <1>0, <3>3
    <3> QED
      BY <1>3, <2>2, <3>3, <3>4 DEF i
  <2>3. CASE k \notin s
    <3>1. i \in 1 .. n
      <4>1. CASE i - n \in 1 .. m /\ i = n + (i - n)
        <5>1. both[i] = q[i - n]
          BY <1>0, <4>1
        <5> QED
          BY <1>3, <2>1, <2>3, <4>1, <5>1
      <4> QED
        BY <1>1, <2>1, <4>1
    <3>2. k \in Keys(named)
      BY <1>4, <2>3
    <3>3. /\ Latest(named, k) \in 1 .. n /\ named[Latest(named, k)].key = k
          /\ \A x \in 1 .. n : named[x].key = k => x <= Latest(named, k)
      BY <1>0, <3>2, LatestField
    <3>4. Latest(named, k) \in 1 .. n + m
      BY <1>0, <3>3
    <3>5. Latest(named, k) <= i
      BY <1>0, <2>1, <3>3, <3>4
    <3>6. i <= Latest(named, k)
      BY <1>0, <2>1, <3>1, <3>3
    <3>7. i = Latest(named, k)
      BY <3>1, <3>3, <3>5, <3>6
    <3> QED
      BY <1>0, <2>3, <3>1, <3>7 DEF i
  <2> QED
    BY <2>2, <2>3
<1> QED
  BY <1>4, <1>5 DEF both, Overridden

LEMMA OverriddenBy ==
    ASSUME tags \in SeqOf(Tag, MaxTags)
    PROVE  OverridesWin
<1> SUFFICES ASSUME NEW s \in SUBSET Component, IsFiniteSet(s)
             PROVE  LET images == [k \in s |-> 0]
                        before == ComponentImages(NamedImages)
                        after == ComponentImages(Decorated(NamedImages, images))
                    IN /\ DOMAIN after = DOMAIN before \cup s
                       /\ \A k \in DOMAIN after : after[k] = IF k \in s THEN 0 ELSE before[k]
  BY DEF OverridesWin
<1> DEFINE images == [k \in s |-> 0]
           field == [k \in s |-> [key |-> k, image |-> 0]]
           E == {field[k] : k \in s}
           m == Cardinality(E)
           q == SetToSeq(E)
           named == NamedImages
           both == Decorated(named, images)
           Entry == [key : Component, image : Nat]
<1>1. /\ named \in Seq(Entry) /\ DOMAIN named = 1 .. Len(named)
      /\ Len(named) \in Nat
  <2>1. \A i \in DOMAIN tags : tags[i].key \in Component
    BY TagsTyped DEF Tag
  <2>2. named \in [1 .. Len(tags) -> Entry]
    BY <2>1, TagsTyped DEF NamedImages
  <2> HIDE DEF named, Entry
  <2> QED
    BY <2>2, TagsTyped, FunctionAsSequence
<1>2. IsFiniteSet(E)
  <2>1. DOMAIN field = s
    OBVIOUS
  <2> HIDE DEF field
  <2> QED
    BY <2>1, FiniteRange
<1>3. /\ m \in Nat /\ q \in [1 .. m -> E]
      /\ \A x \in E : \E j \in 1 .. m : q[j] = x
  <2> HIDE DEF E
  <2> QED
    BY <1>2, SequenceOfSet
<1>4. both = named \o q
  <2>1. {[key |-> k, image |-> images[k]] : k \in DOMAIN images} = E
    OBVIOUS
  <2> QED
    BY <2>1 DEF Decorated
<1>5. E \subseteq [key : s, image : {0}] /\ E \subseteq Entry
  OBVIOUS
<1>6. \A k \in s : \E j \in 1 .. m : q[j].key = k
  <2> SUFFICES ASSUME NEW k \in s PROVE \E j \in 1 .. m : q[j].key = k
    OBVIOUS
  <2>1. field[k] \in E /\ field[k].key = k
    OBVIOUS
  <2> HIDE DEF E, m, q, field
  <2> QED
    BY <1>3, <2>1
<1> HIDE DEF E, m, q, named, both, Entry
<1>7. q \in Seq(Entry) /\ Len(q) = m
  BY <1>3, <1>5, FunctionAsSequence
<1>8. Covers(q, s)
  BY <1>3, <1>5, <1>6, <1>7 DEF Covers
<1>9. Overridden(both, named, s)
  BY <1>1, <1>4, <1>7, <1>8, AppendedWins
<1> QED
  BY <1>9 DEF ComponentImages, Overridden, both, named

(* Images that the decorator is given replace those of the release, however often
   it names them, and all others stay. *)
THEOREM OverridesAlwaysWin == Spec => []OverridesWin
<1>1. Spec => []InfoInv
  BY InfoInit, InfoStep, PTL DEF Spec
<1>2. InfoInv => OverridesWin
  BY OverriddenBy DEF InfoInv
<1> QED
  BY <1>1, <1>2, PTL

-----------------------------------------------------------------------------
(* Labels. *)

(* The elements of a finite set of numbers can be put in order: the place of each
   is the number of those below it. *)
LEMMA InOrder ==
    ASSUME NEW D \in SUBSET Nat, IsFiniteSet(D)
    PROVE  \E s \in SetToSeqs(D) : \A i, j \in DOMAIN s : i < j => s[i] < s[j]
<1> DEFINE n == Cardinality(D)
           below(k) == {x \in D : x < k}
           rank == [k \in D |-> Cardinality(below(k)) + 1]
           s == [i \in 1 .. n |-> CHOOSE k \in D : rank[k] = i]
<1>1. n \in Nat
  BY FS_CardinalityType
<1>2. ASSUME NEW k \in D
      PROVE  IsFiniteSet(below(k)) /\ Cardinality(below(k)) \in Nat /\ Cardinality(below(k)) < n
  <2>1. below(k) \in SUBSET D /\ below(k) # D
    OBVIOUS
  <2> HIDE DEF below
  <2>2. IsFiniteSet(below(k)) /\ Cardinality(below(k)) <= n /\ Cardinality(below(k)) # n
    BY <2>1, FS_Subset
  <2>3. Cardinality(below(k)) \in Nat
    BY <2>2, FS_CardinalityType
  <2> QED
    BY <1>1, <2>2, <2>3
<1>3. ASSUME NEW k \in D, NEW l \in D, k < l
      PROVE  rank[k] < rank[l]
  <2>1. below(k) \in SUBSET below(l) /\ below(k) # below(l)
    <3>1. \A x \in D : x < k => x < l
      BY <1>3
    <3>2. k \in below(l) /\ k \notin below(k)
      BY <1>3
    <3>3. \A x \in below(k) : x \in below(l)
      BY <3>1
    <3> HIDE DEF below
    <3> QED
      BY <3>2, <3>3
  <2> HIDE DEF below
  <2>2. Cardinality(below(k)) <= Cardinality(below(l)) /\ Cardinality(below(k)) # Cardinality(below(l))
    BY <1>2, <2>1, FS_Subset
  <2> QED
    BY <1>2, <2>2
<1>4. rank \in [D -> 1 .. n]
  <2> HIDE DEF below
  <2> QED
    BY <1>1, <1>2
<1> HIDE DEF rank
<1>5. \A k, l \in D : rank[k] = rank[l] => k = l
  <2>1. \A k, l \in D : k < l \/ l < k \/ k = l
    OBVIOUS
  <2>2. \A k \in D : rank[k] \in Nat
    BY <1>4
  <2> QED
    BY <1>3, <2>1, <2>2
<1>6. rank \in Surjection(D, 1 .. n)
  <2>1. IsFiniteSet(1 .. n) /\ Cardinality(1 .. n) = n
    BY <1>1, FS_Interval
  <2>2. rank \in Injection(D, 1 .. n)
    BY <1>4, <1>5 DEF Injection, IsInjective
  <2> QED
    BY <2>1, <2>2, FS_Injection
<1>7. \A i \in 1 .. n : \E k \in D : rank[k] = i
  BY <1>6 DEF Surjection
<1>8. s \in [1 .. n -> D] /\ \A i \in 1 .. n : rank[s[i]] = i
  BY <1>7
<1> HIDE DEF s
<1>9. ASSUME NEW i \in 1 .. n, NEW j \in 1 .. n, i < j
      PROVE  s[i] < s[j]
  <2>1. s[i] \in D /\ s[j] \in D /\ rank[s[i]] = i /\ rank[s[j]] = j
    BY <1>8
  <2> HIDE DEF n
  <2>2. i \in Nat /\ j \in Nat /\ s[i] \in Nat /\ s[j] \in Nat
    <3>1. i \in Nat /\ j \in Nat
      BY <1>1
    <3>2. s[i] \in Nat /\ s[j] \in Nat
      BY <2>1
    <3> QED
      BY <3>1, <3>2
  <2>3. s[j] < s[i] => rank[s[j]] < rank[s[i]]
    BY <1>3, <2>1
  <2>4. ~(j < i) /\ i # j
    BY <1>9, <2>2
  <2>5. ~(s[j] < s[i]) /\ s[i] # s[j]
    BY <2>1, <2>3, <2>4
  <2> QED
    BY <2>2, <2>5
<1>10. \A i, j \in 1 .. n : i # j => s[i] # s[j]
  BY <1>8
<1>11. s \in SetToSeqs(D)
  BY <1>8, <1>10 DEF SetToSeqs
<1> QED
  BY <1>8, <1>9, <1>11

LEMMA OrderedKeysFacts ==
    ASSUME NEW v, DOMAIN v \in SUBSET Nat, IsFiniteSet(DOMAIN v)
    PROVE  /\ Cardinality(DOMAIN v) \in Nat
           /\ OrderedKeys(v) \in [1 .. Cardinality(DOMAIN v) -> DOMAIN v]
           /\ \A i, j \in 1 .. Cardinality(DOMAIN v) : OrderedKeys(v)[i] = OrderedKeys(v)[j] => i = j
           /\ \A k \in DOMAIN v : \E i \in 1 .. Cardinality(DOMAIN v) : OrderedKeys(v)[i] = k
<1> DEFINE n == Cardinality(DOMAIN v)
           keys == OrderedKeys(v)
<1>1. n \in Nat
  BY FS_CardinalityType
<1>2. keys \in SetToSeqs(DOMAIN v)
  BY InOrder DEF OrderedKeys
<1>3. keys \in [1 .. n -> DOMAIN v] /\ \A i, j \in 1 .. n : keys[i] = keys[j] => i = j
  BY <1>2 DEF SetToSeqs
<1> HIDE DEF keys
<1>4. \A k \in DOMAIN v : \E i \in 1 .. n : keys[i] = k
  BY <1>3, InjectiveIsOnto
<1> QED
  BY <1>1, <1>3, <1>4 DEF keys

(* Components that were read, with their versions and display names. *)
Readable(v) ==
    /\ IsFiniteSet(DOMAIN v) /\ DOMAIN v \subseteq Component
    /\ v \in [DOMAIN v -> [version : Version, name : DisplayName \cup {0}]]

LEMMA ReadableKeys ==
    ASSUME NEW v, Readable(v)
    PROVE  DOMAIN v \in SUBSET Nat /\ IsFiniteSet(DOMAIN v)
  BY InfoAssumption DEF Readable

(* What is parsed from the label of versions. *)
LEMMA VersionLabelFacts ==
    ASSUME NEW v, Readable(v)
    PROVE  /\ VersionLabel(v) = <<>> <=> DOMAIN v = {}
           /\ Malformed \notin ToSet(VersionLabel(v))
           /\ Keys(VersionLabel(v)) = DOMAIN v
           /\ \A k \in DOMAIN v :
                 VersionLabel(v)[Latest(VersionLabel(v), k)].version = v[k].version
<1> DEFINE n == Cardinality(DOMAIN v)
           keys == OrderedKeys(v)
           label == VersionLabel(v)
<1>1. /\ n \in Nat /\ keys \in [1 .. n -> DOMAIN v]
      /\ \A k \in DOMAIN v : \E i \in 1 .. n : keys[i] = k
  BY ReadableKeys, OrderedKeysFacts
<1> HIDE DEF keys
<1>2. label = [i \in 1 .. n |-> [key |-> keys[i], version |-> v[keys[i]].version]]
  BY DEF VersionLabel, keys
<1>3. \A i \in 1 .. n : /\ keys[i] \in DOMAIN v /\ keys[i] \in Component
                        /\ v[keys[i]].version \in Version
  BY <1>1 DEF Readable
<1>4. label \in [1 .. n -> VersionField]
  BY <1>2, <1>3 DEF VersionField
<1> HIDE DEF label
<1>5. Len(label) = n /\ DOMAIN label = 1 .. n /\ label \in Seq(VersionField)
  BY <1>1, <1>4, FunctionAsSequence
<1>6. label = <<>> <=> DOMAIN v = {}
  <2>1. n = 0 <=> DOMAIN v = {}
    BY ReadableKeys, FS_EmptySet
  <2>2. label = <<>> <=> Len(label) = 0
    BY <1>5
  <2> QED
    BY <1>5, <2>1, <2>2
<1>7. Malformed \notin ToSet(label)
  BY <1>4, <1>5, MalformedAssumption DEF ToSet
<1>8. Keys(label) = DOMAIN v
  <2>1. Keys(label) = {keys[i] : i \in 1 .. n}
    BY <1>2, <1>5 DEF Keys
  <2> QED
    BY <1>1, <2>1
<1>9. ASSUME NEW k \in DOMAIN v
      PROVE  label[Latest(label, k)].version = v[k].version
  <2>1. Latest(label, k) \in 1 .. n /\ label[Latest(label, k)].key = k
    BY <1>1, <1>5, <1>8, LatestField
  <2> QED
    BY <1>2, <2>1
<1> QED
  BY <1>6, <1>7, <1>8, <1>9 DEF label

Named(v, k) == v[k].name # 0

(* The fields of the label of display names, before one that is empty is dropped. *)
NameText(v) ==
    [i \in 1 .. Cardinality(DOMAIN v) |->
        IF Named(v, OrderedKeys(v)[i])
        THEN [key |-> OrderedKeys(v)[i], name |-> v[OrderedKeys(v)[i]].name]
        ELSE Malformed]

LEMMA NameTextFacts ==
    ASSUME NEW v, Readable(v)
    PROVE  /\ Cardinality(DOMAIN v) \in Nat
           /\ NameText(v) \in Seq(NameField \cup {Malformed})
           /\ Len(NameText(v)) = Cardinality(DOMAIN v)
           /\ DOMAIN NameText(v) = 1 .. Cardinality(DOMAIN v)
           /\ DisplayNameLabel(v) = IF NameText(v) = <<Malformed>> THEN <<>> ELSE NameText(v)
<1> DEFINE n == Cardinality(DOMAIN v)
           keys == OrderedKeys(v)
           text == NameText(v)
<1>1. n \in Nat /\ keys \in [1 .. n -> DOMAIN v]
  BY ReadableKeys, OrderedKeysFacts
<1>2. DisplayNameLabel(v) = IF text = <<Malformed>> THEN <<>> ELSE text
  <2>1. DOMAIN keys = 1 .. n
    BY <1>1
  <2> QED
    BY <2>1 DEF DisplayNameLabel, NameText, Named
<1> HIDE DEF keys
<1>3. text = [i \in 1 .. n |-> IF Named(v, keys[i])
                             THEN [key |-> keys[i], name |-> v[keys[i]].name] ELSE Malformed]
  BY DEF NameText, keys
<1>4. \A i \in 1 .. n : /\ keys[i] \in Component
                        /\ Named(v, keys[i]) => v[keys[i]].name \in DisplayName
  BY <1>1 DEF Readable, Named
<1>5. text \in [1 .. n -> NameField \cup {Malformed}]
  <2>1. ASSUME NEW i \in 1 .. n, Named(v, keys[i])
        PROVE  [key |-> keys[i], name |-> v[keys[i]].name] \in NameField
    BY <1>4, <2>1 DEF NameField
  <2> HIDE DEF n, text
  <2> QED
    BY <1>3, <2>1
<1> HIDE DEF text
<1>6. text \in Seq(NameField \cup {Malformed}) /\ Len(text) = n /\ DOMAIN text = 1 .. n
  BY <1>1, <1>5, FunctionAsSequence
<1> QED
  BY <1>1, <1>2, <1>6 DEF text

(* If all have a display name, it is what is parsed from their label. *)
LEMMA AllNamed ==
    ASSUME NEW v, Readable(v), \A k \in DOMAIN v : Named(v, k)
    PROVE  LET label == DisplayNameLabel(v)
           IN /\ Malformed \notin ToSet(label)
              /\ Keys(label) = DOMAIN v
              /\ \A k \in DOMAIN v : label[Latest(label, k)].name = v[k].name
<1> DEFINE n == Cardinality(DOMAIN v)
           keys == OrderedKeys(v)
           text == NameText(v)
<1>1. /\ n \in Nat /\ keys \in [1 .. n -> DOMAIN v]
      /\ \A k \in DOMAIN v : \E i \in 1 .. n : keys[i] = k
  BY ReadableKeys, OrderedKeysFacts
<1>2. \A i \in 1 .. n : text[i] = [key |-> keys[i], name |-> v[keys[i]].name]
  BY <1>1 DEF NameText
<1>3. \A i \in 1 .. n : text[i] # Malformed
  <2>1. \A i \in 1 .. n : keys[i] \in Component /\ v[keys[i]].name \in DisplayName
    BY <1>1 DEF Readable, Named
  <2> HIDE DEF keys, text
  <2>2. ASSUME NEW i \in 1 .. n PROVE text[i] \in NameField
    <3>1. text[i] = [key |-> keys[i], name |-> v[keys[i]].name]
      BY <1>2
    <3> QED
      BY <2>1, <3>1 DEF NameField
  <2> QED
    BY <2>2, MalformedAssumption
<1> HIDE DEF keys, text
<1>4. Len(text) = n /\ DOMAIN text = 1 .. n
  BY NameTextFacts DEF text
<1>5. text # <<Malformed>>
  <2>1. text = <<Malformed>> => Len(text) = 1 /\ text[1] = Malformed
    OBVIOUS
  <2> QED
    BY <1>3, <1>4, <2>1
<1>6. DisplayNameLabel(v) = text
  BY <1>5, NameTextFacts DEF text
<1>7. Malformed \notin ToSet(text)
  BY <1>3, <1>4 DEF ToSet
<1>8. Keys(text) = DOMAIN v
  <2>1. Keys(text) = {keys[i] : i \in 1 .. n}
    BY <1>2, <1>4 DEF Keys
  <2> QED
    BY <1>1, <2>1
<1>9. ASSUME NEW k \in DOMAIN v
      PROVE  text[Latest(text, k)].name = v[k].name
  <2> DEFINE i == Latest(text, k)
  <2>1. i \in 1 .. n /\ text[i].key = k
    BY <1>1, <1>4, <1>8, LatestField
  <2> HIDE DEF i
  <2>2. text[i] = [key |-> keys[i], name |-> v[keys[i]].name]
    BY <1>2, <2>1
  <2>3. text[i].key = keys[i] /\ text[i].name = v[keys[i]].name
    BY <2>2
  <2> QED
    BY <2>1, <2>3 DEF i
<1> QED
  BY <1>6, <1>7, <1>8, <1>9

(* If one of several has none, its field is empty; if the only one has none, there
   is no label. *)
LEMMA SomeUnnamed ==
    ASSUME NEW v, Readable(v), NEW k \in DOMAIN v, ~Named(v, k)
    PROVE  IF Cardinality(DOMAIN v) = 1 THEN DisplayNameLabel(v) = <<>>
           ELSE Malformed \in ToSet(DisplayNameLabel(v))
<1> DEFINE n == Cardinality(DOMAIN v)
           keys == OrderedKeys(v)
           text == NameText(v)
<1>1. PICK i \in 1 .. n : keys[i] = k
  BY ReadableKeys, OrderedKeysFacts
<1>2. text[i] = Malformed
  BY <1>1 DEF NameText
<1> HIDE DEF keys, text
<1>3. /\ n \in Nat /\ Len(text) = n /\ DOMAIN text = 1 .. n
      /\ text \in Seq(NameField \cup {Malformed})
      /\ DisplayNameLabel(v) = IF text = <<Malformed>> THEN <<>> ELSE text
  BY NameTextFacts DEF text
<1>4. CASE n = 1
  <2>1. text[1] = Malformed
    BY <1>1, <1>2, <1>4
  <2>2. text = <<Malformed>>
    BY <1>3, <1>4, <2>1
  <2> QED
    BY <1>3, <1>4, <2>2
<1>5. CASE n # 1
  <2>1. Len(<<Malformed>>) = 1
    OBVIOUS
  <2>2. text # <<Malformed>>
    BY <1>3, <1>5, <2>1
  <2> QED
    BY <1>2, <1>3, <1>5, <2>2 DEF ToSet
<1> QED
  BY <1>4, <1>5

(* The labels give back what was read, if the one of display names is valid. *)
LEMMA ReadBack ==
    ASSUME NEW v, Readable(v)
    PROVE  LET versions == VersionLabel(v)
               names == DisplayNameLabel(v)
           IN /\ Valid(versions)
              /\ Parsed(versions, <<>>) = [k \in DOMAIN v |-> [v[k] EXCEPT !.name = 0]]
              /\ Valid(names) => Parsed(versions, names) = v
<1> DEFINE versions == VersionLabel(v)
           names == DisplayNameLabel(v)
<1>1. /\ Malformed \notin ToSet(versions)
      /\ Keys(versions) = DOMAIN v
      /\ \A k \in DOMAIN v : versions[Latest(versions, k)].version = v[k].version
  BY VersionLabelFacts
<1> HIDE DEF versions
<1>2. \A k \in DOMAIN v : v[k] = [version |-> v[k].version, name |-> v[k].name]
  BY DEF Readable
<1>3. v = [k \in DOMAIN v |-> v[k]]
  BY DEF Readable
<1>4. Keys(<<>>) = {}
  BY DEF Keys
<1>5. Parsed(versions, <<>>) = [k \in DOMAIN v |-> [v[k] EXCEPT !.name = 0]]
  <2>1. \A k \in DOMAIN v : [v[k] EXCEPT !.name = 0] = [version |-> v[k].version, name |-> 0]
    BY <1>2
  <2> QED
    BY <1>1, <1>4, <2>1 DEF Parsed
<1>6. CASE \A k \in DOMAIN v : v[k].name # 0
  <2>1. /\ Keys(names) = DOMAIN v
        /\ \A k \in DOMAIN v : names[Latest(names, k)].name = v[k].name
    BY <1>6, AllNamed DEF Named
  <2> HIDE DEF names
  <2>2. Parsed(versions, names) = [k \in DOMAIN v |-> v[k]]
    BY <1>1, <1>2, <2>1 DEF Parsed
  <2> QED
    BY <1>1, <1>3, <1>5, <2>2 DEF versions, names, Valid
<1>7. ASSUME NEW u \in DOMAIN v, v[u].name = 0, Valid(names)
      PROVE  Parsed(versions, names) = v
  <2>1. names = <<>> /\ Cardinality(DOMAIN v) = 1
    BY <1>7, SomeUnnamed DEF Named, Valid
  <2> HIDE DEF names
  <2>2. DOMAIN v = {u}
    <3>1. IsFiniteSet(DOMAIN v) /\ Cardinality(DOMAIN v) = 1
      BY <2>1, ReadableKeys
    <3>2. PICK x : DOMAIN v = {x}
      BY <3>1, FS_Singleton
    <3> QED
      BY <1>7, <3>2
  <2>3. Parsed(versions, names) = [k \in DOMAIN v |-> v[k]]
    BY <1>1, <1>2, <1>4, <1>7, <2>1, <2>2 DEF Parsed
  <2> QED
    BY <1>3, <2>3
<1> QED
  BY <1>1, <1>5, <1>6, <1>7 DEF versions, Valid

(* Finitely many components are read, with what the tags say of them. *)
LEMMA OutReadable ==
    ASSUME InfoInv, Done, ~Fails
    PROVE  Readable(out)
<1> DEFINE n == Len(tags)
           named == [i \in {j \in 1 .. n : Fine(j)} |-> Keys(tags[i].versions)]
           All == UNION {named[i] : i \in {j \in 1 .. n : Fine(j)}}
<1>1. n \in Nat /\ DOMAIN tags = 1 .. n /\ \A i \in 1 .. n : tags[i] \in Tag
  BY TagsTyped DEF InfoInv
<1>2. \A i \in 1 .. n : IsFiniteSet(Keys(tags[i].versions))
  <2> SUFFICES ASSUME NEW i \in 1 .. n PROVE IsFiniteSet(Keys(tags[i].versions))
    OBVIOUS
  <2> DEFINE label == tags[i].versions
             key == [j \in 1 .. Len(label) |-> label[j].key]
  <2>1. Len(label) \in Nat /\ DOMAIN label = 1 .. Len(label)
    BY <1>1, TagFacts
  <2> HIDE DEF label
  <2>2. IsFiniteSet(1 .. Len(label))
    BY <2>1, FS_Interval
  <2>3. Keys(label) = {key[j] : j \in 1 .. Len(label)} /\ DOMAIN key = 1 .. Len(label)
    BY <2>1 DEF Keys
  <2> HIDE DEF key
  <2>4. IsFiniteSet(Keys(label))
    BY <2>2, <2>3, FiniteRange
  <2> QED
    BY <2>4 DEF label
<1>3. IsFiniteSet(All)
  <2> DEFINE R == {j \in 1 .. n : Fine(j)}
  <2>1. IsFiniteSet(1 .. n) /\ R \in SUBSET (1 .. n)
    BY <1>1, FS_Interval
  <2> HIDE DEF R
  <2>2. IsFiniteSet(R)
    BY <2>1, FS_Subset
  <2>3. DOMAIN named = R /\ \A i \in R : IsFiniteSet(named[i])
    BY <1>2, <2>1 DEF R
  <2> HIDE DEF named
  <2>4. IsFiniteSet({named[i] : i \in R})
    BY <2>2, <2>3, FiniteRange
  <2>5. IsFiniteSet(UNION {named[i] : i \in R})
    BY <2>3, <2>4, FS_UNION
  <2> QED
    BY <2>5 DEF R
<1>4. multiples = {}
  BY DEF Fails
<1>5. DOMAIN out \subseteq Component
  BY DEF out
<1>6. \A k \in DOMAIN out : Claims(k) # {}
  BY <1>4, <1>5, Returned
<1>7. DOMAIN out \in SUBSET All
  BY <1>1, <1>6 DEF Claims, Fine
<1>8. IsFiniteSet(DOMAIN out)
  <2> HIDE DEF All
  <2> QED
    BY <1>3, <1>7, FS_Subset
<1>9. \A k \in DOMAIN out : out[k] \in [version : Version, name : DisplayName \cup {0}]
  BY <1>4, <1>5, Returned
<1>10. out = [k \in DOMAIN out |-> out[k]]
  BY DEF out
<1> QED
  BY <1>5, <1>8, <1>9, <1>10 DEF Readable

(* The label of versions that is written for what was read is valid and gives the
   versions back, and with a valid label of display names all comes back. *)
THEOREM LabelsReadBack == Spec => []LabelsRoundTrip
<1>1. Spec => []InfoInv
  BY InfoInit, InfoStep, PTL DEF Spec
<1>2. InfoInv => LabelsRoundTrip
  <2> SUFFICES ASSUME InfoInv, Done, ~Fails PROVE LabelsRoundTrip
    BY DEF LabelsRoundTrip
  <2>1. Readable(out)
    BY OutReadable
  <2> QED
    BY <2>1, ReadBack DEF LabelsRoundTrip
<1> QED
  BY <1>1, <1>2, PTL
=============================================================================
