---------------------------- MODULE ReleaseInfo ----------------------------
(***************************************************************************)
(* What is read from a release image: the images of its components, and    *)
(* the versions that its tags report for them, with the labels that such   *)
(* versions are parsed from and written to.                                *)
(*                                                                         *)
(* A component, a semantic version without its build part and a display    *)
(* name are numbers, in the order of their texts; the empty display name   *)
(* is 0.  A label is the sequence of the fields between its commas, and a  *)
(* field that does not parse is Malformed.                                 *)
(***************************************************************************)
EXTENDS Naturals, Sequences, FiniteSets, SequencesExt, FiniteSetsExt

CONSTANTS
    Component, Version, DisplayName,
    Malformed,           \* a field without "=", with a bad key or a bad value
    MaxVersions,         \* bound: fields in a label of versions
    MaxNames,            \* bound: fields in a label of display names
    MaxTags              \* bound: tags in a release

ASSUME InfoAssumption ==
    /\ Component \cup Version \cup DisplayName \subseteq Nat \ {0}
    /\ {MaxVersions, MaxNames, MaxTags} \subseteq Nat

VersionField == [key : Component, version : Version]

NameField == [key : Component, name : DisplayName]

(* A tag without annotations reports nothing, like one with an empty label. *)
Tag ==
    [key : Component,
     versions : SeqOf(VersionField \cup {Malformed}, MaxVersions),
     names : SeqOf(NameField \cup {Malformed}, MaxNames)]

ASSUME MalformedAssumption == Malformed \notin VersionField \cup NameField

VARIABLES
    tags,                \* the ImageStream's tags
    next,                \* the tag that the loop has come to
    combined,            \* the versions reported for each component
    combinedNames,       \* its display names, the empty one included
    errs                 \* the tags whose annotation is invalid

vars == <<tags, next, combined, combinedNames, errs>>

-----------------------------------------------------------------------------
(* Labels. *)

Keys(label) == {label[i].key : i \in DOMAIN label}

(* A later field or tag replaces an earlier one of the same key. *)
Latest(label, k) == SelectLastInSeq(label, LAMBDA f : f.key = k)

(* Without versions there is no error, whatever the display names are. *)
Parses(versions, names) ==
    versions # <<>> => Malformed \notin ToSet(versions) \cup ToSet(names)

(* parseComponentVersionsLabel: versions that differ in their build part only are
   one, and a display name is kept for the components that have a version. *)
Parsed(versions, names) ==
    [k \in Keys(versions) |->
        [version |-> versions[Latest(versions, k)].version,
         name |-> IF k \in Keys(names) THEN names[Latest(names, k)].name ELSE 0]]

OrderedKeys(v) ==
    CHOOSE keys \in SetToSeqs(DOMAIN v) : \A i, j \in DOMAIN keys : i < j => keys[i] < keys[j]

(* Mutant: the last component is left out. *)
VersionLabelCutShort(v) ==
    [i \in 1 .. Cardinality(DOMAIN v) - 1 |->
        [key |-> OrderedKeys(v)[i], version |-> v[OrderedKeys(v)[i]].version]]

VersionLabel(v) ==
    [i \in 1 .. Cardinality(DOMAIN v) |->
        [key |-> OrderedKeys(v)[i], version |-> v[OrderedKeys(v)[i]].version]]

(* The comma is written before a component without a display name is skipped,
   which leaves an empty field; a label that is one empty field is no label. *)
DisplayNameLabel(v) ==
    LET keys == OrderedKeys(v)
        field(k) == IF v[k].name = 0 THEN Malformed ELSE [key |-> k, name |-> v[k].name]
        text == [i \in DOMAIN keys |-> field(keys[i])]
    IN IF text = <<Malformed>> THEN <<>> ELSE text

-----------------------------------------------------------------------------
(* Component images.  Every tag is taken to name an image, as those of a release do. *)

ComponentImages(named) == [k \in Keys(named) |-> named[Latest(named, k)].image]

(* The tags as far as their images go: each tag has one of its own. *)
NamedImages == [i \in DOMAIN tags |-> [key |-> tags[i].key, image |-> i]]

(* Mutant: the added tags come first. *)
DecoratedInFront(named, images) ==
    SetToSeq({[key |-> k, image |-> images[k]] : k \in DOMAIN images}) \o named

(* StaticProviderDecorator. *)
Decorated(named, images) ==
    named \o SetToSeq({[key |-> k, image |-> images[k]] : k \in DOMAIN images})

-----------------------------------------------------------------------------
(* readComponentVersions. *)

Init ==
    /\ tags \in SeqOf(Tag, MaxTags)
    /\ next = 1
    /\ combined = [k \in Component |-> {}]
    /\ combinedNames = [k \in Component |-> {}]
    /\ errs = {}

ReadTag ==
    /\ next <= Len(tags)
    /\ next' = next + 1
    /\ LET t == tags[next]
           all == Parsed(t.versions, t.names)
       IN \/ /\ Parses(t.versions, t.names)
             /\ combined' = [k \in Component |-> combined[k] \cup
                                IF k \in DOMAIN all THEN {all[k].version} ELSE {}]
             /\ combinedNames' = [k \in Component |-> combinedNames[k] \cup
                                IF k \in DOMAIN all THEN {all[k].name} ELSE {}]
             /\ UNCHANGED errs
          \/ /\ ~Parses(t.versions, t.names)
             /\ errs' = errs \cup {next}
             /\ UNCHANGED <<combined, combinedNames>>
    /\ UNCHANGED tags

Next == ReadTag

Spec == Init /\ [][Next]_vars

Done == next > Len(tags)

(* Mutant: display names are not compared. *)
multipleVersions == {k \in Component : Cardinality(combined[k]) > 1}

multiples ==
    {k \in Component : Cardinality(combined[k]) > 1 \/ Cardinality(combinedNames[k]) > 1}

Fails == errs # {} \/ multiples # {}

(* The first in the order of the texts, which is the only one if all is well. *)
out ==
    [k \in {c \in Component : combined[c] # {}} |->
        [version |-> Min(combined[k]), name |-> Min(combinedNames[k])]]

-----------------------------------------------------------------------------
(* Properties. *)

(* What the tags say of component k: its version and display name in each tag
   that parses. *)
Claims(k) ==
    {<<Parsed(tags[i].versions, tags[i].names)[k].version,
       Parsed(tags[i].versions, tags[i].names)[k].name>> :
        i \in {j \in DOMAIN tags : /\ Parses(tags[j].versions, tags[j].names)
                                   /\ k \in Keys(tags[j].versions)}}

(* The loop accepts a release exactly if every tag parses and no two tags differ
   on a component, where having no display name differs from having one, and then
   returns what they agree on, in whatever order the tags come
   (releaseinfo.go:70-143). *)
VersionsAgreed ==
    Done =>
        /\ Fails <=> \/ \E i \in DOMAIN tags : ~Parses(tags[i].versions, tags[i].names)
                     \/ \E k \in Component : Cardinality(Claims(k)) > 1
        /\ ~Fails => \A k \in Component :
              Claims(k) = IF k \in DOMAIN out THEN {<<out[k].version, out[k].name>>} ELSE {}

Valid(label) == Malformed \notin ToSet(label)

(* The label of versions that is written for what was read is valid, and read alone
   gives every component its version again, in whatever order and however often the
   tags named it; with a valid label of display names, all that was read comes back
   (releaseinfo.go:145-199, 236-275). *)
LabelsRoundTrip ==
    Done /\ ~Fails =>
        LET versions == VersionLabel(out)
            names == DisplayNameLabel(out)
        IN /\ Valid(versions)
           /\ Parsed(versions, <<>>) = [k \in DOMAIN out |-> [out[k] EXCEPT !.name = 0]]
           /\ Valid(names) => Parsed(versions, names) = out

(* "DisplayNameLabel formats the ComponentVersions into a valid display name label"
   (releaseinfo.go:256-257). *)
DisplayNameLabelValid == Done /\ ~Fails => Valid(DisplayNameLabel(out))

(* Images that the decorator is given replace those of the release, duplicate tags
   included, and all others stay (static_provider.go:24-45). *)
OverridesWin ==
    \A s \in {c \in SUBSET Component : IsFiniteSet(c)} :
        LET images == [k \in s |-> 0]
            before == ComponentImages(NamedImages)
            after == ComponentImages(Decorated(NamedImages, images))
        IN /\ DOMAIN after = DOMAIN before \cup s
           /\ \A k \in DOMAIN after : after[k] = IF k \in s THEN 0 ELSE before[k]
=============================================================================
