--------------------------- MODULE TargetRendering ---------------------------
(***************************************************************************)
(* What ApplyTarget (pkg/bundle/internal/target) writes into one target     *)
(* object, and how it decides from metadata alone that nothing has to be    *)
(* written: TrustBundleHash, needsUpdate, listManagedProperties, binaryData *)
(* and the truststore encoders.                                             *)
(*                                                                          *)
(* SHA-256 is taken to be injective: a hash is the byte string it is made   *)
(* of.  A byte string is a sequence of numbers; the PEM text of a pool, one *)
(* unit in all these strings, is the set of certificates in it.  Truststore *)
(* bytes are what was encoded: the certificates and the parameters.         *)
(***************************************************************************)
EXTENDS Integers, Selection, FiniteSets, SequencesExt, FiniteSetsExt

CONSTANTS
    Keys,           \* keys of the data of the object
    SortedNames,    \* names of annotations and labels, in order
    Inputs,         \* resolved certificates with the Bundle's target spec
    MaxEdits        \* bound: number of changes by users and third parties

\* A certificate: the first eight hex digits of its SHA-256 hash, the other
\* digits, and its subject.
CertType == [prefix : Nat, rest : Nat, subject : Nat]

Names == Range(SortedNames)
Bytes == Seq(Nat)
NoStore == [on |-> FALSE]
NoProfile == ""

ASSUME InputsAssumption ==
    /\ MaxEdits \in Nat
    /\ SortedNames \in Seq(Names)
    /\ \A x \in Inputs :
         /\ x.certs # {} /\ x.certs \subseteq CertType /\ IsFiniteSet(x.certs)
         /\ x.kind \in {"ConfigMap", "Secret"}
         /\ x.key \in Keys
         /\ x.jks # NoStore => x.jks.key \in Keys \ {x.key}
         /\ x.p12 # NoStore => x.p12.key \in Keys \ {x.key}
         /\ x.jks # NoStore /\ x.p12 # NoStore => x.jks.key # x.p12.key
         /\ DOMAIN x.annotations \subseteq Names
         /\ DOMAIN x.labels \subseteq Names

VARIABLES
    in,         \* what the Bundle and its sources ask for
    obj,        \* the target object
    order,      \* the order in which Go iterates over maps in this reconcile
    fresh,      \* nothing has changed since the last reconcile
    edits,      \* changes left
    formats     \* history: the additional formats of the last patch

vars == <<in, obj, order, fresh, edits, formats>>

-----------------------------------------------------------------------------
(* Encoders *)

\* certAlias: eight hex digits and the subject.
CertAlias(c) == <<c.prefix, c.subject>>

\* Certificates() sorts by hash; a later entry with the same alias replaces an
\* earlier one.
LaterCert(c, d) ==
    \/ d.prefix > c.prefix
    \/ d.prefix = c.prefix /\ d.rest > c.rest
JKSEncode(certs, password) ==
    [format |-> "jks", password |-> password,
     certs |-> {c \in certs : ~\E d \in certs : CertAlias(c) = CertAlias(d)
                                             /\ LaterCert(c, d)}]

PKCS12Encode(certs, password, profile) ==
    [format |-> "pkcs12", password |-> password, certs |-> certs,
     encoder |-> IF password = <<>> THEN "Passwordless"
                 ELSE IF profile = NoProfile THEN "LegacyRC2" ELSE profile]

PEM(certs) == [format |-> "pem", certs |-> certs]
Absent == [format |-> "none"]
Other  == [format |-> "other"]

\* binaryData: the entries for the additional formats.
BinaryData(x) ==
    [k \in (IF x.jks.on THEN {x.jks.key} ELSE {}) \cup
           (IF x.p12.on THEN {x.p12.key} ELSE {}) |->
       IF x.p12.on /\ k = x.p12.key
       THEN PKCS12Encode(x.certs, x.p12.password, x.p12.profile)
       ELSE JKSEncode(x.certs, x.jks.password)]

\* The data of the patch, and the field of the object each key goes to.
PatchData(x) ==
    LET bin == BinaryData(x) IN
        [k \in {x.key} \cup DOMAIN bin |->
           IF k \in DOMAIN bin THEN bin[k] ELSE PEM(x.certs)]
PatchField(x, k) ==
    IF x.kind = "ConfigMap" /\ k \in DOMAIN BinaryData(x) THEN "binaryData"
                                                          ELSE "data"

-----------------------------------------------------------------------------
(* Hash *)

\* The names of a map in the order of Go's iteration.
MapKeys(map) ==
    LET names == SelectIn(SortedNames, DOMAIN map) IN
        IF order = "up" THEN names ELSE Reverse(names)
Before(k, l) == \E i, j \in DOMAIN SortedNames :
                    i < j /\ SortedNames[i] = k /\ SortedNames[j] = l
\* slices.Sorted of a list without repetitions.
Sorted(names) ==
    CHOOSE s \in [1..Len(names) -> Range(names)] :
        \A i, j \in 1..Len(names) : i < j => Before(s[i], s[j])
SortedKeys(map) == Sorted(MapKeys(map))
MetadataBytes(map, keys) ==
    FlattenSeq([i \in 1..Len(keys) |-> keys[i] \o map[keys[i]]])

PasswordBytes(x) ==
    (IF x.jks.on THEN x.jks.password ELSE <<>>) \o
    (IF x.p12.on THEN x.p12.password ELSE <<>>)

\* Mutant: without the certificates.
TrustBundleHashNoData(x) ==
    [pem |-> {},
     rest |-> PasswordBytes(x)
              \o MetadataBytes(x.annotations, SortedKeys(x.annotations))
              \o MetadataBytes(x.labels, SortedKeys(x.labels))]

\* TrustBundleHash: PEM text, passwords, then each name with its value, one
\* after the other.
TrustBundleHash(x) ==
    [pem |-> x.certs,
     rest |-> PasswordBytes(x)
              \o MetadataBytes(x.annotations, SortedKeys(x.annotations))
              \o MetadataBytes(x.labels, SortedKeys(x.labels))]
NoHash == [pem |-> {}, rest |-> <<>>]

-----------------------------------------------------------------------------
(* The object *)

NoObject == [exists |-> FALSE, hash |-> NoHash, managed |-> {},
             data |-> [k \in Keys |-> Absent],
             annotations |-> <<>>, labels |-> <<>>]

\* listManagedProperties: keys that trust-manager manages in the fields given.
ListManagedProperties(o, fields) == {m[2] : m \in {p \in o.managed : p[1] \in fields}}

ExpectedProperties(x) ==
    {x.key} \cup (IF x.jks.on THEN {x.jks.key} ELSE {})
            \cup (IF x.p12.on THEN {x.p12.key} ELSE {})

\* Mutant: the managed keys are not compared.
NeedsUpdateHashOnly(o, x) == o.hash # TrustBundleHash(x)

\* needsUpdate (owner and label are as they should be here).
NeedsUpdate(o, x) ==
    \/ o.hash # TrustBundleHash(x)
    \/ ListManagedProperties(o, IF x.kind = "ConfigMap"
                                THEN {"data", "binaryData"} ELSE {"data"})
         # ExpectedProperties(x)

\* Forced server-side apply of the patch that ApplyTarget builds.
Applied(o, x) ==
    LET new == PatchData(x) IN
    [exists |-> TRUE,
     hash |-> TrustBundleHash(x),
     managed |-> {<<PatchField(x, k), k>> : k \in DOMAIN new},
     data |-> [k \in Keys |->
                 IF k \in DOMAIN new THEN new[k]
                 ELSE IF \E m \in o.managed : m[2] = k THEN Absent
                 ELSE o.data[k]],
     annotations |-> x.annotations,
     labels |-> x.labels]

-----------------------------------------------------------------------------

\* The additional formats that a Bundle asks for.
FormatsOf(x) == [jks |-> x.jks, p12 |-> x.p12]

Init ==
    /\ in \in Inputs
    /\ obj = NoObject
    /\ order = "up"
    /\ fresh = FALSE
    /\ edits = MaxEdits
    /\ formats = [jks |-> NoStore, p12 |-> NoStore]

\* The user changes the Bundle or a source; the target kind stays.
Edit ==
    /\ edits > 0
    /\ edits' = edits - 1
    /\ \E x \in Inputs : x.kind = in.kind /\ x # in /\ in' = x
    /\ fresh' = FALSE
    /\ UNCHANGED <<obj, order, formats>>

\* Another client overwrites, adds or removes an entry (in the field where the
\* controller has it, if it has) and is its manager from then on, or it changes
\* the hash annotation.
Tamper ==
    /\ edits > 0
    /\ edits' = edits - 1
    /\ obj.exists
    /\ \/ \E k \in Keys, e \in {Absent, Other} :
            /\ obj.data[k] # e
            /\ obj' = [obj EXCEPT !.data[k] = e,
                                  !.managed = {m \in @ : m[2] # k}]
       \/ obj' = [obj EXCEPT !.hash = NoHash]
    /\ fresh' = FALSE
    /\ UNCHANGED <<in, order, formats>>

\* ApplyTarget.
ApplyTarget ==
    /\ IF obj.exists /\ ~NeedsUpdate(obj, in)
       THEN UNCHANGED <<obj, formats>>
       ELSE obj' = Applied(obj, in) /\ formats' = FormatsOf(in)
    /\ order' \in {"up", "down"}
    /\ fresh' = TRUE
    /\ UNCHANGED <<in, edits>>

Next == Edit \/ Tamper \/ ApplyTarget

Spec == Init /\ [][Next]_vars

-----------------------------------------------------------------------------
(* Properties *)

Aliases(certs) == {CertAlias(c) : c \in certs}

\* After ApplyTarget every key of the Bundle's target holds the certificates of
\* its sources, in whatever format, whoever has changed what before (a JKS store
\* one for each alias).
CertsCurrent ==
    fresh => \A k \in ExpectedProperties(in) :
        /\ obj.data[k].format \in {"pem", "jks", "pkcs12"}
        /\ IF obj.data[k].format = "jks"
           THEN Aliases(obj.data[k].certs) = Aliases(in.certs)
           ELSE obj.data[k].certs = in.certs

\* After ApplyTarget, none of the controller's entries is left under a key that
\* the Bundle does not name.
NothingLeftOver ==
    fresh => \A k \in Keys \ ExpectedProperties(in) :
        obj.data[k] \in {Absent, Other}

\* After ApplyTarget the target needs no update, in whatever order the maps of the
\* template are iterated next: the next ApplyTarget for the same input sends no
\* patch at all, not even one that would change nothing.
Settles == fresh => obj.exists /\ ~NeedsUpdate(obj, in)

\* After ApplyTarget the data of the target is up to date with the Bundle's spec.
DataUpToDate ==
    fresh => \A k \in ExpectedProperties(in) : obj.data[k] = PatchData(in)[k]

\* It is up to date unless the additional formats are no longer those of the last
\* patch: only a change of these can escape the hash and the names of keys.
UpToDateInItsFormats == formats = FormatsOf(in) => DataUpToDate
=============================================================================
