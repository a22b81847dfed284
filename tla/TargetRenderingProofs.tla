----------------------- MODULE TargetRenderingProofs ------------------------
(***************************************************************************)
(* Proofs about TargetRendering, for every set of keys, every set of inputs *)
(* and any number of changes.                                               *)
(***************************************************************************)
EXTENDS TargetRendering, SelectionProofs, FiniteSetTheorems, TLAPS

-----------------------------------------------------------------------------
(* The inductive invariant *)

\* An entry made from a pool of certificates, in whatever format.
Holds(d, certs) ==
    /\ d.format \in {"pem", "jks", "pkcs12"}
    /\ IF d.format = "jks" THEN Aliases(d.certs) = Aliases(certs) ELSE d.certs = certs

ObjectShape ==
    /\ in \in Inputs
    /\ DOMAIN obj = {"exists", "hash", "managed", "data", "annotations", "labels"}
    /\ DOMAIN obj.data = Keys
    /\ ~obj.exists => obj = NoObject

\* Every entry under a manager's name that the hash annotation tells the content
\* of is of that content, in a field that listManagedProperties looks at.
ManagedIsHashed ==
    \A m \in obj.managed :
        /\ m[1] \in IF in.kind = "ConfigMap" THEN {"data", "binaryData"} ELSE {"data"}
        /\ m[2] \in Keys
        /\ obj.hash.pem # {} => Holds(obj.data[m[2]], obj.hash.pem)

\* What trust-manager has written it still manages, until another client takes it.
OursIsManaged ==
    \A k \in Keys : obj.data[k] \notin {Absent, Other} => \E m \in obj.managed : m[2] = k

Rendered ==
    /\ ObjectShape /\ ManagedIsHashed /\ OursIsManaged
    /\ CertsCurrent /\ NothingLeftOver

-----------------------------------------------------------------------------
(* The JKS store *)

LEMMA LaterIsAnOrder ==
    ASSUME NEW c \in CertType, NEW d \in CertType, NEW e \in CertType
    PROVE  /\ ~LaterCert(c, c)
           /\ LaterCert(c, d) /\ LaterCert(d, e) => LaterCert(c, e)
BY DEF CertType, LaterCert

\* One of finitely many certificates comes last: else take the smallest set in
\* which none does, and remove an element.
LEMMA LatestCert ==
    ASSUME NEW C, C \subseteq CertType, IsFiniteSet(C), C # {}
    PROVE  \E c \in C : \A d \in C : ~LaterCert(c, d)
<1> DEFINE Endless(S) == /\ S \subseteq CertType /\ IsFiniteSet(S) /\ S # {}
                         /\ \A c \in S : \E d \in S : LaterCert(c, d)
           sizes == {n \in Nat : \E S : Endless(S) /\ Cardinality(S) = n}
<1> SUFFICES ASSUME Endless(C) PROVE FALSE
  OBVIOUS
<1>1. Cardinality(C) \in sizes
  BY FS_CardinalityType
<1>2. PICK n \in sizes : \A m \in sizes : n <= m
  <2> HIDE DEF sizes
  <2>1. sizes \subseteq Nat
    BY DEF sizes
  <2> QED BY <1>1, <2>1, LeastNatural
<1>3. PICK S : Endless(S) /\ Cardinality(S) = n
  BY <1>2
<1>4. PICK x : x \in S
  BY <1>3
<1> DEFINE R == S \ {x}
<1>5. IsFiniteSet(R) /\ Cardinality(R) = n - 1 /\ R \subseteq CertType
  BY <1>3, <1>4, FS_RemoveElement
<1>6. ~Endless(R)
  <2>1. n \in Nat /\ Cardinality(R) \in Nat
    BY <1>2, <1>5, FS_CardinalityType
  <2>2. Cardinality(R) \notin sizes
    <3> HIDE DEF sizes, R
    <3> QED BY <1>2, <1>5, <2>1
  <2> QED BY <2>1, <2>2
<1>7. CASE R = {}
  <2>1. S = {x}
    BY <1>4, <1>7
  <2> QED BY <1>3, <2>1, LaterIsAnOrder
<1>8. CASE R # {}
  <2>1. PICK c \in R : \A d \in R : ~LaterCert(c, d)
    BY <1>5, <1>6, <1>8
  <2>2. c \in CertType /\ x \in CertType /\ c \in S
    BY <1>3, <1>4, <2>1
  <2>3. LaterCert(c, x)
    BY <1>3, <2>1, <2>2
  <2>4. PICK d \in S : LaterCert(x, d)
    BY <1>3, <1>4
  <2>5. d \in CertType
    BY <1>3
  <2>6. LaterCert(c, d) /\ d # x
    BY <2>2, <2>3, <2>4, <2>5, LaterIsAnOrder
  <2> QED BY <2>1, <2>4, <2>6
<1> QED BY <1>7, <1>8

\* A JKS store has an entry for each alias.
LEMMA JKSKeepsAliases ==
    ASSUME NEW certs, certs \subseteq CertType, IsFiniteSet(certs), NEW password
    PROVE  Aliases(JKSEncode(certs, password).certs) = Aliases(certs)
<1> DEFINE kept == {c \in certs : ~\E d \in certs : CertAlias(c) = CertAlias(d) /\ LaterCert(c, d)}
<1>1. JKSEncode(certs, password).certs = kept
  BY DEF JKSEncode
<1>2. ASSUME NEW c \in certs
      PROVE  \E k \in kept : CertAlias(k) = CertAlias(c)
  <2> DEFINE same == {d \in certs : CertAlias(d) = CertAlias(c)}
  <2>1. same \subseteq CertType /\ IsFiniteSet(same) /\ same # {}
    BY FS_Subset
  <2> HIDE DEF same
  <2>2. PICK k \in same : \A d \in same : ~LaterCert(k, d)
    BY <2>1, LatestCert
  <2> QED BY <2>2 DEF same
<1> QED BY <1>1, <1>2 DEF Aliases

-----------------------------------------------------------------------------
(* The patch *)

\* The patch has an entry of the right certificates for each key of the target,
\* and for no other.
LEMMA PatchIsCurrent ==
    ASSUME NEW x \in Inputs
    PROVE  /\ DOMAIN PatchData(x) = ExpectedProperties(x)
           /\ ExpectedProperties(x) \subseteq Keys
           /\ \A k \in ExpectedProperties(x) : Holds(PatchData(x)[k], x.certs)
<1> DEFINE bin == BinaryData(x)
           stores == (IF x.jks.on THEN {x.jks.key} ELSE {})
                     \cup (IF x.p12.on THEN {x.p12.key} ELSE {})
<1>1. DOMAIN bin = stores
  BY DEF BinaryData
<1>2. \A k \in stores : \/ bin[k] = PKCS12Encode(x.certs, x.p12.password, x.p12.profile)
                       \/ bin[k] = JKSEncode(x.certs, x.jks.password)
  BY DEF BinaryData
<1>3. \A p, q : Holds(PKCS12Encode(x.certs, p, q), x.certs)
  BY DEF Holds, PKCS12Encode
<1>4. \A p : Holds(JKSEncode(x.certs, p), x.certs)
  <2>1. x.certs \subseteq CertType /\ IsFiniteSet(x.certs)
    BY InputsAssumption
  <2>2. \A p : JKSEncode(x.certs, p).format = "jks"
    BY DEF JKSEncode
  <2> QED BY <2>1, <2>2, JKSKeepsAliases DEF Holds
<1>5. Holds(PEM(x.certs), x.certs)
  BY DEF Holds, PEM
<1>6. ExpectedProperties(x) = {x.key} \cup stores
  BY DEF ExpectedProperties
<1>7. stores \subseteq Keys /\ x.key \in Keys
  <2>1. /\ x.key \in Keys
        /\ x.jks # NoStore => x.jks.key \in Keys
        /\ x.p12 # NoStore => x.p12.key \in Keys
    BY InputsAssumption
  <2>2. ~NoStore.on
    BY DEF NoStore
  <2> QED BY <2>1, <2>2
<1> HIDE DEF bin, stores
<1>8. PatchData(x) = [k \in {x.key} \cup stores |-> IF k \in stores THEN bin[k] ELSE PEM(x.certs)]
  BY <1>1 DEF PatchData, bin
<1> QED BY <1>2, <1>3, <1>4, <1>5, <1>6, <1>7, <1>8

-----------------------------------------------------------------------------
(* The steps *)

LEMMA RenderedInit == Init => Rendered
<1> SUFFICES ASSUME Init PROVE Rendered
  OBVIOUS
<1>1. in \in Inputs /\ obj = NoObject /\ fresh = FALSE
  BY DEF Init
<1>2. ObjectShape
  BY <1>1 DEF ObjectShape, NoObject
<1>3. ManagedIsHashed /\ OursIsManaged
  BY <1>1 DEF ManagedIsHashed, OursIsManaged, NoObject
<1>4. CertsCurrent /\ NothingLeftOver
  BY <1>1 DEF CertsCurrent, NothingLeftOver
<1> QED BY <1>2, <1>3, <1>4 DEF Rendered

LEMMA EditStep ==
    ASSUME Rendered, Edit
    PROVE  Rendered'
<1>1. in' \in Inputs /\ in'.kind = in.kind /\ obj' = obj /\ fresh' = FALSE
  BY DEF Edit
<1>2. ObjectShape' /\ ManagedIsHashed' /\ OursIsManaged'
  BY <1>1 DEF Rendered, ObjectShape, ManagedIsHashed, OursIsManaged
<1> QED BY <1>1, <1>2 DEF Rendered, CertsCurrent, NothingLeftOver

LEMMA TamperStep ==
    ASSUME Rendered, Tamper
    PROVE  Rendered'
<1>1. in' = in /\ obj.exists /\ fresh' = FALSE
  BY DEF Tamper
<1>2. /\ DOMAIN obj = {"exists", "hash", "managed", "data", "annotations", "labels"}
      /\ DOMAIN obj.data = Keys
  BY DEF Rendered, ObjectShape
<1>3. ASSUME NEW k \in Keys, NEW e \in {Absent, Other},
             obj' = [obj EXCEPT !.data[k] = e, !.managed = {m \in @ : m[2] # k}]
      PROVE  ObjectShape' /\ ManagedIsHashed' /\ OursIsManaged'
  <2>1. /\ DOMAIN obj' = DOMAIN obj /\ obj'.exists = obj.exists /\ obj'.hash = obj.hash
        /\ obj'.data = [obj.data EXCEPT ![k] = e]
        /\ obj'.managed = {m \in obj.managed : m[2] # k}
    BY <1>2, <1>3
  <2>2. ObjectShape'
    BY <1>1, <1>2, <2>1 DEF Rendered, ObjectShape
  <2>3. ManagedIsHashed'
    BY <1>1, <1>2, <2>1 DEF Rendered, ManagedIsHashed
  <2>4. OursIsManaged'
    BY <1>1, <1>2, <1>3, <2>1 DEF Rendered, OursIsManaged
  <2> QED BY <2>2, <2>3, <2>4
<1>4. ASSUME obj' = [obj EXCEPT !.hash = NoHash]
      PROVE  ObjectShape' /\ ManagedIsHashed' /\ OursIsManaged'
  <2>1. /\ DOMAIN obj' = DOMAIN obj /\ obj'.exists = obj.exists /\ obj'.hash.pem = {}
        /\ obj'.data = obj.data /\ obj'.managed = obj.managed
    BY <1>2, <1>4 DEF NoHash
  <2> QED BY <1>1, <2>1 DEF Rendered, ObjectShape, ManagedIsHashed, OursIsManaged
<1>5. ObjectShape' /\ ManagedIsHashed' /\ OursIsManaged'
  BY <1>3, <1>4 DEF Tamper
<1> QED BY <1>1, <1>5 DEF Rendered, CertsCurrent, NothingLeftOver

\* What a write leaves.
LEMMA WrittenStep ==
    ASSUME Rendered, ApplyTarget, obj' = Applied(obj, in)
    PROVE  ObjectShape' /\ ManagedIsHashed' /\ OursIsManaged'
           /\ CertsCurrent' /\ NothingLeftOver'
<1> DEFINE new == PatchData(in)
           data == [k \in Keys |-> IF k \in DOMAIN new THEN new[k]
                                   ELSE IF \E m \in obj.managed : m[2] = k THEN Absent
                                   ELSE obj.data[k]]
<1>1. in' = in /\ in \in Inputs
  BY DEF ApplyTarget, Rendered, ObjectShape
<1>2. /\ DOMAIN new = ExpectedProperties(in) /\ DOMAIN new \subseteq Keys
      /\ \A k \in DOMAIN new : Holds(new[k], in.certs)
  BY <1>1, PatchIsCurrent
<1>3. /\ DOMAIN obj' = {"exists", "hash", "managed", "data", "annotations", "labels"}
      /\ obj'.exists /\ obj'.hash.pem = in.certs
      /\ obj'.managed = {<<PatchField(in, k), k>> : k \in DOMAIN new}
      /\ obj'.data = data
  BY DEF Applied, TrustBundleHash
<1> HIDE DEF new
<1>4. \A k \in DOMAIN new : data[k] = new[k]
  BY <1>2
<1>5. \A k \in Keys \ DOMAIN new : data[k] \in {Absent, Other}
  BY DEF Rendered, OursIsManaged
<1>6. DOMAIN data = Keys
  OBVIOUS
<1> HIDE DEF data
<1>7. ObjectShape'
  BY <1>1, <1>3, <1>6 DEF ObjectShape
<1>8. ManagedIsHashed'
  <2>1. \A k : PatchField(in, k) \in
                  IF in.kind = "ConfigMap" THEN {"data", "binaryData"} ELSE {"data"}
    BY DEF PatchField
  <2>2. \A m \in obj'.managed : \E k \in DOMAIN new :
           m[1] = PatchField(in, k) /\ m[2] = k
    BY <1>3
  <2> QED BY <1>1, <1>2, <1>3, <1>4, <2>1, <2>2 DEF ManagedIsHashed
<1>9. OursIsManaged'
  <2>1. \A k \in DOMAIN new : \E m \in obj'.managed : m[2] = k
    <3>1. \A k \in DOMAIN new : <<PatchField(in, k), k>> \in obj'.managed
      BY <1>3
    <3>2. \A f, k : <<f, k>>[2] = k
      OBVIOUS
    <3> QED BY <3>1, <3>2
  <2> QED BY <1>3, <1>5, <2>1 DEF OursIsManaged
<1>10. CertsCurrent'
  BY <1>1, <1>2, <1>3, <1>4 DEF CertsCurrent, Holds
<1>11. NothingLeftOver'
  BY <1>1, <1>2, <1>3, <1>5 DEF NothingLeftOver
<1> QED BY <1>7, <1>8, <1>9, <1>10, <1>11

\* What needsUpdate takes for current is current.
LEMMA NotWrittenStep ==
    ASSUME Rendered, ApplyTarget, obj.exists, ~NeedsUpdate(obj, in), obj' = obj
    PROVE  CertsCurrent' /\ NothingLeftOver'
<1>1. in' = in /\ in \in Inputs
  BY DEF ApplyTarget, Rendered, ObjectShape
<1>2. obj.hash.pem = in.certs /\ in.certs # {}
  BY <1>1, InputsAssumption DEF NeedsUpdate, TrustBundleHash
<1>3. {m[2] : m \in obj.managed} = ExpectedProperties(in)
  <2> DEFINE fields == IF in.kind = "ConfigMap" THEN {"data", "binaryData"} ELSE {"data"}
  <2>1. ListManagedProperties(obj, fields) = ExpectedProperties(in)
    BY DEF NeedsUpdate
  <2>2. {p \in obj.managed : p[1] \in fields} = obj.managed
    BY DEF Rendered, ManagedIsHashed
  <2> QED BY <2>1, <2>2 DEF ListManagedProperties
<1>4. \A k \in ExpectedProperties(in) : Holds(obj.data[k], in.certs)
  BY <1>2, <1>3 DEF Rendered, ManagedIsHashed
<1>5. \A k \in Keys \ ExpectedProperties(in) : obj.data[k] \in {Absent, Other}
  BY <1>3 DEF Rendered, OursIsManaged
<1> QED BY <1>1, <1>4, <1>5 DEF CertsCurrent, NothingLeftOver, Holds

LEMMA ApplyTargetStep ==
    ASSUME Rendered, ApplyTarget
    PROVE  Rendered'
<1>1. CASE obj.exists /\ ~NeedsUpdate(obj, in)
  <2>1. obj' = obj /\ in' = in
    BY <1>1 DEF ApplyTarget
  <2>2. ObjectShape' /\ ManagedIsHashed' /\ OursIsManaged'
    BY <2>1 DEF Rendered, ObjectShape, ManagedIsHashed, OursIsManaged
  <2> QED BY <1>1, <2>1, <2>2, NotWrittenStep DEF Rendered
<1>2. CASE ~(obj.exists /\ ~NeedsUpdate(obj, in))
  BY <1>2, WrittenStep DEF ApplyTarget, Rendered
<1> QED BY <1>1, <1>2

LEMMA RenderedNext == Rendered /\ [Next]_vars => Rendered'
<1> SUFFICES ASSUME Rendered, [Next]_vars PROVE Rendered'
  OBVIOUS
<1>1. CASE UNCHANGED vars
  BY <1>1 DEF vars, Rendered, ObjectShape, ManagedIsHashed, OursIsManaged, CertsCurrent,
              NothingLeftOver
<1> QED BY <1>1, EditStep, TamperStep, ApplyTargetStep DEF Next

LEMMA AlwaysRendered == Spec => []Rendered
BY RenderedInit, RenderedNext, PTL DEF Spec

-----------------------------------------------------------------------------
(* The order in which Go iterates over a map *)

\* Turned round, a list has the same length and the same elements.
LEMMA ReverseHasTheSame ==
    ASSUME NEW X, NEW q \in Seq(X)
    PROVE  Len(Reverse(q)) = Len(q) /\ Range(Reverse(q)) = Range(q)
<1> DEFINE p == Reverse(q)
           N == Len(q)
<1>1. N \in Nat /\ DOMAIN q = 1..N
  OBVIOUS
<1>2. p = [m \in 1..N |-> q[(N - m) + 1]]
  BY DEF Reverse
<1> HIDE DEF p, N
<1>3. DOMAIN p = 1..N /\ Len(p) = N
  BY <1>1, <1>2
<1>4. Range(p) \subseteq Range(q)
  <2>1. \A m \in 1..N : (N - m) + 1 \in 1..N
    BY <1>1
  <2> QED BY <1>1, <1>2, <1>3, <2>1 DEF Range
<1>5. Range(q) \subseteq Range(p)
  <2> SUFFICES ASSUME NEW m \in 1..N PROVE q[m] \in Range(p)
    BY <1>1 DEF Range
  <2>1. (N - m) + 1 \in 1..N /\ (N - ((N - m) + 1)) + 1 = m
    BY <1>1
  <2>2. p[(N - m) + 1] = q[m]
    BY <1>2, <2>1
  <2> QED BY <1>3, <2>1, <2>2 DEF Range
<1> QED BY <1>3, <1>4, <1>5 DEF p, N

\* The hash without the order.
SortedKeysOf(map) == Sorted(SelectIn(SortedNames, DOMAIN map))
HashOf(x) ==
    [pem |-> x.certs,
     rest |-> PasswordBytes(x)
              \o MetadataBytes(x.annotations, SortedKeysOf(x.annotations))
              \o MetadataBytes(x.labels, SortedKeysOf(x.labels))]

\* The order does not show in it.
LEMMA HashHasNoOrder == TrustBundleHash(in) = HashOf(in)
<1>1. ASSUME NEW map PROVE SortedKeys(map) = SortedKeysOf(map)
  <2> DEFINE names == SelectIn(SortedNames, DOMAIN map)
             q == MapKeys(map)
  <2>1. names \in Seq(Names)
    BY InputsAssumption, SelectionProperties
  <2>2. q = names \/ q = Reverse(names)
    BY DEF MapKeys
  <2> HIDE DEF names, q
  <2>3. Len(q) = Len(names) /\ Range(q) = Range(names)
    BY <2>1, <2>2, ReverseHasTheSame
  <2>4. Sorted(q) = Sorted(names)
    BY <2>3 DEF Sorted
  <2> QED BY <2>4 DEF SortedKeys, SortedKeysOf, q, names
<1> QED BY <1>1 DEF TrustBundleHash, HashOf

\* NeedsUpdate for an input that stays, before and after a step.
LEMMA NeedsUpdateLater ==
    ASSUME in' = in
    PROVE  NeedsUpdate(obj, in)' <=>
             \/ obj'.hash # HashOf(in)
             \/ ListManagedProperties(obj', IF in.kind = "ConfigMap"
                                            THEN {"data", "binaryData"} ELSE {"data"})
                  # ExpectedProperties(in)
<1>1. TrustBundleHash(in)' = HashOf(in')
  <2>1. (TrustBundleHash(in) = HashOf(in))'
    BY HashHasNoOrder, PTL
  <2> QED BY <2>1
<1> QED BY <1>1 DEF NeedsUpdate

LEMMA SettlesByApply ==
    ASSUME Rendered, ApplyTarget
    PROVE  Settles'
<1>1. in' = in /\ in \in Inputs
  BY DEF ApplyTarget, Rendered, ObjectShape
<1> DEFINE fields == IF in.kind = "ConfigMap" THEN {"data", "binaryData"} ELSE {"data"}
<1>2. CASE obj.exists /\ ~NeedsUpdate(obj, in)
  <2>1. obj' = obj
    BY <1>2 DEF ApplyTarget
  <2>2. obj.hash = HashOf(in) /\ ListManagedProperties(obj, fields) = ExpectedProperties(in)
    BY <1>2, HashHasNoOrder DEF NeedsUpdate
  <2>3. ~NeedsUpdate(obj, in)'
    BY <1>1, <2>1, <2>2, NeedsUpdateLater
  <2> QED BY <1>2, <2>1, <2>3 DEF Settles
<1>3. CASE ~(obj.exists /\ ~NeedsUpdate(obj, in))
  <2>1. obj' = Applied(obj, in)
    BY <1>3 DEF ApplyTarget
  <2> DEFINE keys == DOMAIN PatchData(in)
  <2>2. /\ obj'.exists /\ obj'.hash = HashOf(in)
        /\ obj'.managed = {<<PatchField(in, k), k>> : k \in keys}
    BY <2>1, HashHasNoOrder DEF Applied
  <2>3. keys = ExpectedProperties(in)
    BY <1>1, PatchIsCurrent
  <2>4. \A k : PatchField(in, k) \in fields
    BY DEF PatchField
  <2> HIDE DEF keys, fields
  <2>5. {p \in obj'.managed : p[1] \in fields} = {<<PatchField(in, k), k>> : k \in keys}
    BY <2>2, <2>4
  <2>6. ListManagedProperties(obj', fields) = keys
    <3>1. \A f, k : <<f, k>>[2] = k
      OBVIOUS
    <3>2. {m[2] : m \in {<<PatchField(in, k), k>> : k \in keys}} = keys
      BY <3>1
    <3> QED BY <2>5, <3>2 DEF ListManagedProperties
  <2>7. ~NeedsUpdate(obj, in)'
    BY <1>1, <2>2, <2>3, <2>6, NeedsUpdateLater DEF fields
  <2> QED BY <2>2, <2>7 DEF Settles
<1> QED BY <1>2, <1>3

LEMMA SettlesNext == Rendered /\ Settles /\ [Next]_vars => Settles'
<1> SUFFICES ASSUME Rendered, Settles, [Next]_vars PROVE Settles'
  OBVIOUS
<1>1. CASE UNCHANGED vars
  <2>1. obj' = obj /\ in' = in /\ fresh' = fresh
    BY <1>1 DEF vars
  <2>2. NeedsUpdate(obj, in)' <=> NeedsUpdate(obj, in)
    BY <2>1, NeedsUpdateLater, HashHasNoOrder DEF NeedsUpdate
  <2> QED BY <2>1, <2>2 DEF Settles
<1>2. CASE Edit \/ Tamper
  BY <1>2 DEF Edit, Tamper, Settles
<1> QED BY <1>1, <1>2, SettlesByApply DEF Next

-----------------------------------------------------------------------------
(* Data in the formats of the last patch *)

\* What is written under a key for some formats and certificates.
EntryFor(f, certs, k) ==
    IF f.p12.on /\ k = f.p12.key THEN PKCS12Encode(certs, f.p12.password, f.p12.profile)
    ELSE IF f.jks.on /\ k = f.jks.key THEN JKSEncode(certs, f.jks.password)
    ELSE PEM(certs)

LEMMA PatchByEntry ==
    ASSUME NEW x, NEW k \in DOMAIN PatchData(x)
    PROVE  PatchData(x)[k] = EntryFor(FormatsOf(x), x.certs, k)
BY DEF PatchData, BinaryData, EntryFor, FormatsOf

\* A managed entry is just what is written, in the formats of the last patch, for
\* the certificates that the hash annotation tells of.
ManagedIsExact ==
    \A m \in obj.managed :
        obj.hash.pem # {} => obj.data[m[2]] = EntryFor(formats, obj.hash.pem, m[2])

LEMMA ExactByTamper ==
    ASSUME Rendered, ManagedIsExact, Tamper
    PROVE  ManagedIsExact'
<1>1. formats' = formats
  BY DEF Tamper
<1>2. /\ DOMAIN obj = {"exists", "hash", "managed", "data", "annotations", "labels"}
      /\ DOMAIN obj.data = Keys
  BY DEF Rendered, ObjectShape
<1>3. ASSUME NEW k \in Keys, NEW e \in {Absent, Other},
             obj' = [obj EXCEPT !.data[k] = e, !.managed = {m \in @ : m[2] # k}]
      PROVE  ManagedIsExact'
  <2>1. /\ obj'.hash = obj.hash
        /\ obj'.data = [obj.data EXCEPT ![k] = e]
        /\ obj'.managed = {m \in obj.managed : m[2] # k}
    BY <1>2, <1>3
  <2>2. \A m \in obj'.managed : m \in obj.managed /\ obj'.data[m[2]] = obj.data[m[2]]
    BY <1>2, <2>1
  <2> QED BY <1>1, <2>1, <2>2 DEF ManagedIsExact
<1>4. ASSUME obj' = [obj EXCEPT !.hash = NoHash]
      PROVE  ManagedIsExact'
  <2>1. obj'.hash.pem = {}
    BY <1>2, <1>4 DEF NoHash
  <2> QED BY <2>1 DEF ManagedIsExact
<1> QED BY <1>3, <1>4 DEF Tamper

LEMMA ExactByApply ==
    ASSUME Rendered, ManagedIsExact, ApplyTarget
    PROVE  ManagedIsExact' /\ UpToDateInItsFormats'
<1>1. in' = in /\ in \in Inputs
  BY DEF ApplyTarget, Rendered, ObjectShape
<1>2. DOMAIN PatchData(in) = ExpectedProperties(in) /\ ExpectedProperties(in) \subseteq Keys
  BY <1>1, PatchIsCurrent
<1>3. CASE obj.exists /\ ~NeedsUpdate(obj, in)
  <2>1. obj' = obj /\ formats' = formats
    BY <1>3 DEF ApplyTarget
  <2>2. obj.hash.pem = in.certs /\ in.certs # {}
    BY <1>1, <1>3, InputsAssumption DEF NeedsUpdate, TrustBundleHash
  <2>3. \A k \in ExpectedProperties(in) : \E m \in obj.managed : m[2] = k
    BY <1>3 DEF NeedsUpdate, ListManagedProperties
  <2>4. formats = FormatsOf(in) =>
          \A k \in ExpectedProperties(in) : obj.data[k] = PatchData(in)[k]
    BY <1>2, <2>2, <2>3, PatchByEntry DEF ManagedIsExact
  <2> QED BY <1>1, <2>1, <2>4 DEF ManagedIsExact, DataUpToDate, UpToDateInItsFormats
<1>4. CASE ~(obj.exists /\ ~NeedsUpdate(obj, in))
  <2> DEFINE new == PatchData(in)
             data == [k \in Keys |-> IF k \in DOMAIN new THEN new[k]
                                     ELSE IF \E m \in obj.managed : m[2] = k THEN Absent
                                     ELSE obj.data[k]]
  <2>1. obj' = Applied(obj, in) /\ formats' = FormatsOf(in)
    BY <1>4 DEF ApplyTarget
  <2>2. /\ obj'.hash.pem = in.certs
        /\ obj'.managed = {<<PatchField(in, k), k>> : k \in DOMAIN new}
        /\ obj'.data = data
    BY <2>1 DEF Applied, TrustBundleHash
  <2>3. \A k \in DOMAIN new : data[k] = new[k] /\ new[k] = EntryFor(FormatsOf(in), in.certs, k)
    BY <1>2, PatchByEntry
  <2> HIDE DEF new, data
  <2>4. \A m \in obj'.managed : m[2] \in DOMAIN new
    BY <2>2
  <2>5. ManagedIsExact'
    BY <2>1, <2>2, <2>3, <2>4 DEF ManagedIsExact
  <2>6. UpToDateInItsFormats'
    BY <1>1, <1>2, <2>2, <2>3 DEF DataUpToDate, UpToDateInItsFormats, new
  <2> QED BY <2>5, <2>6
<1> QED BY <1>3, <1>4

LEMMA ExactNext ==
    Rendered /\ ManagedIsExact /\ UpToDateInItsFormats /\ [Next]_vars
        => ManagedIsExact' /\ UpToDateInItsFormats'
<1> SUFFICES ASSUME Rendered, ManagedIsExact, UpToDateInItsFormats, [Next]_vars
             PROVE  ManagedIsExact' /\ UpToDateInItsFormats'
  OBVIOUS
<1>1. CASE UNCHANGED vars
  <2>1. in' = in /\ obj' = obj /\ fresh' = fresh /\ formats' = formats
    BY <1>1 DEF vars
  <2> QED BY <2>1 DEF ManagedIsExact, DataUpToDate, UpToDateInItsFormats
<1>2. CASE Edit
  BY <1>2 DEF Edit, ManagedIsExact, DataUpToDate, UpToDateInItsFormats
<1>3. CASE Tamper
  BY <1>3, ExactByTamper DEF Tamper, DataUpToDate, UpToDateInItsFormats
<1> QED BY <1>1, <1>2, <1>3, ExactByApply DEF Next

-----------------------------------------------------------------------------
(* Theorems *)

\* After ApplyTarget every key of the target holds the certificates of the sources,
\* although needsUpdate looks at the hash annotation and at the names of managed
\* keys only, and whatever others have done to the object.
THEOREM TargetIsCurrent == Spec => []CertsCurrent
BY AlwaysRendered, PTL DEF Rendered

\* After ApplyTarget nothing that the controller wrote is left under another key.
THEOREM TargetHasNoOldKeys == Spec => []NothingLeftOver
BY AlwaysRendered, PTL DEF Rendered

\* After ApplyTarget, for the same input, needsUpdate asks for nothing: the order in
\* which Go iterates over annotations and labels does not show in the hash.
THEOREM RenderingSettles == Spec => []Settles
<1>1. Init => Settles
  BY DEF Init, Settles
<1> QED BY <1>1, SettlesNext, AlwaysRendered, PTL DEF Spec

\* As long as the additional formats are those of the last patch, the data is up to
\* date to the parameters of its stores, whatever becomes of sources, keys and
\* metadata: it is only for changes of the formats that the hash of TrustBundleHash
\* tells too little.
THEOREM StaleOnlyInFormats == Spec => []UpToDateInItsFormats
<1>1. Init => ManagedIsExact /\ UpToDateInItsFormats
  BY DEF Init, ManagedIsExact, DataUpToDate, UpToDateInItsFormats, NoObject
<1>2. Rendered /\ ManagedIsExact /\ UpToDateInItsFormats /\ [Next]_vars
        => ManagedIsExact' /\ UpToDateInItsFormats'
  BY ExactNext
<1> QED BY <1>1, <1>2, AlwaysRendered, PTL DEF Spec
=============================================================================
