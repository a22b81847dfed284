--------------------------- MODULE MigrationProofs ---------------------------
(***************************************************************************)
(* Proofs about Migration, for every set of specs and manifests and every  *)
(* bound.                                                                  *)
(***************************************************************************)
EXTENDS Migration, TLAPS

-----------------------------------------------------------------------------
(* Server-side apply *)

\* What the controller applies to a ClusterBundle has an owner reference, does
\* not have the annotation of the user, and has no field that is not known.
LEMMA PatchDomain ==
    ASSUME NEW x
    PROVE  /\ DOMAIN Patch(x) \subseteq FieldNames \ {"migrated"}
           /\ "ownerReferences" \in DOMAIN Patch(x)
           /\ Patch(x).ownerReferences = x.uid
<1> DEFINE c == Converted[x.spec]
           names == (ConvertedFields \cap DOMAIN c) \cup {"ownerReferences"}
<1>1. Patch(x) = [f \in names |-> IF f = "ownerReferences" THEN x.uid ELSE c[f]]
  BY DEF Patch
<1>2. names \subseteq FieldNames \ {"migrated"} /\ "ownerReferences" \in names
  BY DEF ConvertedFields, FieldNames
<1> HIDE DEF c, names
<1> QED BY <1>1, <1>2

\* Apply, field by field.
LEMMA ApplyFields ==
    ASSUME NEW c, NEW m, NEW p
    PROVE  LET a == Apply(c, m, p).fields
           IN /\ \A f : f \in DOMAIN a <=>
                    \/ f \in DOMAIN p
                    \/ f \in DOMAIN c.fields /\ c.fields[f].managers # {m}
              /\ \A f \in DOMAIN p :
                    /\ a[f].value = p[f]
                    /\ m \in a[f].managers
                    /\ \/ a[f].managers = {m}
                       \/ /\ f \in DOMAIN c.fields
                          /\ a[f].managers = c.fields[f].managers \cup {m}
              /\ \A f \in DOMAIN a \ DOMAIN p :
                    /\ a[f].value = c.fields[f].value
                    /\ a[f].managers = c.fields[f].managers \ {m}
<1> DEFINE kept == {f \in DOMAIN c.fields \ DOMAIN p : c.fields[f].managers # {m}}
           others(f) == IF f \in DOMAIN c.fields /\ c.fields[f].value = p[f]
                        THEN c.fields[f].managers ELSE {}
           new(f) == [value |-> p[f], managers |-> others(f) \cup {m}]
           rest(f) == [value |-> c.fields[f].value,
                       managers |-> c.fields[f].managers \ {m}]
           a == [f \in DOMAIN p \cup kept |->
                    IF f \in DOMAIN p THEN new(f) ELSE rest(f)]
<1>1. Apply(c, m, p).fields = a
  BY DEF Apply, Has
<1>2. DOMAIN a = DOMAIN p \cup kept
  OBVIOUS
<1>3. \A f \in DOMAIN p : a[f] = new(f)
  OBVIOUS
<1>4. \A f \in DOMAIN a \ DOMAIN p :
          a[f].value = c.fields[f].value /\ a[f].managers = c.fields[f].managers \ {m}
  OBVIOUS
<1>5. \A f : new(f).value = p[f] /\ new(f).managers = others(f) \cup {m}
  OBVIOUS
<1>6. \A f : f \in kept <=> f \in DOMAIN c.fields \ DOMAIN p
                             /\ c.fields[f].managers # {m}
  OBVIOUS
<1>7. \A f : others(f) = {} \/ (f \in DOMAIN c.fields /\ others(f) = c.fields[f].managers)
  OBVIOUS
<1> HIDE DEF a, new, kept, others
<1>8. \A f \in DOMAIN p :
          /\ a[f].value = p[f]
          /\ m \in a[f].managers
          /\ \/ a[f].managers = {m}
             \/ f \in DOMAIN c.fields /\ a[f].managers = c.fields[f].managers \cup {m}
  BY <1>3, <1>5, <1>7
<1> QED BY <1>1, <1>2, <1>4, <1>6, <1>8

-----------------------------------------------------------------------------
(* Types *)

\* What TypeOK says of a ClusterBundle.
ClusterBundleOK(c) ==
    /\ FieldsType(c.fields)
    /\ \A f \in DOMAIN c.fields : c.fields[f].managers # {}
    /\ MapsToBundle(c) => c.fields.ownerReferences.managers = {"trust-manager"}

\* Manifests of users have no owner reference.
LEMMA ManifestDomain ==
    ASSUME NEW m \in Manifests
    PROVE  DOMAIN m \subseteq FieldNames \ {"ownerReferences"}
BY MigrationAssumption

LEMMA NoClusterBundleOK == ClusterBundleOK(NoClusterBundle)
<1>1. DOMAIN NoClusterBundle.fields = {}
  BY DEF NoClusterBundle
<1> QED BY <1>1 DEF ClusterBundleOK, FieldsType, MapsToBundle, Has

\* An apply by either manager of fields that are known leaves every field with a
\* manager; the owner reference is the controller's, as only it sends one.
LEMMA ApplyOK ==
    ASSUME NEW c, ClusterBundleOK(c), NEW m \in {"trust-manager", "user"}, NEW p,
           DOMAIN p \subseteq FieldNames,
           m = "user" => "ownerReferences" \notin DOMAIN p
    PROVE  ClusterBundleOK(Apply(c, m, p))
<1> DEFINE a == Apply(c, m, p).fields
<1>1. \A f : f \in DOMAIN a <=>
          f \in DOMAIN p \/ (f \in DOMAIN c.fields /\ c.fields[f].managers # {m})
  BY ApplyFields
<1>2. \A f \in DOMAIN p :
          /\ m \in a[f].managers
          /\ \/ a[f].managers = {m}
             \/ f \in DOMAIN c.fields /\ a[f].managers = c.fields[f].managers \cup {m}
  BY ApplyFields
<1>3. \A f \in DOMAIN a \ DOMAIN p : a[f].managers = c.fields[f].managers \ {m}
  BY ApplyFields
<1>4. /\ DOMAIN c.fields \subseteq FieldNames
      /\ \A f \in DOMAIN c.fields : /\ c.fields[f].managers \subseteq {"trust-manager", "user"}
                                    /\ c.fields[f].managers # {}
      /\ "ownerReferences" \in DOMAIN c.fields =>
            c.fields["ownerReferences"].managers = {"trust-manager"}
  BY DEF ClusterBundleOK, FieldsType, MapsToBundle, Has
<1> HIDE DEF a
<1>5. DOMAIN a \subseteq FieldNames
  BY <1>1, <1>4
<1>6. \A f \in DOMAIN a : a[f].managers \subseteq {"trust-manager", "user"}
                          /\ a[f].managers # {}
  BY <1>1, <1>2, <1>3, <1>4
<1>7. "ownerReferences" \in DOMAIN a =>
          a["ownerReferences"].managers = {"trust-manager"}
  <2>1. CASE m = "trust-manager"
    BY <1>1, <1>2, <1>3, <1>4, <2>1
  <2>2. CASE m = "user"
    BY <1>1, <1>3, <1>4, <2>2
  <2> QED BY <2>1, <2>2
<1> QED BY <1>5, <1>6, <1>7 DEF a, ClusterBundleOK, FieldsType, MapsToBundle, Has

\* TypeOK, with the parts about ClusterBundles named.
LEMMA TypeParts ==
    TypeOK <=>
        /\ BundleOK(bundle) /\ BundleOK(bundleC) /\ BundleOK(b)
        /\ ClusterBundleOK(cb) /\ ClusterBundleOK(cbC)
        /\ cbEvent \in BOOLEAN /\ queued \in BOOLEAN /\ returned \in BOOLEAN
        /\ pc \in {"idle", "get", "apply", "unmanage", "deprecated", "migrated"}
        /\ user \in 0..MaxUser /\ faults \in 0..MaxFaults
BY DEF TypeOK, ClusterBundleOK

LEMMA NoBundleOK == BundleOK(NoBundle)
<1>1. (CHOOSE s \in DOMAIN Specs : TRUE) \in DOMAIN Specs
  BY MigrationAssumption
<1> QED BY <1>1 DEF BundleOK, NoBundle, NoCondition, ConditionType

\* The conditions that the controller writes.
LEMMA ConditionOK ==
    ASSUME BundleOK(bundle), BundleOK(b), NEW t \in {"Deprecated", "Migrated"}
    PROVE  Condition(t) \in ConditionType
<1> DEFINE l == IF b.condition.type = t THEN b.condition.ltt ELSE Now
<1>1. l \in {0, 1}
  BY DEF BundleOK, ConditionType, Now
<1>2. Condition(t) = [type |-> t, observed |-> b.gen, ltt |-> l]
  BY DEF Condition
<1>3. b.gen \in Nat
  BY DEF BundleOK
<1> HIDE DEF l
<1> QED BY <1>1, <1>2, <1>3 DEF ConditionType

\* A write of a ClusterBundle keeps types.
LEMMA WriteOK ==
    ASSUME TypeOK, NEW c, ClusterBundleOK(c), WriteClusterBundle(c)
    PROVE  ClusterBundleOK(cb)' /\ cbEvent' \in BOOLEAN
<1>1. cb' = c /\ cbEvent' \in BOOLEAN
  BY DEF TypeOK, WriteClusterBundle
<1> QED BY <1>1 DEF ClusterBundleOK, FieldsType, MapsToBundle

\* The budgets.
LEMMA FaultOK ==
    ASSUME TypeOK, faults < MaxFaults, faults' = faults + 1
    PROVE  faults' \in 0..MaxFaults
BY MigrationAssumption DEF TypeOK

LEMMA UserOK ==
    ASSUME TypeOK, NEW op, UserMay(op)
    PROVE  user' \in 0..MaxUser
BY MigrationAssumption DEF TypeOK, UserMay

LEMMA TypeInit == Init => TypeOK
<1> SUFFICES ASSUME Init PROVE TypeOK
  OBVIOUS
<1>1. PICK s \in DOMAIN Specs :
        bundle = [NoBundle EXCEPT !.exists = TRUE, !.uid = 1, !.gen = 1, !.spec = s]
  BY DEF Init
<1>2. BundleOK(bundle)
  BY <1>1, NoBundleOK DEF BundleOK
<1>3. BundleOK(bundleC) /\ BundleOK(b)
  BY NoBundleOK DEF Init
<1>4. ClusterBundleOK(cb) /\ ClusterBundleOK(cbC)
  BY NoClusterBundleOK DEF Init
<1>5. 0 \in 0..MaxUser /\ 0 \in 0..MaxFaults
  BY MigrationAssumption
<1>6. /\ cbEvent = FALSE /\ queued = FALSE /\ returned = FALSE
      /\ pc = "idle" /\ user = 0 /\ faults = 0
  BY DEF Init
<1> QED BY <1>2, <1>3, <1>4, <1>5, <1>6, TypeParts

\* Steps that write neither object keep their types.
LEMMA TypeFrame ==
    ASSUME TypeOK, UNCHANGED <<bundle, cb>>,
           bundleC' \in {bundle, bundleC}, cbC' \in {cb, cbC},
           b' \in {b, bundleC},
           cbEvent' \in BOOLEAN, queued' \in BOOLEAN, returned' \in BOOLEAN,
           pc' \in {"idle", "get", "apply", "unmanage", "deprecated", "migrated"},
           user' \in 0..MaxUser, faults' \in 0..MaxFaults
    PROVE  TypeOK'
<1>1. BundleOK(bundle)' /\ BundleOK(bundleC)' /\ BundleOK(b)'
  BY DEF TypeOK, BundleOK
<1>2. \A c \in {cb, cbC} : ClusterBundleOK(c)
  BY DEF TypeOK, ClusterBundleOK
<1>3. cb' \in {cb, cbC} /\ cbC' \in {cb, cbC}
  OBVIOUS
<1>4. \A c \in {cb, cbC}' : ClusterBundleOK(c)
  BY <1>2, <1>3
<1> QED BY <1>1, <1>4 DEF TypeOK, ClusterBundleOK, FieldsType, MapsToBundle

\* Steps that write a ClusterBundle.
LEMMA TypeWrite ==
    ASSUME TypeOK, NEW c, ClusterBundleOK(c), WriteClusterBundle(c),
           UNCHANGED <<bundle, bundleC, cbC, b>>,
           queued' \in BOOLEAN, returned' \in BOOLEAN,
           pc' \in {"idle", "get", "apply", "unmanage", "deprecated", "migrated"},
           user' \in 0..MaxUser, faults' \in 0..MaxFaults
    PROVE  TypeOK'
<1>1. BundleOK(bundle)' /\ BundleOK(bundleC)' /\ BundleOK(b)'
  BY DEF TypeOK, BundleOK
<1>2. ClusterBundleOK(cbC) /\ cb' = c /\ cbEvent' \in BOOLEAN
  BY DEF TypeOK, ClusterBundleOK, WriteClusterBundle
<1>3. \A x \in {cb, cbC}' : ClusterBundleOK(x)
  BY <1>2
<1> QED BY <1>1, <1>2, <1>3 DEF TypeOK, ClusterBundleOK, FieldsType, MapsToBundle

\* Steps that write the Bundle.
LEMMA TypeBundle ==
    ASSUME TypeOK, BundleOK(bundle'), UNCHANGED <<bundleC, cb, cbC, cbEvent, b>>,
           queued' \in BOOLEAN, returned' \in BOOLEAN,
           pc' \in {"idle", "get", "apply", "unmanage", "deprecated", "migrated"},
           user' \in 0..MaxUser, faults' \in 0..MaxFaults
    PROVE  TypeOK'
BY DEF TypeOK, BundleOK, FieldsType, MapsToBundle

\* What users make of the Bundle.  A new generation or a new UID is greater than
\* all before.
LEMMA EditsOK ==
    ASSUME TypeOK, EditBundle \/ DeleteBundle \/ CreateBundle
    PROVE  /\ BundleOK(bundle')
           /\ bundle'.exists =>
                \/ bundle'.uid = bundle.uid + 1
                \/ bundle'.uid = bundle.uid /\ bundle.exists /\ bundle'.gen = bundle.gen + 1
                   /\ bundle'.condition = bundle.condition
           /\ bundle'.uid \in {bundle.uid, bundle.uid + 1}
<1>a. BundleOK(bundle) /\ BundleOK(NoBundle)
  BY NoBundleOK DEF TypeOK
<1>1. CASE EditBundle
  <2>1. PICK s \in DOMAIN Specs :
          bundle' = [bundle EXCEPT !.spec = s, !.gen = @ + 1]
    BY <1>1 DEF EditBundle
  <2>2. bundle.exists
    BY <1>1 DEF EditBundle
  <2>3. bundle' = [exists |-> bundle.exists, uid |-> bundle.uid, gen |-> bundle.gen + 1,
                   condition |-> bundle.condition, spec |-> s]
    BY <1>a, <2>1 DEF BundleOK
  <2> QED BY <1>a, <2>2, <2>3 DEF BundleOK
<1>2. CASE DeleteBundle
  <2>1. bundle' = [NoBundle EXCEPT !.uid = bundle.uid] /\ ~NoBundle.exists
    BY <1>2 DEF DeleteBundle, NoBundle
  <2>2. bundle' = [exists |-> FALSE, uid |-> bundle.uid, gen |-> NoBundle.gen,
                   condition |-> NoBundle.condition, spec |-> NoBundle.spec]
    BY <2>1, <1>a DEF BundleOK
  <2> QED BY <1>a, <2>2 DEF BundleOK
<1>3. CASE CreateBundle
  <2>1. PICK s \in DOMAIN Specs :
          bundle' = [NoBundle EXCEPT !.exists = TRUE, !.uid = bundle.uid + 1,
                                     !.gen = 1, !.spec = s]
    BY <1>3 DEF CreateBundle
  <2>2. bundle' = [exists |-> TRUE, uid |-> bundle.uid + 1, gen |-> 1,
                   condition |-> NoBundle.condition, spec |-> s]
    BY <2>1, <1>a DEF BundleOK
  <2> QED BY <1>a, <2>2 DEF BundleOK
<1> QED BY <1>1, <1>2, <1>3

LEMMA TypeStep ==
    ASSUME TypeOK, [Next]_vars
    PROVE  TypeOK'
<1>a. /\ BundleOK(bundle) /\ BundleOK(bundleC) /\ BundleOK(b)
      /\ ClusterBundleOK(cb) /\ ClusterBundleOK(cbC)
      /\ cbEvent \in BOOLEAN /\ queued \in BOOLEAN /\ returned \in BOOLEAN
      /\ pc \in {"idle", "get", "apply", "unmanage", "deprecated", "migrated"}
      /\ user \in 0..MaxUser /\ faults \in 0..MaxFaults
  BY TypeParts
<1>1. CASE SyncBundle
  BY <1>1, <1>a, TypeFrame DEF SyncBundle
<1>2. CASE SyncClusterBundle
  BY <1>2, <1>a, TypeFrame DEF SyncClusterBundle
<1>3. CASE GetBundle
  BY <1>3, <1>a, TypeFrame DEF GetBundle
<1>4. CASE GetClusterBundle
  BY <1>4, <1>a, TypeFrame DEF GetClusterBundle
<1>5. CASE ApplyClusterBundle
  <2> DEFINE c == Apply(cb, "trust-manager", Patch(b))
  <2>1. ClusterBundleOK(c)
    BY <1>a, ApplyOK, PatchDomain
  <2>2. UNCHANGED <<bundle, bundleC, cbC, b, returned, user>>
    BY <1>5 DEF ApplyClusterBundle
  <2>3. \/ WriteClusterBundle(c) \/ UNCHANGED <<cb, cbEvent>>
    BY <1>5 DEF ApplyClusterBundle, Call
  <2>4. queued' \in BOOLEAN /\ pc' \in {"deprecated", "idle"}
    BY <1>5, <1>a DEF ApplyClusterBundle, Call, Error
  <2>5. faults' \in 0..MaxFaults
    BY <1>5, <1>a, FaultOK DEF ApplyClusterBundle, Call
  <2> HIDE DEF c
  <2> QED BY <1>a, <2>1, <2>2, <2>3, <2>4, <2>5, TypeWrite, TypeFrame
<1>6. CASE UnmanageClusterBundle
  <2> DEFINE c == Apply(cb, "trust-manager", <<>>)
  <2>1. ClusterBundleOK(c)
    BY <1>a, ApplyOK
  <2>2. UNCHANGED <<bundle, bundleC, cbC, b, returned, user>>
    BY <1>6 DEF UnmanageClusterBundle
  <2>3. \/ WriteClusterBundle(c) \/ UNCHANGED <<cb, cbEvent>>
    BY <1>6 DEF UnmanageClusterBundle, Call
  <2>4. queued' \in BOOLEAN /\ pc' \in {"migrated", "idle"}
    BY <1>6, <1>a DEF UnmanageClusterBundle, Call, Error
  <2>5. faults' \in 0..MaxFaults
    BY <1>6, <1>a, FaultOK DEF UnmanageClusterBundle, Call
  <2> HIDE DEF c
  <2> QED BY <1>a, <2>1, <2>2, <2>3, <2>4, <2>5, TypeWrite, TypeFrame
<1>7. CASE ApplyBundleCondition
  <2> DEFINE t == IF pc = "migrated" THEN "Migrated" ELSE "Deprecated"
  <2>1. Condition(t) \in ConditionType
    BY <1>a, ConditionOK
  <2>2. UNCHANGED <<cb, bundleC, cbC, cbEvent, b, returned, user>>
    BY <1>7 DEF ApplyBundleCondition
  <2>3. bundle' = bundle \/ bundle' = [bundle EXCEPT !.condition = Condition(t)]
    BY <1>7 DEF ApplyBundleCondition, Call
  <2>4. queued' \in BOOLEAN /\ pc' = "idle"
    BY <1>7, <1>a DEF ApplyBundleCondition, Call, Error
  <2>5. faults' \in 0..MaxFaults
    BY <1>7, <1>a, FaultOK DEF ApplyBundleCondition, Call
  <2>6. BundleOK(bundle')
    BY <1>a, <2>1, <2>3 DEF BundleOK
  <2> QED BY <1>a, <2>2, <2>4, <2>5, <2>6, TypeBundle
<1>8. CASE Restart
  BY <1>8, <1>a, TypeFrame, FaultOK DEF Restart, MapsToBundle, Has
<1>9. CASE CollectGarbage \/ DeleteClusterBundle
  BY <1>9, <1>a, TypeWrite, NoClusterBundleOK, UserOK
  DEF CollectGarbage, DeleteClusterBundle, UserWrites
<1>10. CASE EditBundle \/ DeleteBundle \/ CreateBundle
  <2>1. BundleOK(bundle')
    BY <1>10, EditsOK
  <2>2. UNCHANGED <<cb, bundleC, cbC, cbEvent, queued, pc, b, returned, faults>>
        /\ user' \in 0..MaxUser
    BY <1>10, UserOK DEF EditBundle, DeleteBundle, CreateBundle
  <2> QED BY <1>a, <2>1, <2>2, TypeBundle
<1>11. CASE ApplyManifest
  <2>1. PICK m \in Manifests : WriteClusterBundle(Apply(cb, "user", m))
    BY <1>11 DEF ApplyManifest, UserWrites
  <2>2. ClusterBundleOK(Apply(cb, "user", m))
    BY <1>a, ApplyOK, ManifestDomain
  <2>3. UNCHANGED <<bundle, bundleC, cbC, queued, pc, b, faults>>
        /\ user' \in 0..MaxUser /\ returned' \in BOOLEAN
    BY <1>11, <1>a, UserOK DEF ApplyManifest, UserWrites
  <2> QED BY <1>a, <2>1, <2>2, <2>3, TypeWrite
<1>12. CASE UNCHANGED vars
  BY <1>12, <1>a, TypeFrame DEF vars
<1> QED
  BY <1>1, <1>2, <1>3, <1>4, <1>5, <1>6, <1>7, <1>8, <1>9, <1>10, <1>11, <1>12
  DEF Next, Worker, System, User

\* No value leaves its type; every field of a ClusterBundle has a manager, and the
\* owner reference is never anyone's but the controller's, whatever users apply.
THEOREM TypeCorrect == Spec => []TypeOK
<1>1. TypeOK /\ [Next]_vars => TypeOK'
  BY TypeStep
<1> QED BY <1>1, TypeInit, PTL DEF Spec

-----------------------------------------------------------------------------
(***************************************************************************)
(* RestIsConsistent is about states at rest; the invariant follows what     *)
(* leads there.  As long as neither a change of the Bundle (queued) nor one *)
(* of an owned ClusterBundle (cbEvent) has been noticed, the worker's copy  *)
(* of the Bundle is the cached one, its decision is right for the           *)
(* ClusterBundle as it is, and what it has done is still in effect.  A      *)
(* ClusterBundle that was changed unseen is not owned, and applying to it   *)
(* causes the event that makes the worker look again.  A change of the      *)
(* Bundle is never taken back: generations and UIDs only grow.              *)
(***************************************************************************)
NoneOfMine(c) == \A f \in DOMAIN c.fields : "trust-manager" \notin c.fields[f].managers

CacheIsBehind ==
    /\ bundleC.uid <= bundle.uid
    /\ bundleC.uid = bundle.uid /\ bundle.exists => bundleC.gen <= bundle.gen

ReadsBundle == ~queued /\ pc # "idle" => b = bundleC

OwnedIsSeen == ~cbEvent => cbC = cb \/ ~MapsToBundle(cb)

DecidesRight ==
    pc = "apply" /\ ~queued /\ ~cbEvent /\ MapsToBundle(cb) => ~IsUserManaged(cb)

HasConverted ==
    pc = "deprecated" /\ ~queued /\ ~cbEvent =>
        ~IsUserManaged(cb) /\ cb = Apply(cb, "trust-manager", Patch(b))

HasReleased == pc = "migrated" => NoneOfMine(cb)

LetGo == bundle.condition.type = "Migrated" /\ NoneOfMine(cb)

Reported == bundle.condition.observed = bundle.gen /\ (Managed \/ LetGo)

HasReported ==
    pc = "idle" /\ ~queued /\ ~cbEvent /\ bundle.exists /\ bundleC = bundle => Reported

Settling == /\ CacheIsBehind /\ ReadsBundle /\ OwnedIsSeen /\ DecidesRight
            /\ HasConverted /\ HasReleased /\ HasReported

\* A ClusterBundle to which a conversion was applied is owned.
LEMMA AppliedIsOwned ==
    ASSUME NEW c, NEW x
    PROVE  MapsToBundle(Apply(c, "trust-manager", Patch(x)))
BY ApplyFields, PatchDomain DEF MapsToBundle, Has

\* An apply by users does not set the owner reference, and gives the controller no
\* field.
LEMMA UserApply ==
    ASSUME NEW c, NEW m \in Manifests
    PROVE  /\ MapsToBundle(Apply(c, "user", m)) => MapsToBundle(c)
           /\ NoneOfMine(c) => NoneOfMine(Apply(c, "user", m))
<1> DEFINE a == Apply(c, "user", m).fields
<1>1. \A f : f \in DOMAIN a <=>
          f \in DOMAIN m \/ (f \in DOMAIN c.fields /\ c.fields[f].managers # {"user"})
  BY ApplyFields
<1>2. \A f \in DOMAIN m :
          \/ a[f].managers = {"user"}
          \/ f \in DOMAIN c.fields /\ a[f].managers = c.fields[f].managers \cup {"user"}
  BY ApplyFields
<1>3. \A f \in DOMAIN a \ DOMAIN m : a[f].managers = c.fields[f].managers \ {"user"}
  BY ApplyFields
<1> HIDE DEF a
<1>4. ASSUME NoneOfMine(c) PROVE \A f \in DOMAIN a : "trust-manager" \notin a[f].managers
  BY <1>1, <1>2, <1>3, <1>4 DEF NoneOfMine
<1>5. "ownerReferences" \in DOMAIN a => "ownerReferences" \in DOMAIN c.fields
  BY <1>1, ManifestDomain
<1> QED BY <1>4, <1>5 DEF a, NoneOfMine, MapsToBundle, Has

\* The empty apply of the controller gives up all its fields.
LEMMA EmptyApply ==
    ASSUME NEW c
    PROVE  NoneOfMine(Apply(c, "trust-manager", <<>>))
BY ApplyFields DEF NoneOfMine

LEMMA NoneInNothing == NoneOfMine(NoClusterBundle) /\ ~MapsToBundle(NoClusterBundle)
<1>1. DOMAIN NoClusterBundle.fields = {}
  BY DEF NoClusterBundle
<1> QED BY <1>1 DEF NoneOfMine, MapsToBundle, Has

\* Managed depends on spec and UID only.
LEMMA ReportedParts ==
    Reported <=>
        /\ bundle.condition.observed = bundle.gen
        /\ \/ /\ bundle.condition.type = "Deprecated" /\ ~IsUserManaged(cb)
              /\ cb = Apply(cb, "trust-manager", Patch(bundle))
           \/ bundle.condition.type = "Migrated" /\ NoneOfMine(cb)
BY DEF Reported, Managed, LetGo

\* Steps in which all that Settling speaks of stays as it is.
LEMMA SettlingFrame ==
    ASSUME Settling, UNCHANGED <<bundle, cb, bundleC, cbC, cbEvent, queued, pc, b>>
    PROVE  Settling'
BY ReportedParts
   DEF Settling, CacheIsBehind, ReadsBundle, OwnedIsSeen, DecidesRight, HasConverted,
       HasReleased, HasReported, Reported, Managed, LetGo, NoneOfMine,
       MapsToBundle, IsUserManaged, Has

\* Writes of the ClusterBundle by others.
LEMMA SettlingOutside ==
    ASSUME TypeOK, Settling, NEW c, WriteClusterBundle(c),
           UNCHANGED <<bundle, bundleC, cbC, queued, pc, b>>,
           MapsToBundle(c) => MapsToBundle(cb),
           NoneOfMine(cb) => NoneOfMine(c)
    PROVE  Settling'
<1>a. cb' = c /\ cbEvent' = (cbEvent \/ (c # cb /\ (MapsToBundle(cb) \/ MapsToBundle(c))))
  BY DEF WriteClusterBundle
<1>b. cbEvent \in BOOLEAN
  BY DEF TypeOK
<1>1. CASE c = cb
  BY <1>1, <1>a, <1>b, SettlingFrame
<1>2. CASE c # cb
  <2>1. CacheIsBehind' /\ ReadsBundle'
    BY DEF Settling, CacheIsBehind, ReadsBundle
  <2>2. HasReleased'
    BY <1>a DEF Settling, HasReleased, NoneOfMine
  <2>3. CASE MapsToBundle(cb)
    <3>1. cbEvent' = TRUE
      BY <1>2, <1>a, <2>3
    <3> QED BY <2>1, <2>2, <3>1
        DEF Settling, OwnedIsSeen, DecidesRight, HasConverted, HasReported
  <2>4. CASE ~MapsToBundle(cb)
    <3>1. ~MapsToBundle(c) /\ cbEvent' = cbEvent
      BY <1>a, <1>b, <2>4
    <3>2. OwnedIsSeen' /\ DecidesRight'
      BY <1>a, <3>1 DEF OwnedIsSeen, DecidesRight, MapsToBundle
    <3>3. HasConverted'
      <4>1. ~(pc = "deprecated" /\ ~queued /\ ~cbEvent)
        BY <2>4, AppliedIsOwned DEF Settling, HasConverted
      <4> QED BY <3>1, <4>1 DEF HasConverted
    <3>4. HasReported'
      <4> SUFFICES ASSUME pc = "idle", ~queued, ~cbEvent, bundle.exists, bundleC = bundle
                   PROVE  Reported'
        BY <3>1 DEF HasReported
      <4>1. Reported
        BY DEF Settling, HasReported
      <4>2. bundle.condition.observed = bundle.gen
            /\ bundle.condition.type = "Migrated" /\ NoneOfMine(cb)
        BY <2>4, <4>1, ReportedParts, AppliedIsOwned
      <4> QED BY <1>a, <4>2 DEF Reported, LetGo, NoneOfMine
    <3> QED BY <2>1, <2>2, <3>2, <3>3, <3>4 DEF Settling
  <2> QED BY <2>3, <2>4
<1> QED BY <1>1, <1>2

\* A write of an owned ClusterBundle, or one that makes it owned, is noticed.
LEMMA WriteIsSeen ==
    ASSUME TypeOK, OwnedIsSeen, NEW c, WriteClusterBundle(c), UNCHANGED cbC
    PROVE  OwnedIsSeen'
<1>1. cb' = c /\ cbEvent' = (cbEvent \/ (c # cb /\ (MapsToBundle(cb) \/ MapsToBundle(c))))
  BY DEF WriteClusterBundle
<1>2. cbEvent \in BOOLEAN
  BY DEF TypeOK
<1>3. CASE c = cb
  BY <1>1, <1>2, <1>3 DEF OwnedIsSeen, MapsToBundle
<1>4. CASE c # cb
  BY <1>1, <1>2, <1>4 DEF OwnedIsSeen, MapsToBundle
<1> QED BY <1>3, <1>4

\* An error: the worker starts again.
LEMMA SettlingError ==
    ASSUME pc' = "idle", queued' = TRUE, CacheIsBehind', OwnedIsSeen'
    PROVE  Settling'
BY DEF Settling, ReadsBundle, DecidesRight, HasConverted, HasReleased, HasReported

\* A cache does not have a version of the Bundle that is yet to come.
LEMMA EditIsUnseen ==
    ASSUME TypeOK, CacheIsBehind, EditBundle \/ DeleteBundle \/ CreateBundle
    PROVE  CacheIsBehind' /\ (bundle'.exists => bundleC' # bundle')
<1>1. /\ bundle'.exists =>
           \/ bundle'.uid = bundle.uid + 1
           \/ bundle'.uid = bundle.uid /\ bundle.exists /\ bundle'.gen = bundle.gen + 1
      /\ bundle'.uid \in {bundle.uid, bundle.uid + 1}
  BY EditsOK
<1>2. UNCHANGED bundleC
  BY DEF EditBundle, DeleteBundle, CreateBundle
<1>3. /\ bundle.uid \in Nat /\ bundle.gen \in Nat
      /\ bundleC.uid \in Nat /\ bundleC.gen \in Nat
  BY DEF TypeOK, BundleOK
<1>4. CacheIsBehind'
  BY <1>1, <1>2, <1>3 DEF CacheIsBehind
<1>5. bundle'.exists => bundleC' # bundle'
  BY <1>1, <1>2, <1>3 DEF CacheIsBehind
<1> QED BY <1>4, <1>5

\* Changes of the Bundle by users.
LEMMA SettlingEdits ==
    ASSUME TypeOK, Settling, EditBundle \/ DeleteBundle \/ CreateBundle
    PROVE  Settling'
<1>1. UNCHANGED <<cb, bundleC, cbC, cbEvent, queued, pc, b>>
  BY DEF EditBundle, DeleteBundle, CreateBundle
<1>2. CacheIsBehind' /\ (bundle'.exists => bundleC' # bundle')
  BY EditIsUnseen DEF Settling
<1>3. HasReported'
  BY <1>2 DEF HasReported
<1> QED BY <1>1, <1>2, <1>3
    DEF Settling, ReadsBundle, OwnedIsSeen, DecidesRight, HasConverted, HasReleased,
        NoneOfMine, MapsToBundle, IsUserManaged, Has

LEMMA SettlingInit == Init => Settling
<1> SUFFICES ASSUME Init PROVE Settling
  OBVIOUS
<1>1. PICK s \in DOMAIN Specs :
        bundle = [NoBundle EXCEPT !.exists = TRUE, !.uid = 1, !.gen = 1, !.spec = s]
  BY DEF Init
<1>2. bundle.uid = 1 /\ bundleC.uid = 0 /\ bundleC # bundle
  BY <1>1 DEF Init, NoBundle
<1> QED BY <1>2
    DEF Init, Settling, CacheIsBehind, ReadsBundle, OwnedIsSeen, DecidesRight,
        HasConverted, HasReleased, HasReported

LEMMA SettlingStep ==
    ASSUME TypeOK, Settling, [Next]_vars
    PROVE  Settling'
<1>a. /\ CacheIsBehind /\ ReadsBundle /\ OwnedIsSeen /\ DecidesRight
      /\ HasConverted /\ HasReleased /\ HasReported
  BY DEF Settling
<1>b. /\ bundle.uid \in Nat /\ bundle.gen \in Nat
      /\ cbEvent \in BOOLEAN /\ queued \in BOOLEAN
  BY DEF TypeOK, BundleOK
<1>1. CASE SyncBundle
  <2>1. bundleC' = bundle /\ queued' = TRUE
        /\ UNCHANGED <<bundle, cb, cbC, cbEvent, pc>>
    BY <1>1 DEF SyncBundle
  <2> QED BY <1>a, <1>b, <2>1
      DEF Settling, CacheIsBehind, ReadsBundle, OwnedIsSeen, DecidesRight, HasConverted,
          HasReleased, HasReported, NoneOfMine, MapsToBundle
<1>2. CASE SyncClusterBundle
  <2>1. /\ cbC' = cb /\ cbEvent' = FALSE /\ queued' = (queued \/ cbEvent)
        /\ UNCHANGED <<bundle, bundleC, cb, pc, b>>
    BY <1>2 DEF SyncClusterBundle
  <2>2. ~queued' => ~queued /\ ~cbEvent
    BY <1>b, <2>1
  <2>3. OwnedIsSeen'
    BY <2>1 DEF OwnedIsSeen
  <2>4. CacheIsBehind' /\ ReadsBundle' /\ HasReleased'
    BY <1>a, <2>1, <2>2 DEF CacheIsBehind, ReadsBundle, HasReleased, NoneOfMine
  <2>5. DecidesRight' /\ HasConverted'
    BY <1>a, <2>1, <2>2 DEF DecidesRight, HasConverted, MapsToBundle, IsUserManaged
  <2>6. HasReported'
    BY <1>a, <2>1, <2>2
    DEF HasReported, Reported, Managed, LetGo, IsUserManaged
  <2> QED BY <2>3, <2>4, <2>5, <2>6 DEF Settling
<1>3. CASE GetBundle
  <2>1. /\ queued' = FALSE /\ b' = bundleC
        /\ pc' = IF bundleC.exists THEN "get" ELSE "idle"
        /\ UNCHANGED <<bundle, bundleC, cb, cbC, cbEvent>>
    BY <1>3 DEF GetBundle
  <2>2. CacheIsBehind' /\ ReadsBundle' /\ OwnedIsSeen'
    BY <1>a, <2>1 DEF CacheIsBehind, ReadsBundle, OwnedIsSeen, MapsToBundle
  <2>3. DecidesRight' /\ HasConverted' /\ HasReleased'
    BY <2>1 DEF DecidesRight, HasConverted, HasReleased
  <2>4. HasReported'
    BY <2>1 DEF HasReported
  <2> QED BY <2>2, <2>3, <2>4 DEF Settling
<1>4. CASE GetClusterBundle
  <2>1. /\ pc = "get"
        /\ pc' = IF IsUserManaged(cbC) THEN "unmanage" ELSE "apply"
        /\ UNCHANGED <<bundle, cb, bundleC, cbC, cbEvent, queued, b>>
    BY <1>4 DEF GetClusterBundle
  <2>2. CacheIsBehind' /\ ReadsBundle' /\ OwnedIsSeen'
    BY <1>a, <2>1 DEF CacheIsBehind, ReadsBundle, OwnedIsSeen, MapsToBundle
  <2>3. DecidesRight'
    BY <1>a, <2>1 DEF DecidesRight, OwnedIsSeen, IsUserManaged, MapsToBundle
  <2>4. HasConverted' /\ HasReleased' /\ HasReported'
    BY <2>1 DEF HasConverted, HasReleased, HasReported
  <2> QED BY <2>2, <2>3, <2>4 DEF Settling
<1>5. CASE ApplyClusterBundle
  <2> DEFINE c == Apply(cb, "trust-manager", Patch(b))
  <2>1. pc = "apply" /\ UNCHANGED <<bundle, bundleC, cbC, b>>
    BY <1>5 DEF ApplyClusterBundle
  <2>2. CacheIsBehind'
    BY <1>a, <2>1 DEF CacheIsBehind
  <2>3. CASE WriteClusterBundle(c) /\ pc' = "deprecated" /\ UNCHANGED queued
    <3>1. OwnedIsSeen'
      BY <1>a, <2>1, <2>3, WriteIsSeen
    <3>2. HasConverted'
      <4> SUFFICES ASSUME ~queued, ~cbEvent'
                   PROVE  ~IsUserManaged(cb)' /\ (cb = Apply(cb, "trust-manager", Patch(b)))'
        BY <2>3 DEF HasConverted
      <4>1. cb' = c /\ MapsToBundle(c)
        BY <2>3, AppliedIsOwned DEF WriteClusterBundle
      <4>2. ~cbEvent /\ c = cb
        BY <1>b, <2>3, <4>1 DEF WriteClusterBundle
      <4>3. ~IsUserManaged(cb)
        BY <1>a, <2>1, <4>1, <4>2 DEF DecidesRight
      <4>4. Patch(b)' = Patch(b)
        BY <2>1 DEF Patch
      <4> QED BY <4>1, <4>2, <4>3, <4>4 DEF IsUserManaged
    <3>3. ReadsBundle'
      BY <1>a, <2>1, <2>3 DEF ReadsBundle
    <3> QED BY <2>2, <2>3, <3>1, <3>2, <3>3
        DEF Settling, DecidesRight, HasReleased, HasReported
  <2>4. CASE /\ WriteClusterBundle(c) \/ UNCHANGED <<cb, cbEvent>>
             /\ pc' = "idle" /\ queued' = TRUE
    <3>1. CASE WriteClusterBundle(c)
      BY <1>a, <2>1, <2>2, <2>4, <3>1, WriteIsSeen, SettlingError
    <3>2. CASE UNCHANGED <<cb, cbEvent>>
      <4>1. OwnedIsSeen'
        BY <1>a, <2>1, <3>2 DEF OwnedIsSeen, MapsToBundle
      <4> QED BY <2>2, <2>4, <4>1, SettlingError
    <3> QED BY <2>4, <3>1, <3>2
  <2> QED BY <1>5, <2>3, <2>4 DEF ApplyClusterBundle, Call, Error
<1>6. CASE UnmanageClusterBundle
  <2> DEFINE c == Apply(cb, "trust-manager", <<>>)
  <2>1. pc = "unmanage" /\ UNCHANGED <<bundle, bundleC, cbC, b>>
    BY <1>6 DEF UnmanageClusterBundle
  <2>2. CacheIsBehind'
    BY <1>a, <2>1 DEF CacheIsBehind
  <2>3. CASE WriteClusterBundle(c) /\ pc' = "migrated" /\ UNCHANGED queued
    <3>1. OwnedIsSeen'
      BY <1>a, <2>1, <2>3, WriteIsSeen
    <3>2. HasReleased'
      BY <2>3, EmptyApply DEF HasReleased, WriteClusterBundle, NoneOfMine
    <3>3. ReadsBundle'
      BY <1>a, <2>1, <2>3 DEF ReadsBundle
    <3> QED BY <2>2, <2>3, <3>1, <3>2, <3>3
        DEF Settling, DecidesRight, HasConverted, HasReported
  <2>4. CASE /\ WriteClusterBundle(c) \/ UNCHANGED <<cb, cbEvent>>
             /\ pc' = "idle" /\ queued' = TRUE
    <3>1. CASE WriteClusterBundle(c)
      BY <1>a, <2>1, <2>2, <2>4, <3>1, WriteIsSeen, SettlingError
    <3>2. CASE UNCHANGED <<cb, cbEvent>>
      <4>1. OwnedIsSeen'
        BY <1>a, <2>1, <3>2 DEF OwnedIsSeen, MapsToBundle
      <4> QED BY <2>2, <2>4, <4>1, SettlingError
    <3> QED BY <2>4, <3>1, <3>2
  <2> QED BY <1>6, <2>3, <2>4 DEF UnmanageClusterBundle, Call, Error
<1>7. CASE ApplyBundleCondition
  <2> DEFINE t == IF pc = "migrated" THEN "Migrated" ELSE "Deprecated"
             new == [bundle EXCEPT !.condition = Condition(t)]
  <2>1. pc \in {"deprecated", "migrated"} /\ UNCHANGED <<cb, bundleC, cbC, cbEvent, b>>
    BY <1>7 DEF ApplyBundleCondition
  <2>2. bundle' \in {bundle, new} /\ pc' = "idle"
    BY <1>7 DEF ApplyBundleCondition, Call, Error
  <2>3. BundleOK(bundle)
    BY DEF TypeOK
  <2>4. /\ new.uid = bundle.uid /\ new.gen = bundle.gen /\ new.exists = bundle.exists
        /\ new.spec = bundle.spec /\ new.condition = Condition(t)
    BY <2>3 DEF BundleOK
  <2>5. /\ bundle'.uid = bundle.uid /\ bundle'.gen = bundle.gen
        /\ bundle'.exists = bundle.exists
    BY <2>2, <2>4
  <2>6. CacheIsBehind' /\ OwnedIsSeen'
    BY <1>a, <2>1, <2>5 DEF CacheIsBehind, OwnedIsSeen, MapsToBundle
  <2>7. CASE queued' = TRUE
    BY <2>2, <2>6, <2>7, SettlingError
  <2>8. CASE bundle' = new /\ UNCHANGED queued
    <3>1. HasReported'
      <4> SUFFICES ASSUME ~queued, ~cbEvent, bundle'.exists, bundleC' = bundle'
                   PROVE  Reported'
        BY <2>1, <2>8 DEF HasReported
      <4>1. b = bundleC
        BY <1>a, <2>1 DEF ReadsBundle
      <4>2. b.gen = new.gen /\ b.spec = new.spec /\ b.uid = new.uid
        BY <2>1, <2>8, <4>1
      <4>3. new.condition.type = t /\ new.condition.observed = new.gen
        BY <2>4, <4>2 DEF Condition
      <4>4. Patch(b) = Patch(bundle')
        BY <2>8, <4>2 DEF Patch
      <4>5. CASE pc = "migrated"
        BY <1>a, <2>1, <2>8, <4>3, <4>5 DEF HasReleased, Reported, LetGo, NoneOfMine
      <4>6. CASE pc = "deprecated"
        <5>1. ~IsUserManaged(cb) /\ cb = Apply(cb, "trust-manager", Patch(bundle'))
          BY <1>a, <2>1, <4>4, <4>6 DEF HasConverted
        <5>2. bundle'.condition.type = "Deprecated"
              /\ bundle'.condition.observed = bundle'.gen
          BY <2>8, <4>3, <4>6
        <5>3. Managed'
          BY <2>1, <5>1, <5>2 DEF Managed, IsUserManaged
        <5> QED BY <5>2, <5>3 DEF Reported
      <4> QED BY <2>1, <4>5, <4>6
    <3>2. ReadsBundle' /\ DecidesRight' /\ HasConverted' /\ HasReleased'
      BY <2>2 DEF ReadsBundle, DecidesRight, HasConverted, HasReleased
    <3> QED BY <2>6, <3>1, <3>2 DEF Settling
  <2> QED BY <1>7, <2>7, <2>8 DEF ApplyBundleCondition, Call, Error
<1>8. CASE Restart
  <2>1. /\ pc' = "idle" /\ bundleC' = bundle /\ cbC' = cb /\ cbEvent' = FALSE
        /\ queued' = (bundle.exists \/ MapsToBundle(cb))
        /\ UNCHANGED <<bundle, cb>>
    BY <1>8 DEF Restart
  <2>2. CacheIsBehind' /\ OwnedIsSeen'
    BY <1>b, <2>1 DEF CacheIsBehind, OwnedIsSeen
  <2>3. ReadsBundle' /\ DecidesRight' /\ HasConverted' /\ HasReleased' /\ HasReported'
    BY <2>1 DEF ReadsBundle, DecidesRight, HasConverted, HasReleased, HasReported
  <2> QED BY <2>2, <2>3 DEF Settling
<1>9. CASE CollectGarbage \/ DeleteClusterBundle
  BY <1>9, SettlingOutside, NoneInNothing
  DEF CollectGarbage, DeleteClusterBundle, UserWrites
<1>10. CASE EditBundle \/ DeleteBundle \/ CreateBundle
  BY <1>10, SettlingEdits
<1>11. CASE ApplyManifest
  <2>1. PICK m \in Manifests : WriteClusterBundle(Apply(cb, "user", m))
    BY <1>11 DEF ApplyManifest, UserWrites
  <2> QED BY <1>11, <2>1, SettlingOutside, UserApply DEF ApplyManifest, UserWrites
<1>12. CASE UNCHANGED vars
  BY <1>12, SettlingFrame DEF vars
<1> QED
  BY <1>1, <1>2, <1>3, <1>4, <1>5, <1>6, <1>7, <1>8, <1>9, <1>10, <1>11, <1>12
  DEF Next, Worker, System, User

-----------------------------------------------------------------------------
(***************************************************************************)
(* Settling alone would take a ClusterBundle without anything in it for a   *)
(* migrated one, and the controller makes such ClusterBundles: the patch    *)
(* that gives up its fields creates the object if it was deleted.  What     *)
(* rules that out is that the annotation, which is never the controller's,  *)
(* goes away in two ways only: a user gives the ClusterBundle back, or the  *)
(* garbage collector deletes it, and that is a change of an owned           *)
(* ClusterBundle, which wakes the controller.                               *)
(***************************************************************************)
\* The annotation is of users only.
AnnotationIsUsers ==
    IsUserManaged(cb) => "trust-manager" \notin cb.fields.migrated.managers

\* The annotation is there, or a user took it away, or it will be looked at again.
Kept == IsUserManaged(cb) \/ returned \/ cbEvent

SeenIsKept == IsUserManaged(cbC) => Kept

DecidedIsKept == pc \in {"unmanage", "migrated"} => Kept \/ queued

SaidIsKept ==
    pc = "idle" /\ ~queued /\ bundle.exists /\ bundleC = bundle
        /\ bundle.condition.type = "Migrated" => Kept

TakenOver == AnnotationIsUsers /\ SeenIsKept /\ DecidedIsKept /\ SaidIsKept

\* What the controller's applies do to annotation and owner reference.
LEMMA ControllerApply ==
    ASSUME NEW c, NEW p, "migrated" \notin DOMAIN p,
           IsUserManaged(c) => "trust-manager" \notin c.fields.migrated.managers
    PROVE  LET a == Apply(c, "trust-manager", p)
           IN /\ IsUserManaged(c) => IsUserManaged(a)
              /\ IsUserManaged(a) => "trust-manager" \notin a.fields.migrated.managers
              /\ "ownerReferences" \in DOMAIN p =>
                    a.fields.ownerReferences.value = p["ownerReferences"]
              /\ "ownerReferences" \notin DOMAIN p /\ ClusterBundleOK(c) =>
                    ~MapsToBundle(a)
<1> DEFINE a == Apply(c, "trust-manager", p).fields
<1>1. \A f : f \in DOMAIN a <=>
          \/ f \in DOMAIN p
          \/ f \in DOMAIN c.fields /\ c.fields[f].managers # {"trust-manager"}
  BY ApplyFields
<1>2. \A f \in DOMAIN a \ DOMAIN p :
          a[f].managers = c.fields[f].managers \ {"trust-manager"}
  BY ApplyFields
<1>3. \A f \in DOMAIN p : a[f].value = p[f]
  BY ApplyFields
<1>4. ASSUME "migrated" \in DOMAIN c.fields PROVE "migrated" \in DOMAIN a
  <2>1. c.fields["migrated"].managers # {"trust-manager"}
    BY <1>4 DEF IsUserManaged, Has
  <2> QED BY <1>1, <1>4, <2>1
<1>5. "migrated" \in DOMAIN a => "trust-manager" \notin a["migrated"].managers
  BY <1>2
<1>6. "ownerReferences" \notin DOMAIN p /\ ClusterBundleOK(c) =>
          "ownerReferences" \notin DOMAIN a
  BY <1>1 DEF ClusterBundleOK, MapsToBundle, Has
<1> HIDE DEF a
<1> QED BY <1>3, <1>4, <1>5, <1>6 DEF a, IsUserManaged, MapsToBundle, Has

\* What the applies of users do to them.
LEMMA UserApplyHandover ==
    ASSUME NEW c, NEW m \in Manifests,
           IsUserManaged(c) => "trust-manager" \notin c.fields.migrated.managers
    PROVE  LET a == Apply(c, "user", m)
           IN /\ Has(m, "migrated") => IsUserManaged(a)
              /\ IsUserManaged(a) => "trust-manager" \notin a.fields.migrated.managers
              /\ MapsToBundle(a) =>
                    /\ MapsToBundle(c)
                    /\ a.fields.ownerReferences.value = c.fields.ownerReferences.value
<1> DEFINE a == Apply(c, "user", m).fields
<1>1. \A f : f \in DOMAIN a <=>
          f \in DOMAIN m \/ (f \in DOMAIN c.fields /\ c.fields[f].managers # {"user"})
  BY ApplyFields
<1>2. \A f \in DOMAIN m :
          \/ a[f].managers = {"user"}
          \/ f \in DOMAIN c.fields /\ a[f].managers = c.fields[f].managers \cup {"user"}
  BY ApplyFields
<1>3. \A f \in DOMAIN a \ DOMAIN m :
          /\ a[f].value = c.fields[f].value
          /\ a[f].managers = c.fields[f].managers \ {"user"}
  BY ApplyFields
<1>4. "ownerReferences" \notin DOMAIN m
  BY ManifestDomain
<1>5. "migrated" \in DOMAIN a => "trust-manager" \notin a["migrated"].managers
  BY <1>1, <1>2, <1>3 DEF IsUserManaged, Has
<1> HIDE DEF a
<1> QED BY <1>1, <1>3, <1>4, <1>5 DEF a, IsUserManaged, MapsToBundle, Has

\* Steps in which all that TakenOver speaks of stays as it is.
LEMMA TakenOverFrame ==
    ASSUME TakenOver,
           UNCHANGED <<bundle, cb, bundleC, cbC, cbEvent, queued, pc, returned>>
    PROVE  TakenOver'
BY DEF TakenOver, AnnotationIsUsers, SeenIsKept, DecidedIsKept, SaidIsKept, Kept,
       IsUserManaged, Has

LEMMA TakenOverInit == Init => TakenOver
<1> SUFFICES ASSUME Init PROVE TakenOver
  OBVIOUS
<1>1. PICK s \in DOMAIN Specs :
        bundle = [NoBundle EXCEPT !.exists = TRUE, !.uid = 1, !.gen = 1, !.spec = s]
  BY DEF Init
<1>2. bundle.condition.type = "none"
  BY <1>1 DEF NoBundle, NoCondition
<1>3. DOMAIN NoClusterBundle.fields = {}
  BY DEF NoClusterBundle
<1>4. cb = NoClusterBundle /\ cbC = NoClusterBundle /\ pc = "idle"
  BY DEF Init
<1> QED BY <1>2, <1>3, <1>4
    DEF TakenOver, AnnotationIsUsers, SeenIsKept, DecidedIsKept, SaidIsKept,
        IsUserManaged, Has

\* Writes of the ClusterBundle that keep the annotation, are noticed, or give it
\* back.
LEMMA TakenOverWrite ==
    ASSUME TypeOK, TakenOver, NEW c, WriteClusterBundle(c),
           UNCHANGED <<bundle, bundleC, cbC>>, queued' \in {queued, TRUE},
           returned' \in {returned, TRUE},
           pc' = pc \/ (pc = "unmanage" /\ pc' = "migrated")
                \/ (pc = "apply" /\ pc' = "deprecated")
                \/ (pc' = "idle" /\ queued' = TRUE),
           IsUserManaged(c) => "trust-manager" \notin c.fields.migrated.managers,
           IsUserManaged(cb) => IsUserManaged(c) \/ returned' \/ cbEvent'
    PROVE  TakenOver'
<1>1. cb' = c /\ (cbEvent => cbEvent')
  BY DEF WriteClusterBundle
<1>2. Kept => Kept'
  BY <1>1 DEF Kept, IsUserManaged
<1>3. AnnotationIsUsers' /\ SeenIsKept'
  BY <1>1, <1>2 DEF TakenOver, AnnotationIsUsers, SeenIsKept, IsUserManaged
<1>4. DecidedIsKept' /\ SaidIsKept'
  BY <1>2 DEF TakenOver, DecidedIsKept, SaidIsKept
<1> QED BY <1>3, <1>4 DEF TakenOver

LEMMA TakenOverStep ==
    ASSUME TypeOK, Settling, TakenOver, [Next]_vars
    PROVE  TakenOver'
<1>a. AnnotationIsUsers /\ SeenIsKept /\ DecidedIsKept /\ SaidIsKept
  BY DEF TakenOver
<1>b. /\ cbEvent \in BOOLEAN /\ queued \in BOOLEAN /\ returned \in BOOLEAN
      /\ BundleOK(bundle) /\ ClusterBundleOK(cb)
  BY TypeParts
<1>1. CASE SyncBundle
  <2>1. queued' = TRUE /\ UNCHANGED <<cb, cbC, cbEvent, pc, returned>>
    BY <1>1 DEF SyncBundle
  <2> QED BY <1>a, <2>1
      DEF TakenOver, AnnotationIsUsers, SeenIsKept, DecidedIsKept, SaidIsKept, Kept,
          IsUserManaged
<1>2. CASE SyncClusterBundle
  <2>1. /\ cbC' = cb /\ cbEvent' = FALSE /\ queued' = (queued \/ cbEvent)
        /\ UNCHANGED <<bundle, bundleC, cb, pc, returned>>
    BY <1>2 DEF SyncClusterBundle
  <2>2. Kept => Kept' \/ queued'
    BY <2>1 DEF Kept, IsUserManaged
  <2>3. AnnotationIsUsers' /\ SeenIsKept'
    BY <1>a, <2>1 DEF AnnotationIsUsers, SeenIsKept, Kept, IsUserManaged
  <2>4. queued => queued'
    BY <2>1
  <2>5. DecidedIsKept' /\ SaidIsKept'
    BY <1>a, <2>1, <2>2, <2>4 DEF DecidedIsKept, SaidIsKept
  <2> QED BY <2>3, <2>5 DEF TakenOver
<1>3. CASE GetBundle
  <2>1. /\ pc' = IF bundleC.exists THEN "get" ELSE "idle"
        /\ UNCHANGED <<bundle, bundleC, cb, cbC, cbEvent, returned>>
    BY <1>3 DEF GetBundle
  <2> QED BY <1>a, <2>1
      DEF TakenOver, AnnotationIsUsers, SeenIsKept, DecidedIsKept, SaidIsKept, Kept,
          IsUserManaged
<1>4. CASE GetClusterBundle
  <2>1. /\ pc' = IF IsUserManaged(cbC) THEN "unmanage" ELSE "apply"
        /\ UNCHANGED <<bundle, cb, bundleC, cbC, cbEvent, queued, returned>>
    BY <1>4 DEF GetClusterBundle
  <2> QED BY <1>a, <2>1
      DEF TakenOver, AnnotationIsUsers, SeenIsKept, DecidedIsKept, SaidIsKept, Kept,
          IsUserManaged
<1>5. CASE ApplyClusterBundle
  <2> DEFINE c == Apply(cb, "trust-manager", Patch(b))
  <2>1. /\ pc = "apply" /\ UNCHANGED <<bundle, bundleC, cbC, returned>>
        /\ \/ pc' = "deprecated" /\ UNCHANGED queued
           \/ pc' = "idle" /\ queued' = TRUE
    BY <1>5 DEF ApplyClusterBundle, Call, Error
  <2>2. /\ IsUserManaged(cb) => IsUserManaged(c)
        /\ IsUserManaged(c) => "trust-manager" \notin c.fields.migrated.managers
    BY <1>a, ControllerApply, PatchDomain DEF AnnotationIsUsers
  <2>3. WriteClusterBundle(c) \/ (UNCHANGED <<cb, cbEvent>> /\ pc' = "idle")
    BY <1>5 DEF ApplyClusterBundle, Call, Error
  <2> HIDE DEF c
  <2>4. CASE WriteClusterBundle(c)
    BY <2>1, <2>2, <2>4, TakenOverWrite
  <2>5. CASE UNCHANGED <<cb, cbEvent>> /\ pc' = "idle"
    BY <1>a, <2>1, <2>5
    DEF TakenOver, AnnotationIsUsers, SeenIsKept, DecidedIsKept, SaidIsKept, Kept,
        IsUserManaged
  <2> QED BY <2>3, <2>4, <2>5
<1>6. CASE UnmanageClusterBundle
  <2> DEFINE c == Apply(cb, "trust-manager", <<>>)
  <2>1. /\ pc = "unmanage" /\ UNCHANGED <<bundle, bundleC, cbC, returned>>
        /\ \/ pc' = "migrated" /\ UNCHANGED queued
           \/ pc' = "idle" /\ queued' = TRUE
    BY <1>6 DEF UnmanageClusterBundle, Call, Error
  <2>2. /\ IsUserManaged(cb) => IsUserManaged(c)
        /\ IsUserManaged(c) => "trust-manager" \notin c.fields.migrated.managers
    BY <1>a, ControllerApply DEF AnnotationIsUsers
  <2>3. WriteClusterBundle(c) \/ (UNCHANGED <<cb, cbEvent>> /\ pc' = "idle")
    BY <1>6 DEF UnmanageClusterBundle, Call, Error
  <2> HIDE DEF c
  <2>4. CASE WriteClusterBundle(c)
    BY <2>1, <2>2, <2>4, TakenOverWrite
  <2>5. CASE UNCHANGED <<cb, cbEvent>> /\ pc' = "idle"
    BY <1>a, <2>1, <2>5
    DEF TakenOver, AnnotationIsUsers, SeenIsKept, DecidedIsKept, SaidIsKept, Kept,
        IsUserManaged
  <2> QED BY <2>3, <2>4, <2>5
<1>7. CASE ApplyBundleCondition
  <2> DEFINE t == IF pc = "migrated" THEN "Migrated" ELSE "Deprecated"
             new == [bundle EXCEPT !.condition = Condition(t)]
  <2>1. /\ pc \in {"deprecated", "migrated"} /\ pc' = "idle"
        /\ UNCHANGED <<cb, bundleC, cbC, cbEvent, returned>>
    BY <1>7 DEF ApplyBundleCondition, Call, Error
  <2>2. queued' = TRUE \/ (bundle' = new /\ UNCHANGED queued)
    BY <1>7 DEF ApplyBundleCondition, Call, Error
  <2>3. new.condition.type = t
    BY <1>b DEF BundleOK, Condition
  <2>4. Kept' <=> Kept
    BY <2>1 DEF Kept, IsUserManaged
  <2>5. SaidIsKept'
    <3>1. pc = "migrated" /\ ~queued' => Kept'
      BY <1>a, <2>1, <2>2, <2>4 DEF DecidedIsKept
    <3>2. pc = "deprecated" /\ ~queued' => bundle'.condition.type = "Deprecated"
      BY <2>2, <2>3
    <3> QED BY <2>1, <3>1, <3>2 DEF SaidIsKept
  <2>6. AnnotationIsUsers' /\ SeenIsKept' /\ DecidedIsKept'
    BY <1>a, <2>1, <2>4 DEF AnnotationIsUsers, SeenIsKept, DecidedIsKept, IsUserManaged
  <2> QED BY <2>5, <2>6 DEF TakenOver
<1>8. CASE Restart
  <2>1. /\ pc' = "idle" /\ cbC' = cb /\ UNCHANGED <<bundle, cb, returned>>
        /\ queued' = (bundle.exists \/ MapsToBundle(cb))
    BY <1>8 DEF Restart
  <2> QED BY <1>a, <2>1
      DEF TakenOver, AnnotationIsUsers, SeenIsKept, DecidedIsKept, SaidIsKept, Kept,
          IsUserManaged
<1>9. CASE CollectGarbage
  <2>1. MapsToBundle(cb) /\ WriteClusterBundle(NoClusterBundle)
        /\ UNCHANGED <<bundle, bundleC, cbC, queued, pc, returned>>
    BY <1>9 DEF CollectGarbage
  <2>2. ~IsUserManaged(NoClusterBundle) /\ ~MapsToBundle(NoClusterBundle)
    BY NoneInNothing DEF NoClusterBundle, IsUserManaged, Has
  <2>3. cbEvent'
    BY <2>1, <2>2 DEF WriteClusterBundle
  <2> QED BY <2>1, <2>2, <2>3, TakenOverWrite
<1>10. CASE EditBundle \/ DeleteBundle \/ CreateBundle
  <2>1. UNCHANGED <<cb, bundleC, cbC, cbEvent, queued, pc, returned>>
    BY <1>10 DEF EditBundle, DeleteBundle, CreateBundle
  <2>2. bundle'.exists => bundleC' # bundle'
    BY <1>10, EditIsUnseen DEF Settling
  <2> QED BY <1>a, <2>1, <2>2
      DEF TakenOver, AnnotationIsUsers, SeenIsKept, DecidedIsKept, SaidIsKept, Kept,
          IsUserManaged
<1>11. CASE ApplyManifest \/ DeleteClusterBundle
  <2>1. PICK c : /\ UserWrites(c)
                 /\ IsUserManaged(c) => "trust-manager" \notin c.fields.migrated.managers
    <3>1. CASE ApplyManifest
      <4>1. PICK m \in Manifests : UserWrites(Apply(cb, "user", m))
        BY <3>1 DEF ApplyManifest
      <4> QED BY <1>a, <4>1, UserApplyHandover DEF AnnotationIsUsers
    <3>2. CASE DeleteClusterBundle
      <4>1. ~IsUserManaged(NoClusterBundle)
        BY NoneInNothing DEF NoClusterBundle, IsUserManaged, Has
      <4> QED BY <3>2, <4>1 DEF DeleteClusterBundle
    <3> QED BY <1>11, <3>1, <3>2
  <2>2. /\ WriteClusterBundle(c) /\ UNCHANGED <<bundle, bundleC, cbC, queued, pc>>
        /\ returned' = (returned \/ (IsUserManaged(cb) /\ ~IsUserManaged(c)))
    BY <2>1 DEF UserWrites
  <2>3. returned' \in {returned, TRUE}
        /\ (IsUserManaged(cb) => IsUserManaged(c) \/ returned')
    BY <1>b, <2>2 DEF IsUserManaged, Has
  <2> QED BY <2>1, <2>2, <2>3, TakenOverWrite
<1>12. CASE UNCHANGED vars
  BY <1>12, TakenOverFrame DEF vars
<1> QED
  BY <1>1, <1>2, <1>3, <1>4, <1>5, <1>6, <1>7, <1>8, <1>9, <1>10, <1>11, <1>12
  DEF Next, Worker, System, User

\* When no event and no work is left, the Bundle is converted, in its latest
\* version, or released to a user who has not given it back, and says which: no
\* interleaving of changes, late events, failed calls and restarts makes the
\* controller stop in between.
THEOREM RestsConsistently == Spec => []RestIsConsistent
<1>1. TypeOK /\ Settling /\ TakenOver /\ [Next]_vars => TypeOK' /\ Settling' /\ TakenOver'
  BY TypeStep, SettlingStep, TakenOverStep
<1>2. Init => TypeOK /\ Settling /\ TakenOver
  BY TypeInit, SettlingInit, TakenOverInit
<1>3. Settling /\ TakenOver => RestIsConsistent
  <2> SUFFICES ASSUME Settling, TakenOver, Rest, bundle.exists
               PROVE  bundle.condition.observed = bundle.gen /\ (Managed \/ Released)
    BY DEF RestIsConsistent
  <2>1. bundle.condition.observed = bundle.gen /\ (Managed \/ LetGo)
    BY DEF Settling, HasReported, Reported, Rest
  <2>2. LetGo => IsUserManaged(cb) \/ returned
    BY DEF TakenOver, SaidIsKept, Kept, LetGo, Rest
  <2> QED BY <2>1, <2>2 DEF LetGo, Released, NoneOfMine
<1> QED BY <1>1, <1>2, <1>3, PTL DEF Spec

-----------------------------------------------------------------------------
(***************************************************************************)
(* SafeToDelete needs that the controller does not turn back: once the      *)
(* first Bundle says Migrated, the cache has the annotation, which stays    *)
(* until a user gives the ClusterBundle back: the garbage collector does    *)
(* not touch it, as the owner reference can only name that Bundle.  So no   *)
(* reconcile decides to apply any more.                                     *)
(***************************************************************************)
First == bundle.exists /\ bundle.uid = 1

UIDsGrow ==
    /\ bundle.uid >= 1
    /\ bundleC.exists => bundleC.uid \in 1..bundle.uid
    /\ pc # "idle" => b.uid \in 1..bundle.uid

OwnerIsFirst == First /\ MapsToBundle(cb) => cb.fields.ownerReferences.value = 1

TakenOverStays == First /\ IsUserManaged(cbC) => IsUserManaged(cb)

ReleasesTakenOver == First /\ pc \in {"unmanage", "migrated"} => IsUserManaged(cbC)

NoWayBack ==
    First /\ bundle.condition.type = "Migrated" =>
        /\ IsUserManaged(cbC) /\ ~MapsToBundle(cb)
        /\ pc \notin {"apply", "deprecated"}

Handover == /\ UIDsGrow /\ OwnerIsFirst /\ TakenOverStays /\ ReleasesTakenOver
            /\ NoWayBack

LEMMA HandoverInit == Init => Handover
<1> SUFFICES ASSUME Init PROVE Handover
  OBVIOUS
<1>1. PICK s \in DOMAIN Specs :
        bundle = [NoBundle EXCEPT !.exists = TRUE, !.uid = 1, !.gen = 1, !.spec = s]
  BY DEF Init
<1>2. bundle.uid = 1 /\ bundle.condition.type = "none"
  BY <1>1 DEF NoBundle, NoCondition
<1>3. DOMAIN NoClusterBundle.fields = {}
  BY DEF NoClusterBundle
<1>4. cb = NoClusterBundle /\ cbC = NoClusterBundle /\ ~bundleC.exists /\ pc = "idle"
  BY DEF Init, NoBundle
<1> QED BY <1>2, <1>3, <1>4
    DEF Handover, UIDsGrow, OwnerIsFirst, TakenOverStays,
        ReleasesTakenOver, NoWayBack, IsUserManaged, MapsToBundle, Has

\* Writes of the ClusterBundle: what they may do to annotation and owner reference.
LEMMA HandoverWrite ==
    ASSUME TypeOK, Handover, NEW c, WriteClusterBundle(c),
           UNCHANGED <<bundle, bundleC, cbC, b>>, pc' \in {pc, "idle"},
           First /\ IsUserManaged(cb) => IsUserManaged(c),
           First /\ MapsToBundle(c) =>
                MapsToBundle(cb) /\ c.fields.ownerReferences.value = 1
    PROVE  Handover'
<1>1. cb' = c
  BY DEF WriteClusterBundle
<1>2. First' <=> First
  BY DEF First
<1> QED BY <1>1, <1>2
    DEF Handover, UIDsGrow, OwnerIsFirst, TakenOverStays,
        ReleasesTakenOver, NoWayBack, IsUserManaged, MapsToBundle, Has

LEMMA HandoverStep ==
    ASSUME TypeOK, Settling, AnnotationIsUsers, Handover, [Next]_vars, ~returned'
    PROVE  Handover'
<1>a. UIDsGrow /\ OwnerIsFirst /\ TakenOverStays /\ ReleasesTakenOver /\ NoWayBack
  BY DEF Handover
<1>b. /\ bundle.uid \in Nat /\ bundleC.uid \in Nat /\ b.uid \in Nat
      /\ BundleOK(bundle) /\ ClusterBundleOK(cb)
  BY TypeParts DEF BundleOK
<1> USE DEF First
<1>1. CASE SyncBundle
  <2>1. bundleC' = bundle /\ UNCHANGED <<bundle, cb, cbC, pc, b>>
    BY <1>1 DEF SyncBundle
  <2> QED BY <1>a, <1>b, <2>1
      DEF Handover, UIDsGrow, OwnerIsFirst, TakenOverStays,
          ReleasesTakenOver, NoWayBack, IsUserManaged, MapsToBundle, Has
<1>2. CASE SyncClusterBundle
  <2>1. cbC' = cb /\ UNCHANGED <<bundle, bundleC, cb, pc, b>>
    BY <1>2 DEF SyncClusterBundle
  <2> QED BY <1>a, <2>1
      DEF Handover, UIDsGrow, OwnerIsFirst, TakenOverStays,
          ReleasesTakenOver, NoWayBack, IsUserManaged, MapsToBundle, Has
<1>3. CASE GetBundle
  <2>1. /\ pc = "idle" /\ b' = bundleC
        /\ pc' = IF bundleC.exists THEN "get" ELSE "idle"
        /\ UNCHANGED <<bundle, bundleC, cb, cbC>>
    BY <1>3 DEF GetBundle
  <2> QED BY <1>a, <2>1
      DEF Handover, UIDsGrow, OwnerIsFirst, TakenOverStays,
          ReleasesTakenOver, NoWayBack, IsUserManaged, MapsToBundle, Has
<1>4. CASE GetClusterBundle
  <2>1. /\ pc = "get" /\ pc' = IF IsUserManaged(cbC) THEN "unmanage" ELSE "apply"
        /\ UNCHANGED <<bundle, bundleC, cb, cbC, b>>
    BY <1>4 DEF GetClusterBundle
  <2> QED BY <1>a, <2>1
      DEF Handover, UIDsGrow, OwnerIsFirst, TakenOverStays,
          ReleasesTakenOver, NoWayBack, IsUserManaged, MapsToBundle, Has
<1>5. CASE ApplyClusterBundle
  <2> DEFINE c == Apply(cb, "trust-manager", Patch(b))
  <2>1. pc = "apply" /\ pc' \in {"deprecated", "idle"}
        /\ UNCHANGED <<bundle, bundleC, cbC, b>>
    BY <1>5 DEF ApplyClusterBundle, Call, Error
  <2>2. WriteClusterBundle(c) \/ UNCHANGED <<cb, cbEvent>>
    BY <1>5 DEF ApplyClusterBundle, Call
  <2>3. /\ IsUserManaged(cb) => IsUserManaged(c)
        /\ c.fields.ownerReferences.value = b.uid
    BY <1>a, ControllerApply, PatchDomain DEF AnnotationIsUsers
  <2>4. First => b.uid = 1
    BY <1>a, <1>b, <2>1 DEF UIDsGrow
  <2>5. cb' \in {cb, c}
    BY <2>2 DEF WriteClusterBundle
  <2> HIDE DEF c
  <2>6. OwnerIsFirst' /\ TakenOverStays'
    BY <1>a, <2>1, <2>3, <2>4, <2>5
    DEF OwnerIsFirst, TakenOverStays, IsUserManaged, MapsToBundle, Has
  <2>7. UIDsGrow' /\ ReleasesTakenOver' /\ NoWayBack'
    BY <1>a, <2>1 DEF UIDsGrow, ReleasesTakenOver, NoWayBack
  <2> QED BY <2>6, <2>7 DEF Handover
<1>6. CASE UnmanageClusterBundle
  <2> DEFINE c == Apply(cb, "trust-manager", <<>>)
  <2>1. pc = "unmanage" /\ pc' \in {"migrated", "idle"}
        /\ UNCHANGED <<bundle, bundleC, cbC, b>>
    BY <1>6 DEF UnmanageClusterBundle, Call, Error
  <2>2. WriteClusterBundle(c) \/ UNCHANGED <<cb, cbEvent>>
    BY <1>6 DEF UnmanageClusterBundle, Call
  <2>3. /\ IsUserManaged(cb) => IsUserManaged(c)
        /\ ~MapsToBundle(c)
    BY <1>a, <1>b, ControllerApply DEF AnnotationIsUsers
  <2>4. cb' \in {cb, c}
    BY <2>2 DEF WriteClusterBundle
  <2> HIDE DEF c
  <2>5. OwnerIsFirst' /\ TakenOverStays'
    BY <1>a, <2>1, <2>3, <2>4
    DEF OwnerIsFirst, TakenOverStays, IsUserManaged, MapsToBundle, Has
  <2>6. UIDsGrow' /\ ReleasesTakenOver'
    BY <1>a, <2>1 DEF UIDsGrow, ReleasesTakenOver, IsUserManaged
  <2>7. NoWayBack'
    BY <1>a, <2>1, <2>3, <2>4 DEF NoWayBack, IsUserManaged, MapsToBundle, Has
  <2> QED BY <2>5, <2>6, <2>7 DEF Handover
<1>7. CASE ApplyBundleCondition
  <2> DEFINE t == IF pc = "migrated" THEN "Migrated" ELSE "Deprecated"
             new == [bundle EXCEPT !.condition = Condition(t)]
  <2>1. pc \in {"deprecated", "migrated"} /\ pc' = "idle"
        /\ UNCHANGED <<cb, bundleC, cbC, b>>
    BY <1>7 DEF ApplyBundleCondition, Call, Error
  <2>2. bundle' \in {bundle, new}
    BY <1>7 DEF ApplyBundleCondition, Call
  <2>3. /\ new.uid = bundle.uid /\ new.exists = bundle.exists
        /\ new.condition.type = t
    BY <1>b DEF BundleOK, Condition
  <2>4. /\ bundle'.uid = bundle.uid /\ bundle'.exists = bundle.exists
        /\ bundle'.condition.type \in {bundle.condition.type, t}
    BY <2>2, <2>3
  <2>5. pc = "migrated" => ~MapsToBundle(cb)
    BY <1>b DEF Settling, HasReleased, NoneOfMine, ClusterBundleOK, MapsToBundle, Has
  <2>6. UIDsGrow' /\ OwnerIsFirst' /\ TakenOverStays'
        /\ ReleasesTakenOver'
    BY <1>a, <2>1, <2>4
    DEF UIDsGrow, OwnerIsFirst, TakenOverStays, ReleasesTakenOver,
        IsUserManaged, MapsToBundle, Has
  <2>7. NoWayBack'
    BY <1>a, <2>1, <2>4, <2>5 DEF NoWayBack, ReleasesTakenOver, IsUserManaged, MapsToBundle, Has
  <2> QED BY <2>6, <2>7 DEF Handover
<1>8. CASE Restart
  <2>1. pc' = "idle" /\ bundleC' = bundle /\ cbC' = cb /\ UNCHANGED <<bundle, cb, b>>
    BY <1>8 DEF Restart
  <2> QED BY <1>a, <1>b, <2>1
      DEF Handover, UIDsGrow, OwnerIsFirst, TakenOverStays,
          ReleasesTakenOver, NoWayBack, IsUserManaged, MapsToBundle, Has
<1>9. CASE CollectGarbage
  <2>1. ~First
    BY <1>9, <1>a DEF CollectGarbage, OwnerIsFirst
  <2>2. ~IsUserManaged(NoClusterBundle) /\ ~MapsToBundle(NoClusterBundle)
    BY NoneInNothing DEF NoClusterBundle, IsUserManaged, Has
  <2> QED BY <1>9, <2>1, <2>2, HandoverWrite DEF CollectGarbage
<1>10. CASE DeleteClusterBundle
  <2>1. ~IsUserManaged(NoClusterBundle) /\ ~MapsToBundle(NoClusterBundle)
    BY NoneInNothing DEF NoClusterBundle, IsUserManaged, Has
  <2>2. ~IsUserManaged(cb)
    BY <1>10, <2>1 DEF DeleteClusterBundle, UserWrites
  <2> QED BY <1>10, <2>1, <2>2, HandoverWrite DEF DeleteClusterBundle, UserWrites
<1>11. CASE EditBundle \/ DeleteBundle \/ CreateBundle
  <2>1. /\ bundle'.exists =>
             \/ bundle'.uid = bundle.uid + 1
             \/ bundle'.uid = bundle.uid /\ bundle.exists
                /\ bundle'.condition = bundle.condition
        /\ bundle'.uid \in {bundle.uid, bundle.uid + 1}
    BY <1>11, EditsOK
  <2>2. UNCHANGED <<cb, bundleC, cbC, pc, b>>
    BY <1>11 DEF EditBundle, DeleteBundle, CreateBundle
  <2>3. First' => First /\ bundle'.condition = bundle.condition
    BY <1>a, <1>b, <2>1 DEF UIDsGrow
  <2>4. UIDsGrow'
    BY <1>a, <1>b, <2>1, <2>2 DEF UIDsGrow
  <2>5. OwnerIsFirst' /\ TakenOverStays' /\ ReleasesTakenOver'
        /\ NoWayBack'
    BY <1>a, <2>2, <2>3
    DEF OwnerIsFirst, TakenOverStays, ReleasesTakenOver, NoWayBack,
        IsUserManaged, MapsToBundle, Has
  <2> QED BY <2>4, <2>5 DEF Handover
<1>12. CASE ApplyManifest
  <2>1. PICK m \in Manifests : UserWrites(Apply(cb, "user", m))
    BY <1>12 DEF ApplyManifest
  <2> DEFINE c == Apply(cb, "user", m)
  <2>2. MapsToBundle(c) =>
            /\ MapsToBundle(cb)
            /\ c.fields.ownerReferences.value = cb.fields.ownerReferences.value
    BY UserApplyHandover DEF AnnotationIsUsers
  <2> HIDE DEF c
  <2>3. /\ WriteClusterBundle(c) /\ UNCHANGED <<bundle, bundleC, cbC, pc, b>>
        /\ IsUserManaged(cb) => IsUserManaged(c)
    BY <2>1 DEF c, UserWrites
  <2>4. First /\ MapsToBundle(c) =>
          MapsToBundle(cb) /\ c.fields.ownerReferences.value = 1
    BY <1>a, <2>2 DEF OwnerIsFirst
  <2> QED BY <2>3, <2>4, HandoverWrite
<1>13. CASE UNCHANGED vars
  BY <1>13, <1>a
  DEF vars, Handover, UIDsGrow, OwnerIsFirst, TakenOverStays,
      ReleasesTakenOver, NoWayBack, IsUserManaged, MapsToBundle, Has
<1> QED
  BY <1>1, <1>2, <1>3, <1>4, <1>5, <1>6, <1>7, <1>8, <1>9, <1>10, <1>11, <1>12, <1>13
  DEF Next, Worker, System, User

\* What was given back stays so.
LEMMA ReturnedStays ==
    ASSUME TypeOK, returned, [Next]_vars
    PROVE  returned'
<1>1. CASE ApplyManifest \/ DeleteClusterBundle
  BY <1>1 DEF ApplyManifest, DeleteClusterBundle, UserWrites
<1>2. CASE Worker \/ System \/ Restart \/ EditBundle \/ DeleteBundle \/ CreateBundle
  BY <1>2
  DEF Worker, System, Restart, EditBundle, DeleteBundle, CreateBundle, SyncBundle,
      SyncClusterBundle, CollectGarbage, GetBundle, GetClusterBundle,
      ApplyClusterBundle, UnmanageClusterBundle, ApplyBundleCondition
<1> QED BY <1>1, <1>2 DEF Next, User, vars

\* While the first Bundle of its name says Migrated and its user has not given the
\* ClusterBundle back, that is there and has no owner reference, so that the Bundle
\* can be deleted, whatever caches lag, calls fail and restarts come in between.
THEOREM StaysSafeToDelete == Spec => []SafeToDelete
<1> DEFINE Inv == TypeOK /\ Settling /\ TakenOver /\ (~returned => Handover)
<1>1. Inv /\ [Next]_vars => Inv'
  BY TypeStep, SettlingStep, TakenOverStep, HandoverStep, ReturnedStays DEF TakenOver
<1>2. Init => Inv
  BY TypeInit, SettlingInit, TakenOverInit, HandoverInit
<1>3. Inv => SafeToDelete
  BY DEF Handover, NoWayBack, TakenOverStays, First, SafeToDelete
<1> QED BY <1>1, <1>2, <1>3, PTL DEF Spec

=============================================================================
