----------------------------- MODULE Migration -----------------------------
(***************************************************************************)
(* The migration controller (pkg/bundle/controller): it keeps, for a        *)
(* Bundle, the ClusterBundle that the Bundle converts to, until a user puts *)
(* the annotation trust-manager.io/migrated on the ClusterBundle; then it   *)
(* gives up its fields and says so in the Bundle's status.                  *)
(*                                                                          *)
(* Users change both objects; informers copy them, late, into the caches    *)
(* that the controller reads; the worker writes to the API server, one      *)
(* server-side apply at a time; the garbage collector deletes a             *)
(* ClusterBundle whose owner is gone.  As in BundleController a cache jumps *)
(* to the present object, and cbEvent remembers that a version in between   *)
(* would have been mapped to the Bundle.                                    *)
(*                                                                          *)
(* The unit of ownership in a ClusterBundle is a field of the converted     *)
(* spec, an annotation or the owner reference; each has a value and the set *)
(* of its managers.                                                         *)
(***************************************************************************)
EXTENDS Conversion, FiniteSets

CONSTANTS
    Specs,          \* Bundle specs that users may write, numbered
    Manifests,      \* ClusterBundles that users may apply, as fields
    UserOps,        \* what users may do
    MaxUser,        \* bound: number of changes by users
    MaxFaults       \* bound: number of failed calls and restarts

ConvertedFields == {"jksKey", "sourceRefs", "inLineCAs", "defaultCAs", "target"}
FieldNames == ConvertedFields \cup {"migrated", "ownerReferences"}

ASSUME MigrationAssumption ==
    /\ DOMAIN Specs # {}
    /\ \A m \in Manifests : DOMAIN m \subseteq FieldNames \ {"ownerReferences"}
    /\ UserOps \subseteq {"edit", "bundle", "apply", "delete"}
    /\ MaxUser \in Nat /\ MaxFaults \in Nat

VARIABLES
    bundle,     \* the Bundle, in the API server
    cb,         \* the ClusterBundle of its name
    bundleC,    \* the Bundle in the cache
    cbC,        \* the ClusterBundle in the cache
    cbEvent,    \* a ClusterBundle event is on its way that maps to the Bundle
    queued,     \* the Bundle's key waits in the work queue
    pc,         \* where the worker is in Reconcile
    b,          \* the Bundle as read from the cache
    manifest,   \* what a user has applied last to the ClusterBundle
    returned,   \* history: a user has given back a ClusterBundle taken over before
    user, faults

vars == <<bundle, cb, bundleC, cbC, cbEvent, queued, pc, b, manifest, returned,
          user, faults>>

-----------------------------------------------------------------------------
(* Objects *)

ConditionType == [type : {"none", "Deprecated", "Migrated"}, observed : Nat, ltt : {0, 1}]
NoCondition == [type |-> "none", observed |-> 0, ltt |-> 0]

NoBundle == [exists |-> FALSE, uid |-> 0, gen |-> 0, condition |-> NoCondition,
             spec |-> CHOOSE s \in DOMAIN Specs : TRUE]
NoClusterBundle == [exists |-> FALSE, fields |-> <<>>]

\* EnqueueRequestForOwner
MapsToBundle(c) == Has(c.fields, "ownerReferences")

\* isClusterBundleUserManaged
IsUserManaged(c) == Has(c.fields, "migrated")

\* Mutant: fields that the manager gives up stay.
ApplyOrphans(c, manager, patch) ==
    [exists |-> TRUE,
     fields |-> [f \in DOMAIN patch |-> [value |-> patch[f], managers |-> {manager}]]
                ++ [f \in DOMAIN c.fields \ DOMAIN patch |->
                        [c.fields[f] EXCEPT !.managers = @ \ {manager}]]]

\* Server-side apply with force: fields of the patch are taken over, also from
\* other managers if their value changes; fields that the manager gives up are
\* removed unless someone else has them.  It creates an object that is missing.
Apply(c, manager, patch) ==
    LET kept == {f \in DOMAIN c.fields \ DOMAIN patch : c.fields[f].managers # {manager}}
        others(f) == IF Has(c.fields, f) /\ c.fields[f].value = patch[f]
                     THEN c.fields[f].managers ELSE {}
    IN [exists |-> TRUE,
        fields |-> [f \in DOMAIN patch \cup kept |->
                        IF f \in DOMAIN patch
                        THEN [value |-> patch[f], managers |-> others(f) \cup {manager}]
                        ELSE [value |-> c.fields[f].value,
                              managers |-> c.fields[f].managers \ {manager}]]]

\* convertBundleToClusterBundle: name, JKS annotation and spec.
Converted ==
    [s \in DOMAIN Specs |->
        LET c == ConvertTo([name |-> "b", annotations |-> <<>>, status |-> <<>>,
                            spec |-> Specs[s]])
        IN Fields(c.annotations, {"jksKey"}) ++ c.spec]

\* Mutant: without a controller reference.
PatchNoOwner(bn) == Converted[bn.spec]

\* What applyClusterBundle sends, with the controller reference.
Patch(bn) ==
    LET c == Converted[bn.spec]
    IN [f \in (ConvertedFields \cap DOMAIN c) \cup {"ownerReferences"} |->
            IF f = "ownerReferences" THEN bn.uid ELSE c[f]]

-----------------------------------------------------------------------------
Init ==
    /\ \E s \in DOMAIN Specs :
        bundle = [NoBundle EXCEPT !.exists = TRUE, !.uid = 1, !.gen = 1, !.spec = s]
    /\ cb = NoClusterBundle
    /\ bundleC = NoBundle /\ cbC = NoClusterBundle /\ cbEvent = FALSE
    /\ queued = FALSE
    /\ pc = "idle"
    /\ b = NoBundle
    /\ manifest = <<>> /\ returned = FALSE
    /\ user = 0 /\ faults = 0

\* A write to the ClusterBundle, and the event that it causes.
WriteClusterBundle(c) ==
    /\ cb' = c
    /\ cbEvent' = (cbEvent \/ (c # cb /\ (MapsToBundle(cb) \/ MapsToBundle(c))))

(* Informers *)

\* For: every event of the Bundle.
SyncBundle ==
    /\ bundleC # bundle
    /\ bundleC' = bundle
    /\ queued' = TRUE
    /\ UNCHANGED <<bundle, cb, cbC, cbEvent, pc, b, manifest, returned, user, faults>>

\* Owns: events of a ClusterBundle that a Bundle owns, before or after.
SyncClusterBundle ==
    /\ cbC # cb \/ cbEvent
    /\ cbC' = cb
    /\ cbEvent' = FALSE
    /\ queued' = (queued \/ cbEvent)
    /\ UNCHANGED <<bundle, cb, bundleC, pc, b, manifest, returned, user, faults>>

(* Worker *)

\* Mutant: an error is not returned, so the key is not put back.
ErrorDropped == pc' = "idle" /\ UNCHANGED queued

\* An error makes the work queue take the key again.
Error == pc' = "idle" /\ queued' = TRUE

\* Reconcile reads the Bundle.
GetBundle ==
    /\ pc = "idle" /\ queued
    /\ queued' = FALSE
    /\ b' = bundleC
    /\ pc' = IF bundleC.exists THEN "get" ELSE "idle"
    /\ UNCHANGED <<bundle, cb, bundleC, cbC, cbEvent, manifest, returned, user, faults>>

\* reconcile reads the ClusterBundle and decides.
GetClusterBundle ==
    /\ pc = "get"
    /\ pc' = IF IsUserManaged(cbC) THEN "unmanage" ELSE "apply"
    /\ UNCHANGED <<bundle, cb, bundleC, cbC, cbEvent, queued, b, manifest, returned,
                   user, faults>>

\* A call that fails may have taken effect.
Call(write, skip, next) ==
    \/ write /\ pc' = next /\ UNCHANGED <<queued, faults>>
    \/ /\ faults < MaxFaults
       /\ faults' = faults + 1
       /\ write \/ skip
       /\ Error

\* applyClusterBundle
ApplyClusterBundle ==
    /\ pc = "apply"
    /\ \E p \in {Patch(b)} : \E c \in {Apply(cb, "trust-manager", p)} :
        Call(WriteClusterBundle(c), UNCHANGED <<cb, cbEvent>>, "deprecated")
    /\ UNCHANGED <<bundle, bundleC, cbC, b, manifest, returned, user>>

\* Mutant: the owner reference is kept.
UnmanageKeepsOwner ==
    /\ pc = "unmanage"
    /\ \E c \in {Apply(cb, "trust-manager", Fields(Patch(b), {"ownerReferences"}))} :
        Call(WriteClusterBundle(c), UNCHANGED <<cb, cbEvent>>, "migrated")
    /\ UNCHANGED <<bundle, bundleC, cbC, b, manifest, returned, user>>

\* unmanageClusterBundle: a patch without fields.
UnmanageClusterBundle ==
    /\ pc = "unmanage"
    /\ \E c \in {Apply(cb, "trust-manager", <<>>)} :
        Call(WriteClusterBundle(c), UNCHANGED <<cb, cbEvent>>, "migrated")
    /\ UNCHANGED <<bundle, bundleC, cbC, b, manifest, returned, user>>

\* A time that is not the one the condition has.
Now == 1 - bundle.condition.ltt

\* The only condition of the patch; the manager's other one is dropped.  The
\* transition time is kept if the cached Bundle has the condition.
Condition(type) ==
    [type |-> type, observed |-> b.gen,
     ltt |-> IF b.condition.type = type THEN b.condition.ltt ELSE Now]

\* applyBundleCondition.  A status cannot create its object: for a Bundle that is
\* gone the call fails.
ApplyBundleCondition ==
    /\ pc \in {"deprecated", "migrated"}
    /\ LET write == bundle' = [bundle EXCEPT !.condition =
                        Condition(IF pc = "migrated" THEN "Migrated" ELSE "Deprecated")]
       IN \/ ~bundle.exists /\ Error /\ UNCHANGED <<bundle, faults>>
          \/ bundle.exists /\ Call(write, UNCHANGED bundle, "idle")
    /\ UNCHANGED <<cb, bundleC, cbC, cbEvent, b, manifest, returned, user>>

\* The process ends and starts again: caches are filled by a list, and what is in
\* them is queued.
Restart ==
    /\ faults < MaxFaults
    /\ faults' = faults + 1
    /\ pc' = "idle"
    /\ bundleC' = bundle /\ cbC' = cb /\ cbEvent' = FALSE
    /\ queued' = (bundle.exists \/ MapsToBundle(cb))
    /\ UNCHANGED <<bundle, cb, b, manifest, returned, user>>

(* Kubernetes and users *)

\* The garbage collector deletes a ClusterBundle whose owner is gone.
CollectGarbage ==
    /\ MapsToBundle(cb)
    /\ ~(bundle.exists /\ bundle.uid = cb.fields.ownerReferences.value)
    /\ WriteClusterBundle(NoClusterBundle)
    /\ manifest' = <<>>
    /\ UNCHANGED <<bundle, bundleC, cbC, queued, pc, b, returned, user, faults>>

UserMay(op) == op \in UserOps /\ user < MaxUser /\ user' = user + 1

EditBundle ==
    /\ UserMay("edit")
    /\ bundle.exists
    /\ \E s \in DOMAIN Specs \ {bundle.spec} :
        bundle' = [bundle EXCEPT !.spec = s, !.gen = @ + 1]
    /\ UNCHANGED <<cb, bundleC, cbC, cbEvent, queued, pc, b, manifest, returned, faults>>

DeleteBundle ==
    /\ UserMay("bundle")
    /\ bundle.exists
    /\ bundle' = [NoBundle EXCEPT !.uid = bundle.uid]
    /\ UNCHANGED <<cb, bundleC, cbC, cbEvent, queued, pc, b, manifest, returned, faults>>

CreateBundle ==
    /\ UserMay("bundle")
    /\ ~bundle.exists
    /\ \E s \in DOMAIN Specs :
        bundle' = [NoBundle EXCEPT !.exists = TRUE, !.uid = bundle.uid + 1, !.gen = 1, !.spec = s]
    /\ UNCHANGED <<cb, bundleC, cbC, cbEvent, queued, pc, b, manifest, returned, faults>>

\* What a user makes of the ClusterBundle.  If that takes the annotation away from
\* a ClusterBundle that was taken over, it is given back.
UserWrites(c) ==
    /\ WriteClusterBundle(c)
    /\ returned' = (returned \/ (IsUserManaged(cb) /\ ~IsUserManaged(c)))
    /\ UNCHANGED <<bundle, bundleC, cbC, queued, pc, b, faults>>

\* A user applies a ClusterBundle, with or without the annotation.
ApplyManifest ==
    /\ UserMay("apply")
    /\ \E m \in Manifests :
        /\ UserWrites(Apply(cb, "user", m))
        /\ manifest' = m

DeleteClusterBundle ==
    /\ UserMay("delete")
    /\ cb.exists
    /\ UserWrites(NoClusterBundle)
    /\ manifest' = <<>>

Worker == GetBundle \/ GetClusterBundle \/ ApplyClusterBundle \/ UnmanageClusterBundle
          \/ ApplyBundleCondition
System == SyncBundle \/ SyncClusterBundle \/ CollectGarbage
User == EditBundle \/ DeleteBundle \/ CreateBundle \/ ApplyManifest \/ DeleteClusterBundle

Next == Worker \/ System \/ Restart \/ User

Spec == Init /\ [][Next]_vars

\* The worker goroutine runs, the watches deliver and the garbage collector runs.
\* A call may fail, but (MaxFaults) not for ever.
FairSpec ==
    Spec /\ WF_vars(Worker) /\ WF_vars(SyncBundle) /\ WF_vars(SyncClusterBundle)
         /\ WF_vars(CollectGarbage)

-----------------------------------------------------------------------------
(* Properties *)

FieldsType(fs) ==
    /\ DOMAIN fs \subseteq FieldNames
    /\ \A f \in DOMAIN fs : fs[f].managers \subseteq {"trust-manager", "user"}

BundleOK(x) ==
    x \in [exists : BOOLEAN, uid : Nat, gen : Nat, condition : ConditionType,
          spec : DOMAIN Specs]

\* No value outside its type; every field of a ClusterBundle has a manager, and
\* only the controller sets the owner reference.
TypeOK ==
    /\ BundleOK(bundle) /\ BundleOK(bundleC) /\ BundleOK(b)
    /\ \A c \in {cb, cbC} :
        /\ FieldsType(c.fields)
        /\ \A f \in DOMAIN c.fields : c.fields[f].managers # {}
        /\ MapsToBundle(c) => c.fields.ownerReferences.managers = {"trust-manager"}
    /\ cbEvent \in BOOLEAN /\ queued \in BOOLEAN /\ returned \in BOOLEAN
    /\ pc \in {"idle", "get", "apply", "unmanage", "deprecated", "migrated"}
    /\ user \in 0..MaxUser /\ faults \in 0..MaxFaults

Rest ==
    /\ pc = "idle" /\ ~queued
    /\ bundleC = bundle /\ cbC = cb /\ ~cbEvent

\* The ClusterBundle is what the Bundle converts to, but for fields of users.
Managed ==
    /\ bundle.condition.type = "Deprecated"
    /\ ~IsUserManaged(cb)
    /\ cb = Apply(cb, "trust-manager", Patch(bundle))

\* The ClusterBundle is the user's, or was, and nothing in it is the controller's.
Released ==
    /\ bundle.condition.type = "Migrated"
    /\ IsUserManaged(cb) \/ returned
    /\ \A f \in DOMAIN cb.fields : "trust-manager" \notin cb.fields[f].managers

\* When no event and no work is left, the Bundle either is converted, in its
\* latest version, and says that it is to be migrated, or it is migrated, says so,
\* and the controller has let go of the ClusterBundle.  No change of either
\* object, late event, failed call or restart leaves a state in between.
RestIsConsistent ==
    Rest /\ bundle.exists =>
        bundle.condition.observed = bundle.gen /\ (Managed \/ Released)

\* While a Bundle says that it is migrated, deleting it does not delete the user's
\* ClusterBundle: it is there, is the user's, and has no owner reference to follow,
\* unless a user has given it back: then the controller takes it again and says so
\* only afterwards.  The Bundle is the first of its name: the status is written by
\* name, and a late Migrated can reach a Bundle created after the one it is about.
SafeToDelete ==
    bundle.exists /\ bundle.uid = 1 /\ bundle.condition.type = "Migrated" /\ ~returned
        => IsUserManaged(cb) /\ ~MapsToBundle(cb)

\* Whatever happens, the last change is followed by a time from which on the
\* Bundle is converted or migrated and says so, and no ClusterBundle of a Bundle
\* that was deleted stays behind.  (The controller need not come to rest: see
\* the README on the transition time.)
Converges ==
    <>[](IF bundle.exists
         THEN bundle.condition.observed = bundle.gen /\ (Managed \/ Released)
         ELSE ~MapsToBundle(cb))

\* A ClusterBundle that a user has taken over, and whose Bundle says that it is
\* migrated, holds what the user has applied.
MigratedIsUsers ==
    bundle.exists /\ bundle.condition.type = "Migrated" /\ IsUserManaged(cb) =>
        \A f \in DOMAIN manifest :
            Has(cb.fields, f) /\ cb.fields[f].value = manifest[f]
=============================================================================
