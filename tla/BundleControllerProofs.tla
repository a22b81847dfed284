------------------------ MODULE BundleControllerProofs ------------------------
(***************************************************************************)
(* Proofs about BundleController, for every set of namespaces, sources,    *)
(* keys and specs and every bound.                                         *)
(***************************************************************************)
EXTENDS BundleController, TLAPS

\* Every name a target can have is a kind and a namespace.
LEMMA ResourceParts ==
    ASSUME NEW r \in Resources
    PROVE  KindOf(r) \in Kinds /\ NsOf(r) \in Namespaces
BY DEF Resources, KindOf, NsOf

\* The objects that stand for absence have the types of the objects.
LEMMA Absences ==
    /\ NoVersion \in Versions
    /\ NoStatus \in StatusType
    /\ NoBundle \in BundleType
    /\ NoTarget \in TargetType
<1>1. NoVersion \in Versions
  BY DEF NoVersion, Versions
<1>2. NoStatus \in StatusType
  BY DEF NoStatus, StatusType, NoCond, CondType
<1>3. NoBundle \in BundleType
  <2>1. (CHOOSE sp \in Specs : TRUE) \in Specs
    BY ConstantsAssumption
  <2> QED BY <1>2, <2>1 DEF NoBundle, BundleType
<1>4. NoTarget \in TargetType
  BY <1>1 DEF NoTarget, TargetType, Foreign
<1> QED BY <1>1, <1>2, <1>3, <1>4

\* The forced apply of trust-manager makes a target object.
LEMMA AppliedType ==
    ASSUME NEW t \in TargetType, NEW uid \in Nat, NEW ks \in SUBSET Keys,
           NEW v \in Versions
    PROVE  Applied(t, uid, ks, v) \in TargetType
BY DEF Applied, TargetType

\* What the target cache keeps of an object is a target object.
LEMMA CacheViewType ==
    ASSUME NEW r \in Resources, NEW t \in TargetType
    PROVE  CacheView(r, t) \in TargetType
<1>1. [t EXCEPT !.val = NoVersion, !.other = {}] \in TargetType
  BY Absences DEF TargetType
<1> QED BY <1>1, Absences DEF CacheView

\* A write of a target keeps the types of targets and target events.
LEMMA WriteTargetType ==
    ASSUME TypeOK, NEW r \in Resources, NEW t \in TargetType, WriteTarget(r, t)
    PROVE  /\ tgt' \in [Resources -> TargetType]
           /\ tgtEvent' \in [Resources -> BOOLEAN]
<1>1. tgt' \in [Resources -> TargetType]
  BY DEF TypeOK, WriteTarget
<1>2. tgtEvent' \in [Resources -> BOOLEAN]
  <2>1. DEFINE new == tgtEvent[r] \/ (t # tgt[r] /\ (MapsToBundle(r, tgt[r])
                                                     \/ MapsToBundle(r, t)))
  <2>2. new \in BOOLEAN
    BY DEF TypeOK
  <2>3. tgtEvent' = [tgtEvent EXCEPT ![r] = new]
    BY DEF WriteTarget
  <2> HIDE DEF new
  <2> QED BY <2>2, <2>3 DEF TypeOK
<1> QED BY <1>1, <1>2

\* A status patch of the controller is a status.
LEMMA NewCondType ==
    ASSUME TypeOK, NEW st \in {"True", "False"},
           NEW rs \in {"Synced", "SourceNotFound", "SourceBuildError",
                       "SecretTargetsDisabled", "SyncTargetFailed"}
    PROVE  NewCond(st, rs) \in CondType
<1> DEFINE ltt == IF b.status.cond.status = st THEN b.status.cond.ltt
                                               ELSE 1 - b.status.cond.ltt
<1>1. b.gen \in Nat /\ b.status \in StatusType
  BY DEF TypeOK, BundleType
<1>2. b.status.cond.ltt \in {0, 1}
  BY <1>1 DEF StatusType, CondType
<1>3. ltt \in {0, 1}
  BY <1>2
<1>4. NewCond(st, rs) = [status |-> st, reason |-> rs, observed |-> b.gen,
                         ltt |-> ltt]
  BY DEF NewCond
<1>5. /\ st \in {"True", "False", "Unknown"}
      /\ rs \in {"", "Synced", "SourceNotFound", "SourceBuildError",
                "SecretTargetsDisabled", "SyncTargetFailed"}
  OBVIOUS
<1>6. b.gen \in Nat
  BY <1>1
<1> HIDE DEF ltt
<1>7. [status |-> st, reason |-> rs, observed |-> b.gen, ltt |-> ltt] \in CondType
  BY <1>3, <1>5, <1>6 DEF CondType
<1> QED BY <1>4, <1>7

LEMMA FailWithType ==
    ASSUME TypeOK,
           NEW rs \in {"SourceNotFound", "SourceBuildError",
                       "SecretTargetsDisabled", "SyncTargetFailed"},
           NEW e \in BOOLEAN, FailWith(rs, e)
    PROVE  /\ pc' = "status"
           /\ patch' \in StatusType
           /\ failed' \in BOOLEAN
<1>1. NewCond("False", rs) \in CondType
  BY NewCondType
<1>2. b.status.ca \in Nat
  BY DEF TypeOK, BundleType, StatusType
<1> QED BY <1>1, <1>2 DEF FailWith, StatusType

\* The values the worker's variables have between two reconciles.
LEMMA ResetType ==
    ASSUME ResetLocals
    PROVE  /\ b' \in BundleType /\ idx' \in Nat \ {0} /\ res' \in Versions
           /\ certs' \in BOOLEAN /\ want' \in SUBSET Resources
           /\ desired' \in SUBSET Resources /\ kind' \in {"ConfigMap", "Secret"}
           /\ old' \in SUBSET Resources /\ cur' \in SUBSET Resources
           /\ updated' \in BOOLEAN /\ patch' \in StatusType
           /\ failed' \in BOOLEAN
<1>1. b' \in BundleType /\ res' \in Versions /\ patch' \in StatusType
  BY Absences DEF ResetLocals
<1>2. idx' \in Nat \ {0} /\ kind' \in {"ConfigMap", "Secret"}
  BY DEF ResetLocals
<1>3. /\ want' \in SUBSET Resources /\ desired' \in SUBSET Resources
      /\ old' \in SUBSET Resources /\ cur' \in SUBSET Resources
  BY DEF ResetLocals
<1>4. certs' \in BOOLEAN /\ updated' \in BOOLEAN /\ failed' \in BOOLEAN
  BY DEF ResetLocals
<1> QED BY <1>1, <1>2, <1>3, <1>4

\* The spec of a Bundle, and the source that the worker reads next.
LEMMA SpecParts ==
    ASSUME NEW x \in BundleType
    PROVE  /\ x.spec.sources \in Seq(Sources)
           /\ x.spec.keys \in SUBSET Keys
           /\ x.uid \in Nat /\ x.gen \in Nat
           /\ x.status \in StatusType /\ x.status.ca \in Nat
<1>1. x.spec \in SpecType
  BY ConstantsAssumption DEF BundleType
<1>2. x.status \in StatusType /\ x.uid \in Nat /\ x.gen \in Nat
  BY DEF BundleType
<1> QED BY <1>1, <1>2 DEF SpecType, StatusType

LEMMA NextSource ==
    ASSUME TypeOK, idx <= Len(b.spec.sources)
    PROVE  b.spec.sources[idx] \in Sources
<1>1. b.spec.sources \in Seq(Sources) /\ idx \in Nat \ {0}
  BY SpecParts DEF TypeOK
<1> QED BY <1>1

\* A deleted object is gone, or is the object with the mark.
LEMMA DeletedType ==
    ASSUME NEW t \in TargetType, NEW u \in Deleted(t)
    PROVE  u \in TargetType /\ (u = NoTarget \/ u = [t EXCEPT !.deleting = TRUE])
<1>1. [t EXCEPT !.deleting = TRUE] \in TargetType
  BY DEF TargetType
<1>2. u = NoTarget \/ u = [t EXCEPT !.deleting = TRUE]
  BY DEF Deleted
<1> QED BY <1>1, <1>2, Absences

\* What third parties make of a target is a target, with the controller's data
\* or without any of it.
LEMMA EditsType ==
    ASSUME NEW t \in TargetType, NEW u \in ThirdPartyEdits(t)
    PROVE  u \in TargetType /\ u.val \in {t.val, NoVersion}
<1>1. CASE u = [t EXCEPT !.keys = {}, !.val = NoVersion,
                         !.other = t.other \cup t.keys]
  BY <1>1, Absences DEF TargetType
<1>2. CASE u = [t EXCEPT !.other = {}]
  BY <1>2 DEF TargetType
<1>3. CASE u = [t EXCEPT !.label = FALSE]
  BY <1>3 DEF TargetType
<1>4. CASE u = [t EXCEPT !.owner = 0]
  BY <1>4 DEF TargetType
<1>5. CASE u = [t EXCEPT !.owner = Foreign]
  BY <1>5 DEF TargetType
<1>6. CASE u = [t EXCEPT !.hash = NoVersion]
  BY <1>6, Absences DEF TargetType
<1>7. CASE \E k \in Keys \ t.keys : u = [t EXCEPT !.other = t.other \cup {k}]
  BY <1>7 DEF TargetType
<1> QED BY <1>1, <1>2, <1>3, <1>4, <1>5, <1>6, <1>7 DEF ThirdPartyEdits

LEMMA CreatedType ==
    ASSUME NEW k \in Keys, NEW o \in {0, Foreign}
    PROVE  [NoTarget EXCEPT !.exists = TRUE, !.other = {k}, !.owner = o]
             \in TargetType
BY Absences DEF NoTarget, TargetType

\* A fault uses up one of those the bound allows.
LEMMA FaultType ==
    ASSUME TypeOK, NEW site, Fault(site)
    PROVE  faults' \in Nat
BY DEF TypeOK, Fault

LEMMA TypeInit == Init => TypeOK
<1> SUFFICES ASSUME Init PROVE TypeOK
  OBVIOUS
<1>1. bundle \in BundleType
  <2>1. ASSUME NEW sp \in Specs
        PROVE  [NoBundle EXCEPT !.exists = TRUE, !.uid = 1, !.gen = 1,
                                !.spec = sp] \in BundleType
    BY Absences DEF BundleType
  <2>2. \/ bundle = NoBundle
        \/ \E sp \in Specs :
             bundle = [NoBundle EXCEPT !.exists = TRUE, !.uid = 1, !.gen = 1,
                                       !.spec = sp]
    BY DEF Init
  <2> QED BY <2>1, <2>2, Absences
<1>2. ns \in [Namespaces -> NsType]
  <2> DEFINE Active == {[phase |-> "active", labelled |-> l] : l \in BOOLEAN}
  <2>1. Active \subseteq NsType
    BY DEF NsType
  <2>2. ns \in [Namespaces -> Active]
    BY DEF Init
  <2> HIDE DEF Active
  <2> QED BY <2>1, <2>2
<1>3. src \in [Sources -> SourceType]
  BY DEF Init, SourceType
<1>4. tgt \in [Resources -> TargetType] /\ tgtEvent \in [Resources -> BOOLEAN]
  BY Absences DEF Init
<1>5. queued \in BOOLEAN
  BY <1>1 DEF Init, BundleType
<1>6. /\ bundleC \in BundleType /\ nsC \in [Namespaces -> NsType]
      /\ srcC \in [Sources -> SourceType] /\ tgtC \in [Resources -> TargetType]
      /\ b \in BundleType /\ res \in Versions /\ patch \in StatusType
  BY <1>1, <1>2, <1>3, <1>4, Absences DEF Init
<1>7. /\ pc = "idle" /\ idx = 1 /\ kind = "ConfigMap"
      /\ want = {} /\ desired = {} /\ old = {} /\ cur = {} /\ uncleaned = {}
      /\ user \in Nat /\ faults \in Nat
  BY ConstantsAssumption DEF Init
<1>8. certs \in BOOLEAN /\ updated \in BOOLEAN /\ failed \in BOOLEAN
  BY DEF Init
<1> QED BY <1>1, <1>2, <1>3, <1>4, <1>5, <1>6, <1>7, <1>8 DEF TypeOK

LEMMA TypeStep ==
    ASSUME TypeOK, [Next]_vars
    PROVE  TypeOK'
<1> USE DEF api, caches, locals, worker
<1>1. CASE SyncBundle
  BY <1>1 DEF TypeOK, SyncBundle
<1>2. ASSUME NEW n \in Namespaces, SyncNamespace(n) PROVE TypeOK'
  BY <1>2 DEF TypeOK, SyncNamespace
<1>3. ASSUME NEW s \in Sources, SyncSource(s) PROVE TypeOK'
  BY <1>3 DEF TypeOK, SyncSource
<1>4. ASSUME NEW r \in Resources, SyncTarget(r) PROVE TypeOK'
  BY <1>4, CacheViewType DEF TypeOK, SyncTarget
<1>5. CASE GetBundle
  BY <1>5 DEF TypeOK, GetBundle
<1>6. CASE AddToCertPool
  <2> DEFINE s == b.spec.sources[idx]
  <2>1. s \in Sources
    BY <1>6, NextSource DEF AddToCertPool
  <2>2. CASE FailWith("SourceNotFound", FALSE) /\ UNCHANGED <<idx, res, certs>>
    BY <1>6, <2>2, FailWithType DEF TypeOK, AddToCertPool
  <2>3. CASE FailWith("SourceBuildError", TRUE) /\ UNCHANGED <<idx, res, certs>>
    BY <1>6, <2>3, FailWithType DEF TypeOK, AddToCertPool
  <2>4. CASE /\ idx' = idx + 1
             /\ res' = [res EXCEPT ![s] = srcC[s].ver]
             /\ certs' = (certs \/ srcC[s].state = "ok")
             /\ UNCHANGED <<pc, patch, failed>>
    <3>1. srcC[s].ver \in Nat
      BY <2>1 DEF TypeOK, SourceType
    <3>2. res' \in Versions /\ idx' \in Nat \ {0}
      BY <2>1, <2>4, <3>1 DEF TypeOK, Versions
    <3>3. certs' \in BOOLEAN
      BY <2>4 DEF TypeOK
    <3> QED BY <1>6, <2>4, <3>2, <3>3 DEF TypeOK, AddToCertPool
  <2> QED BY <1>6, <2>2, <2>3, <2>4 DEF AddToCertPool
<1>7. CASE ListNamespaces
  BY <1>7, FailWithType, ResetType DEF TypeOK, ListNamespaces, Done, TargetResources
<1>8. CASE ListTargets
  BY <1>8 DEF TypeOK, ListTargets
<1>9. ASSUME NEW r \in Resources, CleanupTarget(r) PROVE TypeOK'
  <2> DEFINE t == Applied(tgt[r], b.uid, {}, NoVersion)
  <2>1. t \in TargetType
    BY AppliedType, Absences, SpecParts DEF TypeOK
  <2>2. /\ tgt' \in [Resources -> TargetType]
        /\ tgtEvent' \in [Resources -> BOOLEAN]
    <3>1. CASE WriteTarget(r, t)
      BY <2>1, <3>1, WriteTargetType
    <3>2. CASE UNCHANGED <<tgt, tgtEvent>>
      BY <3>2 DEF TypeOK
    <3> QED BY <1>9, <3>1, <3>2 DEF CleanupTarget
  <2> HIDE DEF t
  <2>3. faults' \in Nat
    <3>1. CASE UNCHANGED faults
      BY <3>1 DEF TypeOK
    <3> QED BY <1>9, <3>1, FaultType DEF CleanupTarget
  <2>4. cur' \in SUBSET Resources /\ pc' \in {"cleanup", "delete"}
    BY <1>9 DEF CleanupTarget, TypeOK
  <2> QED BY <1>9, <2>2, <2>3, <2>4 DEF TypeOK, CleanupTarget
<1>10. ASSUME NEW r \in Resources, CleanupDelete(r) PROVE TypeOK'
  <2>1. /\ tgt' \in [Resources -> TargetType]
        /\ tgtEvent' \in [Resources -> BOOLEAN]
    <3>1. ASSUME NEW t \in Deleted(tgt[r]), WriteTarget(r, t)
          PROVE  /\ tgt' \in [Resources -> TargetType]
                 /\ tgtEvent' \in [Resources -> BOOLEAN]
      <4>1. t \in TargetType
        BY DeletedType DEF TypeOK
      <4> QED BY <3>1, <4>1, WriteTargetType
    <3>2. CASE UNCHANGED <<tgt, tgtEvent>>
      BY <3>2 DEF TypeOK
    <3> QED BY <1>10, <3>1, <3>2 DEF CleanupDelete
  <2>2. faults' \in Nat
    <3>1. CASE UNCHANGED faults
      BY <3>1 DEF TypeOK
    <3> QED BY <1>10, <3>1, FaultType DEF CleanupDelete
  <2> QED BY <1>10, <2>1, <2>2 DEF TypeOK, CleanupDelete
<1>11. CASE NextKind
  BY <1>11 DEF TypeOK, NextKind
<1>12. ASSUME NEW r \in Resources, ApplyTarget(r) PROVE TypeOK'
  BY <1>12 DEF TypeOK, ApplyTarget
<1>13. ASSUME NEW r \in Resources, PatchTarget(r) PROVE TypeOK'
  <2> DEFINE t == Applied(tgt[r], b.uid, b.spec.keys, res)
  <2>1. t \in TargetType
    BY AppliedType, SpecParts DEF TypeOK
  <2>2. /\ tgt' \in [Resources -> TargetType]
        /\ tgtEvent' \in [Resources -> BOOLEAN]
    <3>1. CASE WriteTarget(r, t)
      BY <2>1, <3>1, WriteTargetType
    <3>2. CASE UNCHANGED <<tgt, tgtEvent>>
      BY <3>2 DEF TypeOK
    <3> QED BY <1>13, <3>1, <3>2 DEF PatchTarget
  <2>3. faults' \in Nat
    <3>1. CASE UNCHANGED faults
      BY <3>1 DEF TypeOK
    <3> QED BY <1>13, <3>1, FaultType DEF PatchTarget
  <2>4. /\ pc' \in {"apply", "status"}
        /\ patch' \in StatusType /\ failed' \in BOOLEAN
    <3>1. CASE FailWith("SyncTargetFailed", TRUE)
      BY <3>1, FailWithType
    <3>2. CASE pc' = "apply" /\ UNCHANGED <<patch, failed>>
      BY <3>2 DEF TypeOK
    <3> QED BY <1>13, <3>1, <3>2 DEF PatchTarget
  <2>5. updated' \in BOOLEAN
    BY <1>13 DEF PatchTarget, TypeOK
  <2> QED BY <1>13, <2>2, <2>3, <2>4, <2>5 DEF TypeOK, PatchTarget
<1>14. CASE FinishReconcile
  <2>1. CASE Done(FALSE)
    BY <1>14, <2>1, ResetType DEF TypeOK, FinishReconcile, Done
  <2>2. CASE /\ pc' = "status"
             /\ patch' = [cond |-> NewCond("True", "Synced"),
                          ca |-> res[DefaultCAs]]
             /\ failed' = FALSE
             /\ UNCHANGED <<queued, b, idx, res, certs, want, desired, kind,
                            old, cur, updated>>
    <3>1. NewCond("True", "Synced") \in CondType
      BY NewCondType
    <3>2. res[DefaultCAs] \in Nat
      BY ConstantsAssumption DEF TypeOK, Versions
    <3>3. patch' \in StatusType
      BY <2>2, <3>1, <3>2 DEF StatusType
    <3> QED BY <1>14, <2>2, <3>3 DEF TypeOK, FinishReconcile
  <2> QED BY <1>14, <2>1, <2>2 DEF FinishReconcile
<1>15. CASE PatchStatus
  <2>1. bundle' \in BundleType
    <3>1. [bundle EXCEPT !.status = patch] \in BundleType
      BY DEF TypeOK, BundleType
    <3> QED BY <1>15, <3>1 DEF PatchStatus, TypeOK
  <2>2. faults' \in Nat
    <3>1. CASE UNCHANGED faults
      BY <3>1 DEF TypeOK
    <3> QED BY <1>15, <3>1, FaultType DEF PatchStatus
  <2>3. ResetLocals /\ pc' = "idle" /\ queued' \in BOOLEAN
    BY <1>15 DEF PatchStatus, Done, TypeOK
  <2> QED BY <1>15, <2>1, <2>2, <2>3, ResetType DEF TypeOK, PatchStatus
<1>16. CASE Restart
  <2>1. tgtC' \in [Resources -> TargetType]
    BY <1>16, CacheViewType DEF Restart, TypeOK
  <2>2. queued' \in BOOLEAN
    BY <1>16 DEF Restart, TypeOK, BundleType
  <2> QED BY <1>16, <2>1, <2>2, ResetType DEF TypeOK, Restart
<1>17. CASE EditSpec
  <2>1. bundle' \in BundleType
    <3>1. PICK sp \in Specs :
                 bundle' = [bundle EXCEPT !.spec = sp, !.gen = @ + 1]
      BY <1>17 DEF EditSpec
    <3>2. bundle.gen + 1 \in Nat
      BY DEF TypeOK, BundleType
    <3>3. bundle' = [bundle EXCEPT !.spec = sp, !.gen = bundle.gen + 1]
      BY <3>1 DEF TypeOK, BundleType
    <3> QED BY <3>2, <3>3 DEF TypeOK, BundleType
  <2> QED BY <1>17, <2>1 DEF TypeOK, EditSpec, UserStep
<1>18. CASE DeleteBundle
  <2>1. bundle' \in BundleType
    BY <1>18, Absences DEF TypeOK, BundleType, DeleteBundle
  <2> QED BY <1>18, <2>1 DEF TypeOK, DeleteBundle, UserStep
<1>19. CASE CreateBundle
  <2>1. bundle' \in BundleType
    <3>1. PICK sp \in Specs :
                 bundle' = [NoBundle EXCEPT !.exists = TRUE,
                              !.uid = bundle.uid + 1, !.gen = 1, !.spec = sp]
      BY <1>19 DEF CreateBundle
    <3>2. bundle.uid + 1 \in Nat
      BY DEF TypeOK, BundleType
    <3> QED BY <3>1, <3>2, Absences DEF BundleType
  <2> QED BY <1>19, <2>1 DEF TypeOK, CreateBundle, UserStep
<1>20. ASSUME NEW s \in Sources, EditSource(s) PROVE TypeOK'
  <2>1. src' \in [Sources -> SourceType]
    BY <1>20 DEF TypeOK, SourceType, EditSource
  <2> QED BY <1>20, <2>1 DEF TypeOK, EditSource, UserStep
<1>21. ASSUME NEW n \in Namespaces,
              LabelNamespace(n) \/ DeleteNamespace(n) \/ CreateNamespace(n)
       PROVE  TypeOK'
  <2>1. ns' \in [Namespaces -> NsType]
    <3>1. PICK o \in NsType : ns' = [ns EXCEPT ![n] = o]
      <4>1. CASE LabelNamespace(n)
        <5>1. [ns[n] EXCEPT !.labelled = ~ns[n].labelled] \in NsType
          BY DEF TypeOK, NsType
        <5> QED BY <4>1, <5>1 DEF LabelNamespace
      <4>2. CASE DeleteNamespace(n)
        <5>1. [ns[n] EXCEPT !.phase = "terminating"] \in NsType
          BY DEF TypeOK, NsType
        <5> QED BY <4>2, <5>1 DEF DeleteNamespace
      <4>3. CASE CreateNamespace(n)
        <5>1. \A l \in BOOLEAN : [phase |-> "active", labelled |-> l] \in NsType
          BY DEF NsType
        <5> QED BY <4>3, <5>1 DEF CreateNamespace
      <4> QED BY <1>21, <4>1, <4>2, <4>3
    <3> QED BY <3>1 DEF TypeOK
  <2> QED BY <1>21, <2>1 DEF TypeOK, LabelNamespace, DeleteNamespace,
                             CreateNamespace, UserStep
<1>22. ASSUME NEW r \in Resources,
              EditTarget(r) \/ CreateTarget(r) \/ DeleteTarget(r)
       PROVE  TypeOK'
  <2>1. PICK t \in TargetType : WriteTarget(r, t)
    BY <1>22, EditsType, CreatedType, DeletedType
    DEF TypeOK, EditTarget, CreateTarget, DeleteTarget
  <2>2. /\ tgt' \in [Resources -> TargetType]
        /\ tgtEvent' \in [Resources -> BOOLEAN]
    BY <2>1, WriteTargetType
  <2>3. UserStep("target") /\ UNCHANGED <<bundle, ns, src>>
    BY <1>22 DEF EditTarget, CreateTarget, DeleteTarget
  <2> QED BY <2>2, <2>3 DEF TypeOK, UserStep
<1>23. ASSUME NEW r \in Resources, RemoveTarget(r) PROVE TypeOK'
  BY <1>23, WriteTargetType, Absences DEF TypeOK, RemoveTarget
<1>24. ASSUME NEW n \in Namespaces, RemoveNamespace(n) PROVE TypeOK'
  <2>1. ns' \in [Namespaces -> NsType]
    BY <1>24 DEF TypeOK, NsType, RemoveNamespace
  <2> QED BY <1>24, <2>1 DEF TypeOK, RemoveNamespace
<1>25. CASE UNCHANGED vars
  BY <1>25 DEF TypeOK, vars
<1> QED
  BY <1>1, <1>2, <1>3, <1>4, <1>5, <1>6, <1>7, <1>8, <1>9, <1>10, <1>11, <1>12,
     <1>13, <1>14, <1>15, <1>16, <1>17, <1>18, <1>19, <1>20, <1>21, <1>22,
     <1>23, <1>24, <1>25
  DEF Next, Reconcile, Informers, Kubernetes, Users

\* Type correctness: no sequence of steps of the worker, the informers, users,
\* third parties and Kubernetes takes a variable out of its type; in particular
\* the worker only reads sources that its Bundle lists.
THEOREM TypeCorrect == Spec => []TypeOK
<1>1. TypeOK /\ [Next]_vars => TypeOK'
  BY TypeStep
<1> QED BY TypeInit, <1>1, PTL DEF Spec

-----------------------------------------------------------------------------
(***************************************************************************)
(* NoRollback is not inductive: that a patch does not lower a version needs *)
(* what the worker holds to be no older than what is in the targets.  That  *)
(* in turn holds because the worker is the only writer of this data, reads  *)
(* each source after the last write of the reconcile before, and reads a    *)
(* cache that only moves forward and is behind the API server.              *)
(***************************************************************************)
VersionOrder ==
    /\ \A s \in Sources : srcC[s].ver <= src[s].ver
    /\ \A s \in Sources : res[s] <= srcC[s].ver
    /\ \A r \in Resources, s \in Sources : tgt[r].val[s] <= srcC[s].ver
    /\ \A r \in Resources, s \in Sources :
         res[s] > 0 => tgt[r].val[s] <= res[s]

\* The step of NoRollback.
KeepsVersions ==
    \A r \in Resources, s \in Sources :
        tgt[r].val[s] > 0 /\ tgt'[r].val[s] > 0
          => tgt'[r].val[s] >= tgt[r].val[s]

\* All the versions that VersionOrder compares are numbers.
LEMMA VersionTypes ==
    ASSUME TypeOK
    PROVE  /\ \A s \in Sources : /\ src[s].ver \in Nat /\ srcC[s].ver \in Nat
                                 /\ res[s] \in Nat
           /\ \A r \in Resources, s \in Sources : tgt[r].val[s] \in Nat
           /\ \A r \in Resources : tgt[r].val \in Versions
<1>1. \A s \in Sources : src[s].ver \in Nat /\ srcC[s].ver \in Nat
  BY DEF TypeOK, SourceType
<1>2. \A s \in Sources : res[s] \in Nat
  BY DEF TypeOK, Versions
<1>3. \A r \in Resources : tgt[r].val \in Versions
  BY DEF TypeOK, TargetType
<1> QED BY <1>1, <1>2, <1>3 DEF Versions

\* Steps that touch neither sources, nor what the worker holds, nor targets.
LEMMA OrderFrame ==
    ASSUME TypeOK, VersionOrder, UNCHANGED <<src, srcC, res, tgt>>
    PROVE  VersionOrder' /\ KeepsVersions
BY VersionTypes DEF VersionOrder, KeepsVersions

\* A reconcile that ends forgets what it holds.
LEMMA OrderReset ==
    ASSUME TypeOK, VersionOrder, UNCHANGED <<src, srcC, tgt>>, ResetLocals
    PROVE  VersionOrder' /\ KeepsVersions
<1>1. \A s \in Sources : res'[s] = 0
  BY DEF ResetLocals, NoVersion
<1> QED BY <1>1, VersionTypes DEF VersionOrder, KeepsVersions

\* A write of a target that leaves the controller's data alone or removes it.
LEMMA OrderRemoval ==
    ASSUME TypeOK, VersionOrder, UNCHANGED <<src, srcC, res>>,
           NEW r \in Resources, NEW t \in TargetType, WriteTarget(r, t),
           t.val \in {tgt[r].val, NoVersion}
    PROVE  VersionOrder' /\ KeepsVersions
<1>1. \A q \in Resources : tgt'[q].val \in {tgt[q].val, NoVersion}
  BY DEF WriteTarget, TypeOK
<1>2. \A q \in Resources, s \in Sources : tgt'[q].val[s] \in {tgt[q].val[s], 0}
  BY <1>1 DEF NoVersion
<1> QED BY <1>2, VersionTypes DEF VersionOrder, KeepsVersions

\* A write of a target with what the worker holds.
LEMMA OrderPatch ==
    ASSUME TypeOK, VersionOrder, UNCHANGED <<src, srcC, res>>,
           NEW r \in Resources, NEW t \in TargetType, WriteTarget(r, t),
           t.val = res
    PROVE  VersionOrder' /\ KeepsVersions
<1>1. \A q \in Resources : tgt'[q].val \in {tgt[q].val, res}
  BY DEF WriteTarget, TypeOK
<1>2. \A q \in Resources, s \in Sources :
        tgt'[q].val[s] \in {tgt[q].val[s], res[s]}
  BY <1>1
<1>3. KeepsVersions
  BY <1>2, VersionTypes DEF VersionOrder, KeepsVersions
<1>4. VersionOrder'
  BY <1>2, VersionTypes DEF VersionOrder
<1> QED BY <1>3, <1>4

\* The data of an applied object is the data of the patch.
LEMMA AppliedVal ==
    ASSUME NEW t \in TargetType, NEW uid, NEW ks, NEW v
    PROVE  Applied(t, uid, ks, v).val = v
BY DEF Applied, TargetType

LEMMA OrderInit == Init => VersionOrder
<1> SUFFICES ASSUME Init PROVE VersionOrder
  OBVIOUS
<1>1. \A s \in Sources : src[s].ver = 1 /\ srcC[s].ver = 1 /\ res[s] = 0
  BY DEF Init, NoVersion
<1>2. \A r \in Resources, s \in Sources : tgt[r].val[s] = 0
  BY DEF Init, NoTarget, NoVersion
<1> QED BY <1>1, <1>2 DEF VersionOrder

LEMMA OrderStep ==
    ASSUME TypeOK, VersionOrder, [Next]_vars
    PROVE  VersionOrder' /\ KeepsVersions
<1> DEFINE Goal == VersionOrder' /\ KeepsVersions
<1> USE DEF api, caches, locals, worker
<1>1. CASE SyncBundle
  BY <1>1, OrderFrame DEF SyncBundle
<1>2. ASSUME NEW n \in Namespaces, SyncNamespace(n) PROVE Goal
  BY <1>2, OrderFrame DEF SyncNamespace
<1>3. ASSUME NEW s \in Sources, SyncSource(s) PROVE Goal
  <2>1. \A q \in Sources : srcC'[q] \in {srcC[q], src[q]}
    BY <1>3 DEF SyncSource, TypeOK
  <2>2. \A q \in Sources : srcC'[q].ver <= src[q].ver
    BY <2>1, VersionTypes DEF VersionOrder
  <2>3. \A q \in Sources : srcC[q].ver <= srcC'[q].ver
    BY <2>1, VersionTypes DEF VersionOrder
  <2>4. \A q \in Sources : srcC'[q].ver \in Nat
    BY <2>1, VersionTypes
  <2> QED BY <1>3, <2>2, <2>3, <2>4, VersionTypes
          DEF SyncSource, VersionOrder, KeepsVersions
<1>4. ASSUME NEW r \in Resources, SyncTarget(r) PROVE Goal
  BY <1>4, OrderFrame DEF SyncTarget
<1>5. CASE GetBundle
  BY <1>5, OrderFrame DEF GetBundle
<1>6. CASE AddToCertPool
  <2> DEFINE s == b.spec.sources[idx]
  <2>1. s \in Sources
    BY <1>6, NextSource DEF AddToCertPool
  <2>2. CASE UNCHANGED res
    BY <1>6, <2>2, OrderFrame DEF AddToCertPool
  <2>3. CASE res' = [res EXCEPT ![s] = srcC[s].ver]
    <3>1. \A q \in Sources : res'[q] \in {res[q], srcC[q].ver}
      BY <2>1, <2>3 DEF TypeOK, Versions
    <3>2. UNCHANGED <<src, srcC, tgt>>
      BY <1>6 DEF AddToCertPool
    <3> QED BY <3>1, <3>2, VersionTypes DEF VersionOrder, KeepsVersions
  <2> QED BY <1>6, <2>2, <2>3 DEF AddToCertPool
<1>7. CASE ListNamespaces
  BY <1>7, OrderFrame, OrderReset DEF ListNamespaces, Done
<1>8. CASE ListTargets
  BY <1>8, OrderFrame DEF ListTargets
<1>9. ASSUME NEW r \in Resources, CleanupTarget(r) PROVE Goal
  <2> DEFINE t == Applied(tgt[r], b.uid, {}, NoVersion)
  <2>1. t \in TargetType /\ t.val = NoVersion
    BY AppliedType, AppliedVal, Absences, SpecParts DEF TypeOK
  <2>2. UNCHANGED <<src, srcC, res>>
    BY <1>9 DEF CleanupTarget
  <2>3. CASE WriteTarget(r, t)
    BY <2>1, <2>2, <2>3, OrderRemoval
  <2>4. CASE UNCHANGED tgt
    BY <2>2, <2>4, OrderFrame
  <2> QED BY <1>9, <2>3, <2>4 DEF CleanupTarget
<1>10. ASSUME NEW r \in Resources, CleanupDelete(r) PROVE Goal
  <2>1. UNCHANGED <<src, srcC, res>>
    BY <1>10 DEF CleanupDelete
  <2>2. ASSUME NEW t \in Deleted(tgt[r]), WriteTarget(r, t) PROVE Goal
    <3>1. t \in TargetType /\ t.val \in {tgt[r].val, NoVersion}
      BY DeletedType DEF TypeOK, NoTarget, TargetType
    <3> QED BY <2>1, <2>2, <3>1, OrderRemoval
  <2>3. CASE UNCHANGED tgt
    BY <2>1, <2>3, OrderFrame
  <2> QED BY <1>10, <2>2, <2>3 DEF CleanupDelete
<1>11. CASE NextKind
  BY <1>11, OrderFrame DEF NextKind
<1>12. ASSUME NEW r \in Resources, ApplyTarget(r) PROVE Goal
  BY <1>12, OrderFrame DEF ApplyTarget
<1>13. ASSUME NEW r \in Resources, PatchTarget(r) PROVE Goal
  <2> DEFINE t == Applied(tgt[r], b.uid, b.spec.keys, res)
  <2>1. t \in TargetType /\ t.val = res
    BY AppliedType, AppliedVal, SpecParts DEF TypeOK
  <2>2. UNCHANGED <<src, srcC, res>>
    BY <1>13 DEF PatchTarget
  <2>3. CASE WriteTarget(r, t)
    BY <2>1, <2>2, <2>3, OrderPatch
  <2>4. CASE UNCHANGED tgt
    BY <2>2, <2>4, OrderFrame
  <2> QED BY <1>13, <2>3, <2>4 DEF PatchTarget
<1>14. CASE FinishReconcile
  BY <1>14, OrderFrame, OrderReset DEF FinishReconcile, Done
<1>15. CASE PatchStatus
  BY <1>15, OrderReset DEF PatchStatus, Done
<1>16. CASE Restart
  <2>1. \A q \in Sources : res'[q] = 0
    BY <1>16 DEF Restart, ResetLocals, NoVersion
  <2>2. srcC' = src /\ UNCHANGED <<src, tgt>>
    BY <1>16 DEF Restart
  <2> QED BY <2>1, <2>2, VersionTypes DEF VersionOrder, KeepsVersions
<1>17. CASE EditSpec \/ DeleteBundle \/ CreateBundle
  BY <1>17, OrderFrame DEF EditSpec, DeleteBundle, CreateBundle, UserStep
<1>18. ASSUME NEW s \in Sources, EditSource(s) PROVE Goal
  <2>1. PICK st : src' = [src EXCEPT ![s] = [ver |-> src[s].ver + 1, state |-> st]]
    BY <1>18 DEF EditSource
  <2>2. \A q \in Sources : src'[q].ver \in {src[q].ver, src[q].ver + 1}
    BY <2>1 DEF TypeOK
  <2>3. UNCHANGED <<srcC, res, tgt>>
    BY <1>18 DEF EditSource, UserStep
  <2> QED BY <2>2, <2>3, VersionTypes DEF VersionOrder, KeepsVersions
<1>19. ASSUME NEW n \in Namespaces,
              \/ LabelNamespace(n) \/ DeleteNamespace(n)
              \/ CreateNamespace(n) \/ RemoveNamespace(n)
       PROVE  Goal
  BY <1>19, OrderFrame DEF LabelNamespace, DeleteNamespace, CreateNamespace,
                           RemoveNamespace, UserStep
<1>20. ASSUME NEW r \in Resources, EditTarget(r) PROVE Goal
  <2>1. PICK t \in ThirdPartyEdits(tgt[r]) : WriteTarget(r, t)
    BY <1>20 DEF EditTarget
  <2>2. t \in TargetType /\ t.val \in {tgt[r].val, NoVersion}
    BY EditsType DEF TypeOK
  <2> QED BY <1>20, <2>1, <2>2, OrderRemoval DEF EditTarget, UserStep
<1>21. ASSUME NEW r \in Resources, CreateTarget(r) PROVE Goal
  <2>1. PICK k \in Keys, o \in {0, Foreign} :
          WriteTarget(r, [NoTarget EXCEPT !.exists = TRUE, !.other = {k},
                                          !.owner = o])
    BY <1>21 DEF CreateTarget
  <2> DEFINE t == [NoTarget EXCEPT !.exists = TRUE, !.other = {k}, !.owner = o]
  <2>2. t \in TargetType /\ t.val = NoVersion
    BY CreatedType DEF NoTarget
  <2> QED BY <1>21, <2>1, <2>2, OrderRemoval DEF CreateTarget, UserStep
<1>22. ASSUME NEW r \in Resources, DeleteTarget(r) PROVE Goal
  <2>1. PICK t \in Deleted(tgt[r]) : WriteTarget(r, t)
    BY <1>22 DEF DeleteTarget
  <2>2. t \in TargetType /\ t.val \in {tgt[r].val, NoVersion}
    BY DeletedType DEF TypeOK, NoTarget, TargetType
  <2> QED BY <1>22, <2>1, <2>2, OrderRemoval DEF DeleteTarget, UserStep
<1>23. ASSUME NEW r \in Resources, RemoveTarget(r) PROVE Goal
  <2>1. NoTarget \in TargetType /\ NoTarget.val = NoVersion
    BY Absences DEF NoTarget
  <2> QED BY <1>23, <2>1, OrderRemoval DEF RemoveTarget
<1>24. CASE UNCHANGED vars
  BY <1>24, OrderFrame DEF vars
<1> QED
  BY <1>1, <1>2, <1>3, <1>4, <1>5, <1>6, <1>7, <1>8, <1>9, <1>10, <1>11, <1>12,
     <1>13, <1>14, <1>15, <1>16, <1>17, <1>18, <1>19, <1>20, <1>21, <1>22,
     <1>23, <1>24
  DEF Next, Reconcile, Informers, Kubernetes, Users

\* No rollback: whatever the caches lag, whichever calls fail and wherever the
\* process is restarted, the controller never replaces the content of a target
\* that comes from a version of a source by content from an older version.
THEOREM NeverRollsBack == Spec => NoRollback
<1>1. Init => TypeOK /\ VersionOrder
  BY TypeInit, OrderInit
<1>2. TypeOK /\ VersionOrder /\ [Next]_vars => TypeOK' /\ VersionOrder'
  BY TypeStep, OrderStep
<1>3. TypeOK /\ VersionOrder /\ [Next]_vars => [KeepsVersions]_vars
  BY OrderStep
<1>4. NoRollback <=> [][KeepsVersions]_vars
  BY DEF NoRollback, KeepsVersions
<1> QED BY <1>1, <1>2, <1>3, <1>4, PTL DEF Spec

-----------------------------------------------------------------------------
(***************************************************************************)
(* StaysInTargetNamespaces is not inductive: it needs that the targets the  *)
(* worker is about to write or to clean up are in namespaces it may write   *)
(* to.  The former come from the list of namespaces, which is filtered; the *)
(* latter from the target cache, which holds no others.                     *)
(***************************************************************************)
Allowed(r) == NsOf(r) \in TargetNamespaces

Confined ==
    /\ StaysInTargetNamespaces
    /\ \A r \in Resources : tgtC[r].exists => Allowed(r)
    /\ \A r \in want \cup old \cup cur : Allowed(r)

\* A step that leaves targets and their cache alone and adds no work.
LEMMA ConfinedFrame ==
    ASSUME Confined, UNCHANGED <<tgt, tgtC>>,
           \A r \in want' \cup old' \cup cur' : Allowed(r)
    PROVE  Confined'
BY DEF Confined, StaysInTargetNamespaces, Allowed

\* A write of a target that is allowed, or that does not make it the Bundle's.
LEMMA ConfinedWrite ==
    ASSUME TypeOK, Confined, NEW r \in Resources, NEW t, WriteTarget(r, t),
           Allowed(r) \/ (~t.label /\ t.owner \in {0, Foreign}),
           UNCHANGED tgtC,
           \A q \in want' \cup old' \cup cur' : Allowed(q)
    PROVE  Confined'
<1>1. \A q \in Resources : tgt'[q] = IF q = r THEN t ELSE tgt[q]
  BY DEF WriteTarget, TypeOK
<1> QED BY <1>1 DEF Confined, StaysInTargetNamespaces, Allowed

\* The worker's work is reset.
LEMMA ConfinedReset ==
    ASSUME Confined, UNCHANGED <<tgt, tgtC>>, ResetLocals
    PROVE  Confined'
BY ConfinedFrame DEF ResetLocals

\* The cache holds no object of another namespace.
LEMMA CacheViewAllowed ==
    ASSUME NEW r \in Resources, NEW t, CacheView(r, t).exists
    PROVE  Allowed(r)
BY DEF CacheView, NoTarget, Allowed

\* Others do not set label or owner to those of the Bundle.
LEMMA EditsKeepOut ==
    ASSUME NEW t \in TargetType, NEW u \in ThirdPartyEdits(t),
           ~t.label, t.owner \in {0, Foreign}
    PROVE  ~u.label /\ u.owner \in {0, Foreign}
BY DEF ThirdPartyEdits, TargetType

LEMMA ConfinedInit == Init => Confined
<1> SUFFICES ASSUME Init PROVE Confined
  OBVIOUS
<1>1. \A r \in Resources : tgt[r] = NoTarget /\ tgtC[r] = NoTarget
  BY DEF Init
<1>2. ~NoTarget.exists /\ ~NoTarget.label /\ NoTarget.owner = 0
  BY DEF NoTarget
<1>3. want = {} /\ old = {} /\ cur = {}
  BY DEF Init
<1> QED BY <1>1, <1>2, <1>3 DEF Confined, StaysInTargetNamespaces

LEMMA ConfinedStep ==
    ASSUME TypeOK, Confined, [Next]_vars
    PROVE  Confined'
<1> USE DEF api, caches, locals, worker
<1>a. \A r \in want \cup old \cup cur : Allowed(r)
  BY DEF Confined
<1>b. \A r \in Resources : tgt[r] \in TargetType
  BY DEF TypeOK
<1>1. CASE SyncBundle
  BY <1>1, <1>a, ConfinedFrame DEF SyncBundle
<1>2. ASSUME NEW n \in Namespaces, SyncNamespace(n) PROVE Confined'
  BY <1>2, <1>a, ConfinedFrame DEF SyncNamespace
<1>3. ASSUME NEW s \in Sources, SyncSource(s) PROVE Confined'
  BY <1>3, <1>a, ConfinedFrame DEF SyncSource
<1>4. ASSUME NEW r \in Resources, SyncTarget(r) PROVE Confined'
  <2>1. \A q \in Resources : tgtC'[q].exists => Allowed(q)
    BY <1>4, CacheViewAllowed DEF SyncTarget, Confined, TypeOK
  <2> QED BY <1>4, <2>1 DEF SyncTarget, Confined, StaysInTargetNamespaces
<1>5. CASE GetBundle
  BY <1>5, <1>a, ConfinedFrame DEF GetBundle
<1>6. CASE AddToCertPool
  BY <1>6, <1>a, ConfinedFrame DEF AddToCertPool
<1>7. CASE ListNamespaces
  <2>1. CASE UNCHANGED <<want, old, cur>>
    BY <1>7, <1>a, <2>1, ConfinedFrame DEF ListNamespaces
  <2>2. CASE Done(TRUE)
    BY <1>7, <2>2, ConfinedReset DEF ListNamespaces, Done
  <2>3. CASE want' = TargetResources /\ UNCHANGED <<old, cur>>
    BY <1>7, <1>a, <2>3, ConfinedFrame DEF ListNamespaces, TargetResources, Allowed
  <2> QED BY <1>7, <2>1, <2>2, <2>3 DEF ListNamespaces
<1>8. CASE ListTargets
  <2>1. \A r \in old' : r \in Resources /\ tgtC[r].exists
    BY <1>8 DEF ListTargets
  <2>2. \A r \in old' : Allowed(r)
    BY <2>1 DEF Confined
  <2> QED BY <1>8, <1>a, <2>2, ConfinedFrame DEF ListTargets
<1>9. ASSUME NEW r \in Resources, CleanupTarget(r) PROVE Confined'
  <2>1. Allowed(r) /\ old' \subseteq old /\ UNCHANGED <<want, tgtC>>
    BY <1>9, <1>a DEF CleanupTarget
  <2>2. cur' = cur \/ cur' = {r}
    BY <1>9 DEF CleanupTarget
  <2>3. \A q \in want' \cup old' \cup cur' : Allowed(q)
    BY <1>a, <2>1, <2>2
  <2>4. ASSUME NEW t, WriteTarget(r, t) PROVE Confined'
    BY <2>1, <2>3, <2>4, ConfinedWrite
  <2>5. CASE UNCHANGED tgt
    BY <2>1, <2>3, <2>5, ConfinedFrame
  <2> QED BY <1>9, <2>4, <2>5 DEF CleanupTarget
<1>10. ASSUME NEW r \in Resources, CleanupDelete(r) PROVE Confined'
  <2>1. Allowed(r) /\ cur' = {} /\ UNCHANGED <<want, old, tgtC>>
    BY <1>10, <1>a DEF CleanupDelete
  <2>2. \A q \in want' \cup old' \cup cur' : Allowed(q)
    BY <1>a, <2>1
  <2>3. ASSUME NEW t, WriteTarget(r, t) PROVE Confined'
    BY <2>1, <2>2, <2>3, ConfinedWrite
  <2>4. CASE UNCHANGED tgt
    BY <2>1, <2>2, <2>4, ConfinedFrame
  <2> QED BY <1>10, <2>3, <2>4 DEF CleanupDelete
<1>11. CASE NextKind
  BY <1>11, <1>a, ConfinedFrame DEF NextKind
<1>12. ASSUME NEW r \in Resources, ApplyTarget(r) PROVE Confined'
  <2>1. r \in want /\ want' \subseteq want /\ UNCHANGED <<old, tgt, tgtC>>
    BY <1>12 DEF ApplyTarget
  <2>2. cur' = cur \/ cur' = {r}
    BY <1>12 DEF ApplyTarget
  <2>3. \A q \in want' \cup old' \cup cur' : Allowed(q)
    BY <1>a, <2>1, <2>2
  <2> QED BY <2>1, <2>3, ConfinedFrame
<1>13. ASSUME NEW r \in Resources, PatchTarget(r) PROVE Confined'
  <2>1. Allowed(r) /\ cur' = {} /\ UNCHANGED <<want, old, tgtC>>
    BY <1>13, <1>a DEF PatchTarget
  <2>2. \A q \in want' \cup old' \cup cur' : Allowed(q)
    BY <1>a, <2>1
  <2>3. ASSUME NEW t, WriteTarget(r, t) PROVE Confined'
    BY <2>1, <2>2, <2>3, ConfinedWrite
  <2>4. CASE UNCHANGED tgt
    BY <2>1, <2>2, <2>4, ConfinedFrame
  <2> QED BY <1>13, <2>3, <2>4 DEF PatchTarget
<1>14. CASE FinishReconcile
  <2>1. CASE UNCHANGED <<want, old, cur>>
    BY <1>14, <1>a, <2>1, ConfinedFrame DEF FinishReconcile
  <2>2. CASE Done(FALSE)
    BY <1>14, <2>2, ConfinedReset DEF FinishReconcile, Done
  <2> QED BY <1>14, <2>1, <2>2 DEF FinishReconcile
<1>15. CASE PatchStatus
  BY <1>15, ConfinedReset DEF PatchStatus, Done
<1>16. CASE Restart
  <2>1. \A q \in Resources : tgtC'[q].exists => Allowed(q)
    BY <1>16, CacheViewAllowed DEF Restart
  <2>2. UNCHANGED tgt /\ want' = {} /\ old' = {} /\ cur' = {}
    BY <1>16 DEF Restart, ResetLocals
  <2> QED BY <2>1, <2>2 DEF Confined, StaysInTargetNamespaces
<1>17. CASE EditSpec \/ DeleteBundle \/ CreateBundle
  BY <1>17, <1>a, ConfinedFrame DEF EditSpec, DeleteBundle, CreateBundle, UserStep
<1>18. ASSUME NEW s \in Sources, EditSource(s) PROVE Confined'
  BY <1>18, <1>a, ConfinedFrame DEF EditSource, UserStep
<1>19. ASSUME NEW n \in Namespaces,
              \/ LabelNamespace(n) \/ DeleteNamespace(n)
              \/ CreateNamespace(n) \/ RemoveNamespace(n)
       PROVE  Confined'
  BY <1>19, <1>a, ConfinedFrame DEF LabelNamespace, DeleteNamespace,
                                    CreateNamespace, RemoveNamespace, UserStep
<1>20. ASSUME NEW r \in Resources, NEW t, WriteTarget(r, t),
              Allowed(r) \/ (~t.label /\ t.owner \in {0, Foreign}),
              UNCHANGED <<tgtC, want, old, cur>>
       PROVE  Confined'
  BY <1>20, <1>a, ConfinedWrite
<1>21. ASSUME NEW r \in Resources, EditTarget(r) PROVE Confined'
  <2>1. PICK t \in ThirdPartyEdits(tgt[r]) : WriteTarget(r, t)
    BY <1>21 DEF EditTarget
  <2>2. Allowed(r) \/ (~t.label /\ t.owner \in {0, Foreign})
    BY <1>b, <2>1, EditsKeepOut DEF Confined, StaysInTargetNamespaces, Allowed
  <2> QED BY <1>20, <1>21, <2>1, <2>2 DEF EditTarget, UserStep
<1>22. ASSUME NEW r \in Resources, CreateTarget(r) PROVE Confined'
  <2>1. PICK k \in Keys, o \in {0, Foreign} :
          WriteTarget(r, [NoTarget EXCEPT !.exists = TRUE, !.other = {k},
                                          !.owner = o])
    BY <1>22 DEF CreateTarget
  <2> DEFINE t == [NoTarget EXCEPT !.exists = TRUE, !.other = {k}, !.owner = o]
  <2>2. ~t.label /\ t.owner \in {0, Foreign}
    BY DEF NoTarget
  <2> QED BY <1>20, <1>22, <2>1, <2>2 DEF CreateTarget, UserStep
<1>23. ASSUME NEW r \in Resources, DeleteTarget(r) PROVE Confined'
  <2>1. PICK t \in Deleted(tgt[r]) : WriteTarget(r, t)
    BY <1>23 DEF DeleteTarget
  <2>2. t = NoTarget \/ t = [tgt[r] EXCEPT !.deleting = TRUE]
    BY <1>b, DeletedType
  <2>3. Allowed(r) \/ (~t.label /\ t.owner \in {0, Foreign})
    BY <1>b, <2>2 DEF Confined, StaysInTargetNamespaces, Allowed, NoTarget,
                      TargetType
  <2> QED BY <1>20, <1>23, <2>1, <2>3 DEF DeleteTarget, UserStep
<1>24. ASSUME NEW r \in Resources, RemoveTarget(r) PROVE Confined'
  <2>1. ~NoTarget.label /\ NoTarget.owner \in {0, Foreign}
    BY DEF NoTarget
  <2> QED BY <1>20, <1>24, <2>1 DEF RemoveTarget
<1>25. CASE UNCHANGED vars
  BY <1>25, <1>a, ConfinedFrame DEF vars
<1> QED
  BY <1>1, <1>2, <1>3, <1>4, <1>5, <1>6, <1>7, <1>8, <1>9, <1>10, <1>11, <1>12,
     <1>13, <1>14, <1>15, <1>16, <1>17, <1>18, <1>19, <1>21, <1>22, <1>23,
     <1>24, <1>25
  DEF Next, Reconcile, Informers, Kubernetes, Users

\* The controller never writes to, nor takes over, an object in a namespace that
\* --target-namespaces excludes, whatever its caches and the Bundle say.
THEOREM NeverLeavesTargetNamespaces == Spec => []StaysInTargetNamespaces
<1>1. TypeOK /\ Confined /\ [Next]_vars => TypeOK' /\ Confined'
  BY TypeStep, ConfinedStep
<1>2. Init => TypeOK /\ Confined
  BY TypeInit, ConfinedInit
<1>3. Confined => StaysInTargetNamespaces
  BY DEF Confined
<1> QED BY <1>1, <1>2, <1>3, PTL DEF Spec

-----------------------------------------------------------------------------
(***************************************************************************)
(* WholeBundles needs that the worker, once it is past BuildBundle, holds a *)
(* version of each source of its spec and of no other.  Reading says so of  *)
(* the part that it has read at any time.                                   *)
(***************************************************************************)
PastBuild == {"list", "cleanup", "delete", "apply", "patch"}

ReadSoFar(n) ==
    \A s \in Sources : res[s] > 0 <=> \E i \in 1..n : b.spec.sources[i] = s

Reading ==
    /\ pc = "idle" => idx = 1 /\ res = NoVersion
    /\ pc = "build" => ReadSoFar(idx - 1) /\ idx - 1 <= Len(b.spec.sources)
    /\ pc \in PastBuild => ReadSoFar(Len(b.spec.sources))

SourcesHaveVersions ==
    \A s \in Sources : src[s].ver > 0 /\ srcC[s].ver > 0

Whole == WholeBundles /\ SourcesHaveVersions /\ Reading

\* The content of a target comes from all sources of one spec.
WholeTarget(t) ==
    t.keys # {} => \E sp \in Specs : \A s \in Sources :
                        t.val[s] > 0 <=> Reads(sp, s)

\* A step that leaves the worker's reading alone, or only takes it further in
\* the part after BuildBundle, or gives it up.
LEMMA ReadingFrame ==
    ASSUME Reading,
           \/ UNCHANGED <<pc, idx, res, b>>
           \/ pc \in PastBuild /\ pc' \in PastBuild /\ UNCHANGED <<idx, res, b>>
           \/ pc' = "status"
           \/ pc' = "idle" /\ ResetLocals
    PROVE  Reading'
<1>1. CASE UNCHANGED <<pc, idx, res, b>>
  BY <1>1 DEF Reading, ReadSoFar
<1>2. CASE pc \in PastBuild /\ pc' \in PastBuild /\ UNCHANGED <<idx, res, b>>
  <2>1. ReadSoFar(Len(b.spec.sources))'
    BY <1>2 DEF Reading, ReadSoFar
  <2> QED BY <1>2, <2>1 DEF Reading, PastBuild
<1>3. CASE pc' = "status"
  BY <1>3 DEF Reading, PastBuild
<1>4. CASE pc' = "idle" /\ ResetLocals
  BY <1>4 DEF Reading, PastBuild, ResetLocals
<1> QED BY <1>1, <1>2, <1>3, <1>4

\* A write of content that is whole, or that was there before, or of none.
LEMMA WholeWrite ==
    ASSUME TypeOK, WholeBundles, NEW r \in Resources, NEW t, WriteTarget(r, t),
           \/ WholeTarget(t)
           \/ t.keys = tgt[r].keys /\ t.val = tgt[r].val
    PROVE  WholeBundles'
<1>1. \A q \in Resources : tgt'[q] = IF q = r THEN t ELSE tgt[q]
  BY DEF WriteTarget, TypeOK
<1>2. \A q \in Resources : WholeTarget(tgt[q])
  BY DEF WholeBundles, WholeTarget
<1>3. WholeTarget(t)
  BY <1>2 DEF WholeTarget
<1>4. \A q \in Resources : WholeTarget(tgt'[q])
  BY <1>1, <1>2, <1>3
<1> QED BY <1>4 DEF WholeBundles, WholeTarget

LEMMA WholeFrame ==
    ASSUME Whole, UNCHANGED <<src, srcC, tgt>>, Reading'
    PROVE  Whole'
BY DEF Whole, WholeBundles, SourcesHaveVersions

\* What others do to a target leaves the Bundle's data, or takes it away.
LEMMA EditsKeepWhole ==
    ASSUME NEW t \in TargetType, NEW u \in ThirdPartyEdits(t)
    PROVE  u.keys = {} \/ (u.keys = t.keys /\ u.val = t.val)
BY DEF ThirdPartyEdits, TargetType

LEMMA WholeInit == Init => Whole
<1> SUFFICES ASSUME Init PROVE Whole
  OBVIOUS
<1>1. WholeBundles
  <2>1. \A r \in Resources : tgt[r] = NoTarget
    BY DEF Init
  <2>2. NoTarget.keys = {}
    BY DEF NoTarget
  <2> QED BY <2>1, <2>2 DEF WholeBundles
<1>2. SourcesHaveVersions
  <2>1. src = [s \in Sources |-> [ver |-> 1, state |-> "ok"]] /\ srcC = src
    BY DEF Init
  <2> QED BY <2>1 DEF SourcesHaveVersions
<1>3. Reading
  BY DEF Init, Reading, PastBuild
<1> QED BY <1>1, <1>2, <1>3 DEF Whole

LEMMA WholeStep ==
    ASSUME TypeOK, Whole, [Next]_vars
    PROVE  Whole'
<1> USE DEF api, caches, locals, worker
<1>a. WholeBundles /\ SourcesHaveVersions /\ Reading
  BY DEF Whole
<1>b. \A r \in Resources : tgt[r] \in TargetType
  BY DEF TypeOK
<1>c. ASSUME UNCHANGED <<src, srcC, tgt, pc, idx, res, b>> PROVE Whole'
  BY <1>a, <1>c, ReadingFrame, WholeFrame
<1>d. ASSUME NEW r \in Resources, NEW t, WriteTarget(r, t),
             WholeTarget(t) \/ (t.keys = tgt[r].keys /\ t.val = tgt[r].val),
             UNCHANGED <<src, srcC>>, Reading'
      PROVE  Whole'
  BY <1>a, <1>d, WholeWrite DEF Whole, SourcesHaveVersions
<1>1. CASE SyncBundle
  BY <1>1, <1>c DEF SyncBundle
<1>2. ASSUME NEW n \in Namespaces, SyncNamespace(n) PROVE Whole'
  BY <1>2, <1>c DEF SyncNamespace
<1>3. ASSUME NEW s \in Sources, SyncSource(s) PROVE Whole'
  <2>1. SourcesHaveVersions'
    BY <1>3, <1>a DEF SyncSource, SourcesHaveVersions, TypeOK
  <2>2. Reading'
    BY <1>3, <1>a, ReadingFrame DEF SyncSource
  <2> QED BY <1>3, <1>a, <2>1, <2>2 DEF SyncSource, Whole, WholeBundles
<1>4. ASSUME NEW r \in Resources, SyncTarget(r) PROVE Whole'
  BY <1>4, <1>c DEF SyncTarget
<1>5. CASE GetBundle
  <2>1. CASE UNCHANGED <<pc, b>>
    BY <1>5, <1>c, <2>1 DEF GetBundle
  <2>2. CASE pc' = "build"
    <3>1. pc = "idle" /\ UNCHANGED <<idx, res, src, srcC, tgt>> /\ b' = bundleC
      BY <1>5, <2>2 DEF GetBundle
    <3>2. idx' = 1 /\ res' = NoVersion
      BY <1>a, <3>1 DEF Reading
    <3>3. bundleC.spec.sources \in Seq(Sources)
      BY SpecParts DEF TypeOK
    <3>4. ReadSoFar(idx - 1)'
      BY <3>2 DEF ReadSoFar, NoVersion
    <3>5. (idx - 1 <= Len(b.spec.sources))'
      BY <3>1, <3>2, <3>3
    <3> QED BY <2>2, <3>1, <3>4, <3>5, WholeFrame DEF Reading, PastBuild
  <2> QED BY <1>5, <2>1, <2>2 DEF GetBundle
<1>6. CASE AddToCertPool
  <2> DEFINE s == b.spec.sources[idx]
  <2>1. UNCHANGED <<src, srcC, tgt, b>>
    BY <1>6 DEF AddToCertPool
  <2>2. CASE pc' = "status"
    BY <1>a, <2>1, <2>2, ReadingFrame, WholeFrame
  <2>3. CASE idx' = idx + 1 /\ res' = [res EXCEPT ![s] = srcC[s].ver]
             /\ UNCHANGED pc
    <3>1. pc = "build" /\ idx <= Len(b.spec.sources)
      BY <1>6 DEF AddToCertPool
    <3>2. s \in Sources /\ idx \in Nat \ {0}
      BY <3>1, NextSource DEF TypeOK
    <3>3. \A q \in Sources : res'[q] = IF q = s THEN srcC[s].ver ELSE res[q]
      BY <2>3 DEF TypeOK, Versions
    <3>4. srcC[s].ver > 0
      BY <1>a, <3>2 DEF SourcesHaveVersions
    <3>5. ReadSoFar(idx - 1)
      BY <1>a, <3>1 DEF Reading
    <3>6. 1..(idx + 1 - 1) = 1..(idx - 1) \cup {idx}
      BY <3>2
    <3>7. \A q \in Sources : res'[q] > 0 <=>
                               \E i \in 1..(idx + 1 - 1) : b.spec.sources[i] = q
      BY <3>3, <3>4, <3>5, <3>6 DEF ReadSoFar
    <3>8. ReadSoFar(idx - 1)' /\ (idx - 1 <= Len(b.spec.sources))'
      BY <2>1, <2>3, <3>1, <3>2, <3>7 DEF ReadSoFar
    <3> QED BY <2>1, <2>3, <3>1, <3>8, WholeFrame DEF Reading, PastBuild
  <2> QED BY <1>6, <2>2, <2>3 DEF AddToCertPool, FailWith
<1>7. CASE ListNamespaces
  <2>1. UNCHANGED <<src, srcC, tgt>>
    BY <1>7 DEF ListNamespaces
  <2>2. CASE pc' = "status" \/ Done(TRUE)
    BY <1>a, <2>1, <2>2, ReadingFrame, WholeFrame DEF Done
  <2>3. CASE pc' = "list" /\ UNCHANGED <<b, idx, res>>
    <3>1. pc = "build" /\ idx > Len(b.spec.sources)
      BY <1>7 DEF ListNamespaces
    <3>2. b.spec.sources \in Seq(Sources) /\ idx \in Nat \ {0}
      BY SpecParts DEF TypeOK
    <3>3. idx - 1 = Len(b.spec.sources) /\ ReadSoFar(idx - 1)
      BY <1>a, <3>1, <3>2 DEF Reading
    <3>4. ReadSoFar(Len(b.spec.sources))'
      BY <2>3, <3>3 DEF ReadSoFar
    <3> QED BY <2>1, <2>3, <3>4, WholeFrame DEF Reading, PastBuild
  <2> QED BY <1>7, <2>2, <2>3 DEF ListNamespaces, FailWith
<1>8. CASE ListTargets
  BY <1>8, <1>a, ReadingFrame, WholeFrame DEF ListTargets, PastBuild
<1>9. ASSUME NEW r \in Resources, CleanupTarget(r) PROVE Whole'
  <2> DEFINE t == Applied(tgt[r], b.uid, {}, NoVersion)
  <2>1. t.keys = {}
    BY <1>b DEF Applied, TargetType
  <2>2. pc = "cleanup" /\ pc' \in {"cleanup", "delete"}
        /\ UNCHANGED <<src, srcC, idx, res, b>>
    BY <1>9 DEF CleanupTarget
  <2>3. Reading'
    BY <1>a, <2>2, ReadingFrame DEF PastBuild
  <2>4. CASE WriteTarget(r, t)
    BY <1>d, <2>1, <2>2, <2>3, <2>4 DEF WholeTarget
  <2>5. CASE UNCHANGED tgt
    BY <2>2, <2>3, <2>5, WholeFrame
  <2> QED BY <1>9, <2>4, <2>5 DEF CleanupTarget
<1>10. ASSUME NEW r \in Resources, CleanupDelete(r) PROVE Whole'
  <2>1. pc = "delete" /\ pc' = "cleanup" /\ UNCHANGED <<src, srcC, idx, res, b>>
    BY <1>10 DEF CleanupDelete
  <2>2. Reading'
    BY <1>a, <2>1, ReadingFrame DEF PastBuild
  <2>3. ASSUME NEW t \in Deleted(tgt[r]), WriteTarget(r, t) PROVE Whole'
    <3>1. t.keys = {} \/ (t.keys = tgt[r].keys /\ t.val = tgt[r].val)
      BY <1>b, DeletedType DEF NoTarget, TargetType
    <3> QED BY <1>d, <2>1, <2>2, <2>3, <3>1 DEF WholeTarget
  <2>4. CASE UNCHANGED tgt
    BY <2>1, <2>2, <2>4, WholeFrame
  <2> QED BY <1>10, <2>3, <2>4 DEF CleanupDelete
<1>11. CASE NextKind
  BY <1>11, <1>a, ReadingFrame, WholeFrame DEF NextKind, PastBuild
<1>12. ASSUME NEW r \in Resources, ApplyTarget(r) PROVE Whole'
  BY <1>12, <1>a, ReadingFrame, WholeFrame DEF ApplyTarget, PastBuild
<1>13. ASSUME NEW r \in Resources, PatchTarget(r) PROVE Whole'
  <2> DEFINE t == Applied(tgt[r], b.uid, b.spec.keys, res)
  <2>1. t.val = res
    BY <1>b, AppliedVal, SpecParts DEF TypeOK
  <2>2. pc = "patch" /\ pc' \in {"apply", "status"}
        /\ UNCHANGED <<src, srcC, idx, res, b>>
    BY <1>13 DEF PatchTarget, FailWith
  <2>3. Reading'
    BY <1>a, <2>2, ReadingFrame DEF PastBuild
  <2>4. ReadSoFar(Len(b.spec.sources))
    BY <1>a, <2>2 DEF Reading, PastBuild
  <2>5. b.spec \in Specs
    BY DEF TypeOK, BundleType
  <2>6. WholeTarget(t)
    BY <2>1, <2>4, <2>5 DEF WholeTarget, ReadSoFar, Reads
  <2>7. CASE WriteTarget(r, t)
    BY <1>d, <2>2, <2>3, <2>6, <2>7
  <2>8. CASE UNCHANGED tgt
    BY <2>2, <2>3, <2>8, WholeFrame
  <2> QED BY <1>13, <2>7, <2>8 DEF PatchTarget
<1>14. CASE FinishReconcile
  BY <1>14, <1>a, ReadingFrame, WholeFrame DEF FinishReconcile, Done
<1>15. CASE PatchStatus
  BY <1>15, <1>a, ReadingFrame, WholeFrame DEF PatchStatus, Done
<1>16. CASE Restart
  <2>1. srcC' = src /\ UNCHANGED <<src, tgt>>
    BY <1>16 DEF Restart
  <2>2. Reading'
    BY <1>16, <1>a, ReadingFrame DEF Restart
  <2> QED BY <1>a, <2>1, <2>2 DEF Whole, WholeBundles, SourcesHaveVersions
<1>17. CASE EditSpec \/ DeleteBundle \/ CreateBundle
  BY <1>17, <1>c DEF EditSpec, DeleteBundle, CreateBundle, UserStep
<1>18. ASSUME NEW s \in Sources, EditSource(s) PROVE Whole'
  <2>1. PICK st : src' = [src EXCEPT ![s] = [ver |-> src[s].ver + 1, state |-> st]]
    BY <1>18 DEF EditSource
  <2>2. \A q \in Sources : src[q].ver \in Nat
    BY DEF TypeOK, SourceType
  <2>3. \A q \in Sources : src'[q].ver \in {src[q].ver, src[q].ver + 1}
    BY <2>1 DEF TypeOK
  <2>4. UNCHANGED <<srcC, tgt, pc, idx, res, b>>
    BY <1>18 DEF EditSource, UserStep
  <2>5. SourcesHaveVersions'
    BY <1>a, <2>2, <2>3, <2>4 DEF SourcesHaveVersions
  <2>6. Reading'
    BY <1>a, <2>4, ReadingFrame
  <2> QED BY <1>a, <2>4, <2>5, <2>6 DEF Whole, WholeBundles
<1>19. ASSUME NEW n \in Namespaces,
              \/ LabelNamespace(n) \/ DeleteNamespace(n)
              \/ CreateNamespace(n) \/ RemoveNamespace(n)
       PROVE  Whole'
  BY <1>19, <1>c DEF LabelNamespace, DeleteNamespace, CreateNamespace,
                     RemoveNamespace, UserStep
<1>20. ASSUME NEW r \in Resources, NEW t, WriteTarget(r, t),
              t.keys = {} \/ (t.keys = tgt[r].keys /\ t.val = tgt[r].val),
              UNCHANGED <<src, srcC, pc, idx, res, b>>
       PROVE  Whole'
  <2>1. Reading'
    BY <1>20, <1>a, ReadingFrame
  <2> QED BY <1>20, <1>d, <2>1 DEF WholeTarget
<1>21. ASSUME NEW r \in Resources, EditTarget(r) PROVE Whole'
  <2>1. PICK t \in ThirdPartyEdits(tgt[r]) : WriteTarget(r, t)
    BY <1>21 DEF EditTarget
  <2>2. t.keys = {} \/ (t.keys = tgt[r].keys /\ t.val = tgt[r].val)
    BY <1>b, <2>1, EditsKeepWhole
  <2> QED BY <1>20, <1>21, <2>1, <2>2 DEF EditTarget, UserStep
<1>22. ASSUME NEW r \in Resources, CreateTarget(r) PROVE Whole'
  <2>1. PICK k \in Keys, o \in {0, Foreign} :
          WriteTarget(r, [NoTarget EXCEPT !.exists = TRUE, !.other = {k},
                                          !.owner = o])
    BY <1>22 DEF CreateTarget
  <2> DEFINE t == [NoTarget EXCEPT !.exists = TRUE, !.other = {k}, !.owner = o]
  <2>2. t.keys = {}
    BY DEF NoTarget
  <2> QED BY <1>20, <1>22, <2>1, <2>2 DEF CreateTarget, UserStep
<1>23. ASSUME NEW r \in Resources, DeleteTarget(r) PROVE Whole'
  <2>1. PICK t \in Deleted(tgt[r]) : WriteTarget(r, t)
    BY <1>23 DEF DeleteTarget
  <2>2. t.keys = {} \/ (t.keys = tgt[r].keys /\ t.val = tgt[r].val)
    BY <1>b, DeletedType DEF NoTarget, TargetType
  <2> QED BY <1>20, <1>23, <2>1, <2>2 DEF DeleteTarget, UserStep
<1>24. ASSUME NEW r \in Resources, RemoveTarget(r) PROVE Whole'
  <2>1. NoTarget.keys = {}
    BY DEF NoTarget
  <2> QED BY <1>20, <1>24, <2>1 DEF RemoveTarget
<1>25. CASE UNCHANGED vars
  BY <1>25, <1>c DEF vars
<1> QED
  BY <1>1, <1>2, <1>3, <1>4, <1>5, <1>6, <1>7, <1>8, <1>9, <1>10, <1>11, <1>12,
     <1>13, <1>14, <1>15, <1>16, <1>17, <1>18, <1>19, <1>21, <1>22, <1>23,
     <1>24, <1>25
  DEF Next, Reconcile, Informers, Kubernetes, Users

\* Targets are all or nothing: what the controller has written into a target
\* comes from every source of one spec of the Bundle, also when sources are
\* missing or invalid, calls fail and the process is restarted.
THEOREM AlwaysWholeBundles == Spec => []WholeBundles
<1>1. TypeOK /\ Whole /\ [Next]_vars => TypeOK' /\ Whole'
  BY TypeStep, WholeStep
<1>2. Init => TypeOK /\ Whole
  BY TypeInit, WholeInit
<1>3. Whole => WholeBundles
  BY DEF Whole
<1> QED BY <1>1, <1>2, <1>3, PTL DEF Spec

=============================================================================
