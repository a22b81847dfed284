-------------------------- MODULE TargetStoreProofs --------------------------
(***************************************************************************)
(* The Bundle controller implements TargetStore, for every set of          *)
(* namespaces, sources, keys and specs and every bound.                    *)
(*                                                                         *)
(* Most steps leave sources and targets alone.  A source that is edited    *)
(* advances; a target whose data is removed, by the controller or by       *)
(* others, is withdrawn; a target that is patched with what the worker has *)
(* read is published.  Only the last needs more than types: that the       *)
(* worker has read just the sources of its spec (Whole), and that what it  *)
(* read is between what any target holds and what the sources are now      *)
(* (VersionOrder).                                                         *)
(***************************************************************************)
EXTENDS BundleControllerProofs

current == [s \in Sources |-> src[s].ver]
held == [r \in Resources |-> tgt[r].val]
Footprints == {{s \in Sources : Reads(sp, s)} : sp \in Specs}

StoreStep == [Store!Next]_(Store!vars)

\* Steps that touch neither sources nor targets.
LEMMA StoreFrame ==
    ASSUME UNCHANGED <<src, tgt>>
    PROVE  StoreStep
BY DEF StoreStep, Store!vars

\* What a write of one target is to the store.
LEMMA HeldWrite ==
    ASSUME TypeOK, NEW r \in Resources, NEW t, WriteTarget(r, t), UNCHANGED src
    PROVE  /\ held' = [held EXCEPT ![r] = t.val]
           /\ UNCHANGED current
<1>1. \A q \in Resources : tgt'[q] = IF q = r THEN t ELSE tgt[q]
  BY DEF WriteTarget, TypeOK
<1> QED BY <1>1 DEF held, current

\* A write that leaves the controller's data alone or removes it.
LEMMA StoreRemoval ==
    ASSUME TypeOK, NEW r \in Resources, NEW t, WriteTarget(r, t), UNCHANGED src,
           t.val \in {tgt[r].val, NoVersion}
    PROVE  StoreStep
<1>1. held' = [held EXCEPT ![r] = t.val] /\ UNCHANGED current
  BY HeldWrite
<1>2. CASE t.val = held[r]
  <2>1. held' = held
    BY <1>1, <1>2 DEF held
  <2> QED BY <1>1, <2>1 DEF StoreStep, Store!vars, held, current
<1>3. CASE t.val # held[r]
  <2>1. t.val = NoVersion
    BY <1>3 DEF held
  <2>2. Store!Withdraw(r)
    BY <1>1, <1>3, <2>1 DEF Store!Withdraw, Store!Nothing, NoVersion, held, current
  <2> QED BY <2>2 DEF StoreStep, Store!Next
<1> QED BY <1>2, <1>3

\* The version that a patch gives a target is a whole bundle, and lies between
\* what the targets hold and what the sources are.
LEMMA PublishedVersion ==
    ASSUME TypeOK, VersionOrder, Whole, pc = "patch"
    PROVE  /\ {s \in Sources : res[s] > 0} \in Footprints
           /\ \A s \in Sources : res[s] > 0 =>
                /\ res[s] <= src[s].ver
                /\ \A q \in Resources : res[s] >= tgt[q].val[s]
<1>1. ReadSoFar(Len(b.spec.sources)) /\ b.spec \in Specs
  BY DEF Whole, Reading, PastBuild, TypeOK, BundleType
<1>2. {s \in Sources : res[s] > 0} = {s \in Sources : Reads(b.spec, s)}
  BY <1>1 DEF ReadSoFar, Reads
<1>3. {s \in Sources : res[s] > 0} \in Footprints
  BY <1>1, <1>2 DEF Footprints
<1>4. \A s \in Sources : res[s] > 0 =>
         /\ res[s] <= src[s].ver
         /\ \A q \in Resources : res[s] >= tgt[q].val[s]
  BY VersionTypes DEF VersionOrder
<1> QED BY <1>3, <1>4

\* A write of what the worker has read.
LEMMA StorePatch ==
    ASSUME TypeOK, VersionOrder, Whole, pc = "patch",
           NEW r \in Resources, NEW t, WriteTarget(r, t), UNCHANGED src,
           t.val = res
    PROVE  StoreStep
<1>1. held' = [held EXCEPT ![r] = t.val] /\ UNCHANGED current
  BY HeldWrite
<1>2. CASE t.val = held[r]
  <2>1. held' = held
    BY <1>1, <1>2 DEF held
  <2> QED BY <1>1, <2>1 DEF StoreStep, Store!vars, held, current
<1>3. CASE t.val # held[r]
  <2>1. held'[r] = res
    BY <1>1 DEF held
  <2>2. Store!Footprint(res) = {s \in Sources : res[s] > 0}
    BY DEF Store!Footprint
  <2>3. Store!Footprint(res) \in Footprints
    BY <2>2, PublishedVersion
  <2>4. \A s \in Store!Footprint(res) :
          /\ res[s] <= current[s]
          /\ \A q \in Resources : res[s] >= held[q][s]
    BY <2>2, PublishedVersion DEF current, held
  <2> DEFINE Published(q, v) ==
               /\ v # held[q]
               /\ Store!Footprint(v) \in Footprints
               /\ \A s \in Store!Footprint(v) :
                    /\ v[s] <= current[s]
                    /\ \A x \in Resources : v[s] >= held[x][s]
               /\ held' = [held EXCEPT ![q] = v]
               /\ UNCHANGED current
  <2>5. Published(r, held'[r])
    BY <1>1, <1>3, <2>1, <2>3, <2>4
  <2>6. \E q \in Resources : Published(q, held'[q])
    BY <2>5
  <2>7. Store!Next
    BY <2>6 DEF Store!Next, Store!Publish, Footprints, current, held
  <2> QED BY <2>7 DEF StoreStep
<1> QED BY <1>2, <1>3

\* An edit of a source.
LEMMA StoreAdvance ==
    ASSUME TypeOK, NEW s \in Sources, EditSource(s)
    PROVE  StoreStep
<1>1. PICK st : src' = [src EXCEPT ![s] = [ver |-> src[s].ver + 1, state |-> st]]
  BY DEF EditSource
<1>2. \A q \in Sources : src'[q].ver = IF q = s THEN src[s].ver + 1 ELSE src[q].ver
  BY <1>1 DEF TypeOK
<1>3. current' = [current EXCEPT ![s] = @ + 1]
  BY <1>2 DEF current
<1>4. held' = held
  BY DEF held, EditSource
<1>5. Store!Advance(s)
  BY <1>3, <1>4 DEF Store!Advance, current, held
<1> QED BY <1>5 DEF StoreStep, Store!Next

LEMMA StoreInit == Init => Store!Init
<1> SUFFICES ASSUME Init PROVE Store!Init
  OBVIOUS
<1>1. \A s \in Sources : src[s].ver = 1
  BY DEF Init
<1>2. \A r \in Resources : tgt[r].val = NoVersion
  BY DEF Init, NoTarget
<1> QED BY <1>1, <1>2 DEF Store!Init, Store!Nothing, NoVersion

\* Every step of the controller, of users and of Kubernetes is a step of the
\* store or leaves it as it is.
LEMMA NextIsStoreStep ==
    ASSUME TypeOK, VersionOrder, Whole, [Next]_vars
    PROVE  StoreStep
<1> USE DEF api, caches, locals, worker
<1>b. \A r \in Resources : tgt[r] \in TargetType
  BY DEF TypeOK
<1>1. CASE Informers
  BY <1>1, StoreFrame
  DEF Informers, SyncBundle, SyncNamespace, SyncSource, SyncTarget
<1>2. CASE \/ GetBundle \/ AddToCertPool \/ ListNamespaces \/ ListTargets
           \/ NextKind \/ FinishReconcile
  BY <1>2, StoreFrame
  DEF GetBundle, AddToCertPool, ListNamespaces, ListTargets, NextKind,
      FinishReconcile
<1>3. CASE PatchStatus \/ Restart
  BY <1>3, StoreFrame DEF PatchStatus, Restart
<1>4. ASSUME NEW r \in Resources, ApplyTarget(r) PROVE StoreStep
  BY <1>4, StoreFrame DEF ApplyTarget
<1>5. ASSUME NEW r \in Resources, CleanupTarget(r) PROVE StoreStep
  <2> DEFINE t == Applied(tgt[r], b.uid, {}, NoVersion)
  <2>1. t.val = NoVersion
    BY <1>b, AppliedVal
  <2>2. UNCHANGED src /\ (WriteTarget(r, t) \/ UNCHANGED tgt)
    BY <1>5 DEF CleanupTarget
  <2> QED BY <2>1, <2>2, StoreRemoval, StoreFrame
<1>6. ASSUME NEW r \in Resources, CleanupDelete(r) PROVE StoreStep
  <2>1. ASSUME NEW t \in Deleted(tgt[r]), WriteTarget(r, t) PROVE StoreStep
    <3>1. t.val \in {tgt[r].val, NoVersion}
      BY <1>b, DeletedType DEF NoTarget, TargetType
    <3> QED BY <1>6, <2>1, <3>1, StoreRemoval DEF CleanupDelete
  <2>2. CASE UNCHANGED tgt
    BY <1>6, <2>2, StoreFrame DEF CleanupDelete
  <2> QED BY <1>6, <2>1, <2>2 DEF CleanupDelete
<1>7. ASSUME NEW r \in Resources, PatchTarget(r) PROVE StoreStep
  <2> DEFINE t == Applied(tgt[r], b.uid, b.spec.keys, res)
  <2>1. t.val = res
    BY <1>b, AppliedVal
  <2>2. pc = "patch" /\ UNCHANGED src /\ (WriteTarget(r, t) \/ UNCHANGED tgt)
    BY <1>7 DEF PatchTarget
  <2> QED BY <2>1, <2>2, StorePatch, StoreFrame
<1>8. CASE EditSpec \/ DeleteBundle \/ CreateBundle
  BY <1>8, StoreFrame DEF EditSpec, DeleteBundle, CreateBundle
<1>9. ASSUME NEW s \in Sources, EditSource(s) PROVE StoreStep
  BY <1>9, StoreAdvance
<1>10. ASSUME NEW n \in Namespaces,
              \/ LabelNamespace(n) \/ DeleteNamespace(n)
              \/ CreateNamespace(n) \/ RemoveNamespace(n)
       PROVE  StoreStep
  BY <1>10, StoreFrame
  DEF LabelNamespace, DeleteNamespace, CreateNamespace, RemoveNamespace
<1>11. ASSUME NEW r \in Resources, EditTarget(r) PROVE StoreStep
  <2>1. PICK t \in ThirdPartyEdits(tgt[r]) : WriteTarget(r, t)
    BY <1>11 DEF EditTarget
  <2>2. t.val \in {tgt[r].val, NoVersion}
    BY <1>b, EditsType
  <2> QED BY <1>11, <2>1, <2>2, StoreRemoval DEF EditTarget
<1>12. ASSUME NEW r \in Resources, CreateTarget(r) PROVE StoreStep
  <2>1. PICK k \in Keys, o \in {0, Foreign} :
          WriteTarget(r, [NoTarget EXCEPT !.exists = TRUE, !.other = {k},
                                          !.owner = o])
    BY <1>12 DEF CreateTarget
  <2>2. [NoTarget EXCEPT !.exists = TRUE, !.other = {k}, !.owner = o].val = NoVersion
    BY DEF NoTarget
  <2> QED BY <1>12, <2>1, <2>2, StoreRemoval DEF CreateTarget
<1>13. ASSUME NEW r \in Resources, DeleteTarget(r) PROVE StoreStep
  <2>1. PICK t \in Deleted(tgt[r]) : WriteTarget(r, t)
    BY <1>13 DEF DeleteTarget
  <2>2. t.val \in {tgt[r].val, NoVersion}
    BY <1>b, DeletedType DEF NoTarget, TargetType
  <2> QED BY <1>13, <2>1, <2>2, StoreRemoval DEF DeleteTarget
<1>14. ASSUME NEW r \in Resources, RemoveTarget(r) PROVE StoreStep
  BY <1>14, StoreRemoval DEF RemoveTarget, NoTarget
<1>15. CASE UNCHANGED vars
  BY <1>15, StoreFrame DEF vars
<1> QED
  BY <1>1, <1>2, <1>3, <1>4, <1>5, <1>6, <1>7, <1>8, <1>9, <1>10, <1>11, <1>12,
     <1>13, <1>14, <1>15
  DEF Next, Reconcile, Kubernetes, Users

\* The controller implements the store: whatever the interleaving of reads and
\* writes, the lag of the caches, the failed calls and the restarts, each step
\* changes at most one target, to nothing or to a whole bundle of versions that
\* the sources have had, none older than what any other target holds.
THEOREM ControllerImplementsStore == Spec => ImplementsStore
<1> DEFINE Inv == TypeOK /\ VersionOrder /\ Whole
<1>1. Init => Inv /\ Store!Init
  BY TypeInit, OrderInit, WholeInit, StoreInit
<1>2. Inv /\ [Next]_vars => Inv'
  BY TypeStep, OrderStep, WholeStep
<1>3. Inv /\ [Next]_vars => [Store!Next]_(Store!vars)
  BY NextIsStoreStep DEF StoreStep
<1> HIDE DEF Inv
<1> QED BY <1>1, <1>2, <1>3, PTL DEF Spec, ImplementsStore, Store!Spec

=============================================================================
