--------------------------- MODULE BundleController ---------------------------
(***************************************************************************)
(* The Bundle controller of trust-manager (pkg/bundle): one reconcile      *)
(* worker that keeps, in every selected namespace, a target ConfigMap      *)
(* and/or Secret holding the certificates of a Bundle's sources.           *)
(*                                                                         *)
(* Three parties interleave:                                               *)
(*   - users, third parties and Kubernetes itself change the API objects;  *)
(*   - informers copy every object, late, into the caches the controller   *)
(*     reads, and their event handlers put the Bundle on the work queue;   *)
(*   - the worker runs Reconcile: it reads only caches, and writes only    *)
(*     to the API server, one call at a time.                              *)
(*                                                                         *)
(* Simplifications.                                                        *)
(*   - One Bundle: the work queue never runs one key twice at a time, and  *)
(*     two Bundles share no target (a target has its Bundle's name).       *)
(*   - The content of a source is the number of edits made to it; a target *)
(*     holds one such number per source.  How PEM data is pooled, hashed   *)
(*     and encoded is the subject of other modules.                        *)
(*   - A cache jumps to the present API object instead of replaying each   *)
(*     watch event.  For targets, which the worker writes behind the       *)
(*     cache's back, tgtEvent remembers that a version in between would    *)
(*     have been mapped to the Bundle.                                     *)
(*   - Condition messages, Kubernetes events and logs are left out.        *)
(***************************************************************************)
EXTENDS Integers, FiniteSets, Sequences

CONSTANTS
    Namespaces,             \* names a namespace may have
    TargetNamespaces,       \* --target-namespaces; all of them if not given
    Kinds,                  \* target kinds that occur
    Sources,                \* what an entry of spec.sources may select
    DefaultCAs,             \* the member of Sources for useDefaultCAs
    Keys,                   \* keys of the data of a target object
    Specs,                  \* Bundle specs that users may write
    SecretTargetsEnabled,   \* --secret-targets-enabled
    Finalizers,             \* whether target objects may carry a finalizer
    FaultSites,             \* controller API calls that may fail
    UserOps,                \* what users and third parties may change
    MaxUser,                \* bound: number of user and third-party changes
    MaxFaults               \* bound: number of failed calls and restarts

\* Every kind of target has a key that the API requires.
SpecType == [sources : Seq(Sources), kinds : SUBSET {"ConfigMap", "Secret"},
             keys : (SUBSET Keys) \ {{}}, selector : {"all", "labelled", "invalid"}]

ASSUME ConstantsAssumption ==
    /\ Kinds \subseteq {"ConfigMap", "Secret"}
    /\ TargetNamespaces \subseteq Namespaces
    /\ DefaultCAs \in Sources
    /\ Specs # {}
    /\ \A sp \in Specs : sp \in SpecType
    /\ SecretTargetsEnabled \in BOOLEAN
    /\ Finalizers \in BOOLEAN
    /\ FaultSites \subseteq {"patch", "cleanup", "delete", "status"}
    /\ UserOps \subseteq {"spec", "bundle", "source", "namespace", "target"}
    /\ MaxUser \in Nat
    /\ MaxFaults \in Nat

VARIABLES
    \* API server
    bundle,       \* the Bundle
    ns,           \* namespaces
    src,          \* source objects, and the default CA package on disk
    tgt,          \* target objects, by kind and namespace
    \* informer caches
    bundleC, nsC, srcC, tgtC,
    tgtEvent,     \* target events on their way that map to the Bundle
    \* work queue and worker
    queued,       \* the Bundle's key waits in the work queue
    pc,           \* where the worker is in Reconcile
    b,            \* the Bundle as read from the cache
    idx,          \* next entry of b.spec.sources
    res,          \* resolvedBundle: the version read of each source
    certs,        \* the pool holds a certificate
    want,         \* targetResources still to be applied
    desired,      \* targetResources
    kind,         \* target kind being listed and cleaned up
    old,          \* old targets still to be cleaned up
    cur,          \* target of the API call in progress
    updated,      \* needsUpdate
    patch,        \* status patch to send: condition and CA version
    failed,       \* reconcileBundle returned an error
    uncleaned,    \* history: targets whose cleanup failed by a Fault in the
                  \* last reconcile
    \* bounds
    user, faults

api    == <<bundle, ns, src, tgt>>
caches == <<bundleC, nsC, srcC, tgtC, tgtEvent>>
locals == <<b, idx, res, certs, want, desired, kind, old, cur, updated, patch,
            failed>>
vars   == <<api, caches, queued, pc, locals, uncleaned, user, faults>>

-----------------------------------------------------------------------------
(* Objects *)

Resources == Kinds \X Namespaces
KindOf(r) == r[1]
NsOf(r)   == r[2]

Versions == [Sources -> Nat]
NoVersion == [s \in Sources |-> 0]

\* Synced condition of the Bundle's status; "Unknown" stands for none.
CondType == [status : {"True", "False", "Unknown"},
             reason : {"", "Synced", "SourceNotFound", "SourceBuildError",
                       "SecretTargetsDisabled", "SyncTargetFailed"},
             observed : Nat, ltt : {0, 1}]
NoCond == [status |-> "Unknown", reason |-> "", observed |-> 0, ltt |-> 0]
StatusType == [cond : CondType, ca : Nat]
NoStatus == [cond |-> NoCond, ca |-> 0]

NoBundle == [exists |-> FALSE, uid |-> 0, gen |-> 0,
             spec |-> CHOOSE sp \in Specs : TRUE, status |-> NoStatus]
BundleType == [exists : BOOLEAN, uid : Nat, gen : Nat, spec : Specs,
               status : StatusType]

NsType == [phase : {"absent", "active", "terminating"}, labelled : BOOLEAN]

SourceType == [ver : Nat, state : {"ok", "empty", "missing", "bad"}]

\* keys: data keys managed by trust-manager, all holding val;
\* other: data keys of other managers; hash: the annotation, by what it hashes;
\* owner: UID of the controlling Bundle, 0 for none, -1 for another controller.
Foreign == -1
TargetType == [exists : BOOLEAN, owner : Nat \cup {Foreign}, label : BOOLEAN,
               hash : Versions, keys : SUBSET Keys, val : Versions,
               other : SUBSET Keys, deleting : BOOLEAN]
NoTarget == [exists |-> FALSE, owner |-> 0, label |-> FALSE,
             hash |-> NoVersion, keys |-> {}, val |-> NoVersion,
             other |-> {}, deleting |-> FALSE]

\* The target cache holds only the metadata of objects that carry the Bundle
\* label, in the namespaces the controller may write to.
CacheView(r, t) ==
    IF t.exists /\ t.label /\ NsOf(r) \in TargetNamespaces
    THEN [t EXCEPT !.val = NoVersion, !.other = {}]
    ELSE NoTarget

\* EnqueueRequestForOwner: kind and name of the controller, not its UID.
MapsToBundle(r, t) == CacheView(r, t).exists /\ t.owner \notin {0, Foreign}

SelectorMatches(sp, n) ==
    \/ sp.selector = "all"
    \/ sp.selector = "labelled" /\ n.labelled

Reads(sp, s) == \E i \in 1..Len(sp.sources) : sp.sources[i] = s
-----------------------------------------------------------------------------
(* Initial state: the process has just started, every informer has listed   *)
(* its objects, and the Add event of the Bundle, if it exists, is queued.   *)

ResetLocals ==
    /\ b' = NoBundle /\ idx' = 1 /\ res' = NoVersion /\ certs' = FALSE
    /\ want' = {} /\ desired' = {} /\ kind' = "ConfigMap" /\ old' = {}
    /\ cur' = {} /\ updated' = FALSE /\ patch' = NoStatus /\ failed' = FALSE

Init ==
    /\ bundle \in {NoBundle} \cup
         {[NoBundle EXCEPT !.exists = TRUE, !.uid = 1, !.gen = 1, !.spec = sp] :
            sp \in Specs}
    /\ ns \in [Namespaces -> {[phase |-> "active", labelled |-> l] :
                                 l \in BOOLEAN}]
    /\ src = [s \in Sources |-> [ver |-> 1, state |-> "ok"]]
    /\ tgt = [r \in Resources |-> NoTarget]
    /\ bundleC = bundle /\ nsC = ns /\ srcC = src /\ tgtC = tgt
    /\ tgtEvent = [r \in Resources |-> FALSE]
    /\ queued = bundle.exists
    /\ pc = "idle"
    /\ b = NoBundle /\ idx = 1 /\ res = NoVersion /\ certs = FALSE
    /\ want = {} /\ desired = {} /\ kind = "ConfigMap" /\ old = {}
    /\ cur = {} /\ updated = FALSE /\ patch = NoStatus /\ failed = FALSE
    /\ uncleaned = {}
    /\ user = MaxUser
    /\ faults = MaxFaults

-----------------------------------------------------------------------------
(* Informers *)

\* Watches(&Bundle{}, EnqueueRequestForObject).
SyncBundle ==
    /\ bundleC # bundle
    /\ bundleC' = bundle
    /\ queued' = TRUE
    /\ UNCHANGED <<api, nsC, srcC, tgtC, tgtEvent, pc, locals, uncleaned,
                   user, faults>>

\* Mutant: only the old labels of the namespace are matched.
NamespaceSelectsBundleOld(n) ==
    nsC[n].phase # "absent" /\ SelectorMatches(bundleC.spec, nsC[n])

\* A namespace event maps to the cached Bundle if its selector matches the old
\* or the new labels.
NamespaceSelectsBundle(n) ==
    \E o \in {nsC[n], ns[n]} :
        o.phase # "absent" /\ SelectorMatches(bundleC.spec, o)

SyncNamespace(n) ==
    /\ nsC[n] # ns[n]
    /\ nsC' = [nsC EXCEPT ![n] = ns[n]]
    /\ queued' = (queued \/ (bundleC.exists /\ NamespaceSelectsBundle(n)))
    /\ UNCHANGED <<api, bundleC, srcC, tgtC, tgtEvent, pc, locals, uncleaned,
                   user, faults>>

\* A source event maps to the cached Bundle if one of its sources selects the
\* object.  The default package is read at start only.
SyncSource(s) ==
    /\ s # DefaultCAs
    /\ srcC[s] # src[s]
    /\ srcC' = [srcC EXCEPT ![s] = src[s]]
    /\ queued' = (queued \/ (bundleC.exists /\ Reads(bundleC.spec, s)))
    /\ UNCHANGED <<api, bundleC, nsC, tgtC, tgtEvent, pc, locals, uncleaned,
                   user, faults>>

\* WatchesRawSource of the target cache; Secrets only if they are enabled.
SyncTarget(r) ==
    /\ tgtEvent[r] \/ tgtC[r] # CacheView(r, tgt[r])
    /\ tgtC' = [tgtC EXCEPT ![r] = CacheView(r, tgt[r])]
    /\ tgtEvent' = [tgtEvent EXCEPT ![r] = FALSE]
    /\ queued' = (queued \/ (/\ tgtEvent[r]
                             /\ KindOf(r) = "Secret" => SecretTargetsEnabled))
    /\ UNCHANGED <<api, bundleC, nsC, srcC, pc, locals, uncleaned, user, faults>>

-----------------------------------------------------------------------------
(* Target writes, through the API server *)

\* A write of target r; a write that changes nothing sends no event.
WriteTarget(r, t) ==
    /\ tgt' = [tgt EXCEPT ![r] = t]
    /\ tgtEvent' = [tgtEvent EXCEPT ![r] =
         @ \/ (t # tgt[r] /\ (MapsToBundle(r, tgt[r]) \/ MapsToBundle(r, t)))]

\* Server-side apply creates an object only in an active namespace, and refuses
\* a second controller reference.
Accepts(r) ==
    /\ tgt[r].exists \/ ns[NsOf(r)].phase = "active"
    /\ tgt[r].owner # Foreign

\* Mutant: the patch has no owner reference.
AppliedNoOwner(t, uid, keys, val) ==
    [t EXCEPT !.exists = TRUE, !.label = TRUE, !.hash = val, !.keys = keys,
              !.val = val, !.other = t.other \ keys]

\* Forced server-side apply by field manager trust-manager: what the patch names
\* is set, what trust-manager managed and the patch does not name is removed.
Applied(t, uid, keys, val) ==
    [t EXCEPT !.exists = TRUE, !.owner = uid, !.label = TRUE,
              !.hash = val, !.keys = keys, !.val = val,
              !.other = t.other \ keys]

\* A deleted object stays, marked, for as long as it has a finalizer.
Deleted(t) ==
    {NoTarget} \cup
    (IF Finalizers THEN {[t EXCEPT !.deleting = TRUE]} ELSE {})

\* A call of the controller that gets an error although nothing is wrong with
\* the request: timeout, connection loss, conflict, throttling.
Fault(site) ==
    /\ site \in FaultSites
    /\ faults > 0
    /\ faults' = faults - 1

-----------------------------------------------------------------------------
(* Reconcile *)

\* Mutant: the error is logged, not returned.
DoneNoRequeue(err) ==
    /\ pc' = "idle"
    /\ UNCHANGED queued
    /\ ResetLocals

\* Reconcile returns; an error puts the key back on the queue.
Done(err) ==
    /\ pc' = "idle"
    /\ queued' = (queued \/ err)
    /\ ResetLocals

\* Mutants: every condition gets the present time; a clock that only counts up.
NewCondNow(status, reason) ==
    [status |-> status, reason |-> reason, observed |-> b.gen,
     ltt |-> 1 - b.status.cond.ltt]
NewCondCounting(status, reason) ==
    [status |-> status, reason |-> reason, observed |-> b.gen,
     ltt |-> IF b.status.cond.status = status THEN b.status.cond.ltt
                                              ELSE b.status.cond.ltt + 1]

\* setBundleCondition: the transition time moves only with the status.
NewCond(status, reason) ==
    [status |-> status, reason |-> reason, observed |-> b.gen,
     ltt |-> IF b.status.cond.status = status THEN b.status.cond.ltt
                                              ELSE 1 - b.status.cond.ltt]

\* Leave reconcileBundle with a False condition in the status patch, keeping the
\* CA version the cached status has.
FailWith(reason, err) ==
    /\ pc' = "status"
    /\ patch' = [cond |-> NewCond("False", reason), ca |-> b.status.ca]
    /\ failed' = err

\* The worker takes the key and gets the Bundle from the cache.
GetBundle ==
    /\ pc = "idle"
    /\ queued
    /\ queued' = FALSE
    /\ uncleaned' = {}
    /\ \/ /\ ~bundleC.exists
          /\ UNCHANGED <<pc, b>>
       \/ /\ bundleC.exists
          /\ b' = bundleC
          /\ pc' = "build"
    /\ UNCHANGED <<api, caches, idx, res, certs, want, desired, kind, old, cur,
                   updated, patch, failed, user, faults>>

\* Mutants of AddToCertPool: a missing source is skipped; the live object is read
\* sometimes, the cached one at other times.
AddToCertPoolSkip ==
    /\ pc = "build"
    /\ idx <= Len(b.spec.sources)
    /\ LET s == b.spec.sources[idx] IN
         /\ idx' = idx + 1
         /\ certs' = (certs \/ srcC[s].state = "ok")
         /\ res' = [res EXCEPT ![s] = IF srcC[s].state = "missing" THEN 0
                                                          ELSE srcC[s].ver]
    /\ UNCHANGED <<api, caches, queued, pc, b, want, desired, kind, old, cur,
                   updated, patch, failed, uncleaned, user, faults>>
AddToCertPoolLive ==
    /\ pc = "build"
    /\ idx <= Len(b.spec.sources)
    /\ LET s == b.spec.sources[idx] IN \E o \in {src[s], srcC[s]} :
         /\ idx' = idx + 1
         /\ certs' = TRUE
         /\ res' = [res EXCEPT ![s] = o.ver]
    /\ UNCHANGED <<api, caches, queued, pc, b, want, desired, kind, old, cur,
                   updated, patch, failed, uncleaned, user, faults>>

\* BuildBundle, one entry of spec.sources: addToCertPool reads the cache.
AddToCertPool ==
    /\ pc = "build"
    /\ idx <= Len(b.spec.sources)
    /\ LET s == b.spec.sources[idx] IN
         \/ /\ srcC[s].state = "missing"
            /\ FailWith("SourceNotFound", FALSE)
            /\ UNCHANGED <<idx, res, certs>>
         \/ /\ srcC[s].state = "bad"
            /\ FailWith("SourceBuildError", TRUE)
            /\ UNCHANGED <<idx, res, certs>>
         \/ /\ srcC[s].state \in {"ok", "empty"}
            /\ idx' = idx + 1
            /\ res' = [res EXCEPT ![s] = srcC[s].ver]
            /\ certs' = (certs \/ srcC[s].state = "ok")
            /\ UNCHANGED <<pc, patch, failed>>
    /\ UNCHANGED <<api, caches, queued, b, want, desired, kind, old, cur,
                   updated, uncleaned, user, faults>>

\* Mutant: --target-namespaces is ignored.
TargetResourcesAnywhere ==
    {r \in Resources : /\ KindOf(r) \in b.spec.kinds
                       /\ nsC[NsOf(r)].phase = "active"
                       /\ SelectorMatches(b.spec, nsC[NsOf(r)])}

\* The targets the Bundle asks for: active, allowed, selected namespaces.
TargetResources ==
    {r \in Resources : /\ KindOf(r) \in b.spec.kinds
                       /\ NsOf(r) \in TargetNamespaces
                       /\ nsC[NsOf(r)].phase = "active"
                       /\ SelectorMatches(b.spec, nsC[NsOf(r)])}

\* The end of BuildBundle: an empty pool is an error.  Then the Secret check and
\* the list of the target namespaces.
ListNamespaces ==
    /\ pc = "build"
    /\ idx > Len(b.spec.sources)
    /\ \/ /\ ~certs
          /\ FailWith("SourceNotFound", FALSE)
          /\ UNCHANGED <<queued, b, idx, res, certs, want, desired, kind, old,
                         cur, updated>>
       \/ /\ certs
          /\ ~SecretTargetsEnabled /\ "Secret" \in b.spec.kinds
          /\ FailWith("SecretTargetsDisabled", FALSE)
          /\ UNCHANGED <<queued, b, idx, res, certs, want, desired, kind, old,
                         cur, updated>>
       \/ /\ certs
          /\ SecretTargetsEnabled \/ "Secret" \notin b.spec.kinds
          /\ b.spec.selector = "invalid"
          /\ Done(TRUE)
       \/ /\ certs
          /\ SecretTargetsEnabled \/ "Secret" \notin b.spec.kinds
          /\ b.spec.selector # "invalid"
          /\ desired' = TargetResources
          /\ want' = TargetResources
          /\ pc' = "list"
          /\ UNCHANGED <<queued, b, idx, res, certs, kind, old, cur, updated,
                         patch, failed>>
    /\ UNCHANGED <<api, caches, uncleaned, user, faults>>

\* List the targets of one kind in the target cache; keep the obsolete ones.
ListTargets ==
    /\ pc = "list"
    /\ old' = {r \in Resources \ desired :
                 /\ KindOf(r) = kind
                 /\ tgtC[r].exists
                 /\ ~tgtC[r].deleting
                 /\ tgtC[r].owner = b.uid}
    /\ pc' = "cleanup"
    /\ UNCHANGED <<api, caches, queued, b, idx, res, certs, want, desired, kind,
                   cur, updated, patch, failed, uncleaned, user, faults>>

\* Mutant: the emptied object is not deleted.
CleanupTargetKeep(r) ==
    /\ pc = "cleanup"
    /\ r \in old
    /\ old' = old \ {r}
    /\ Accepts(r)
    /\ WriteTarget(r, Applied(tgt[r], b.uid, {}, NoVersion))
    /\ UNCHANGED <<bundle, ns, src, bundleC, nsC, srcC, tgtC, queued, pc, b, idx,
                   res, certs, want, desired, kind, cur, updated, patch, failed,
                   uncleaned, user, faults>>

\* Mutant: the first cleanup that fails ends the cleanup.
CleanupTargetAborts(r) ==
    /\ pc = "cleanup"
    /\ r \in old
    /\ LET t == Applied(tgt[r], b.uid, {}, NoVersion) IN
         \/ /\ Accepts(r)
            /\ WriteTarget(r, t)
            /\ old' = old \ {r}
            /\ IF t.other = {} THEN pc' = "delete" /\ cur' = {r}
                               ELSE UNCHANGED <<pc, cur>>
            /\ UNCHANGED <<faults, uncleaned>>
         \/ /\ ~Accepts(r)
            /\ old' = old \ {r}
            /\ UNCHANGED <<tgt, tgtEvent, pc, cur, faults, uncleaned>>
         \/ /\ Fault("cleanup")
            /\ uncleaned' = uncleaned \cup {r}
            /\ old' = {}
            /\ pc' = "apply"
            /\ UNCHANGED <<tgt, tgtEvent, cur>>
    /\ UNCHANGED <<bundle, ns, src, bundleC, nsC, srcC, tgtC, queued, b, idx,
                   res, certs, want, desired, kind, updated, patch, failed, user>>

\* CleanupTarget, first call: apply an empty patch.  An error is only logged.
CleanupTarget(r) ==
    /\ pc = "cleanup"
    /\ r \in old
    /\ old' = old \ {r}
    /\ LET t == Applied(tgt[r], b.uid, {}, NoVersion) IN
         \/ /\ Accepts(r)
            /\ WriteTarget(r, t)
            /\ IF t.other = {} THEN pc' = "delete" /\ cur' = {r}
                               ELSE UNCHANGED <<pc, cur>>
            /\ UNCHANGED <<faults, uncleaned>>
         \/ /\ ~Accepts(r)
            /\ UNCHANGED <<tgt, tgtEvent, pc, cur, faults, uncleaned>>
         \/ /\ Fault("cleanup")
            /\ uncleaned' = uncleaned \cup {r}
            /\ \/ UNCHANGED <<tgt, tgtEvent>>
               \/ Accepts(r) /\ WriteTarget(r, t)   \* the answer is lost
            /\ UNCHANGED <<pc, cur>>
    /\ UNCHANGED <<bundle, ns, src, bundleC, nsC, srcC, tgtC, queued, b, idx,
                   res, certs, want, desired, kind, updated, patch, failed, user>>

\* CleanupTarget, second call: the patch returned an object without data, so
\* delete it, whatever it holds by now.
CleanupDelete(r) ==
    /\ pc = "delete"
    /\ r \in cur
    /\ pc' = "cleanup"
    /\ cur' = {}
    /\ \/ /\ tgt[r].exists
          /\ \E t \in Deleted(tgt[r]) : WriteTarget(r, t)
          /\ UNCHANGED <<faults, uncleaned>>
       \/ /\ ~tgt[r].exists
          /\ UNCHANGED <<tgt, tgtEvent, faults, uncleaned>>
       \/ /\ Fault("delete")
          /\ uncleaned' = uncleaned \cup {r}
          /\ UNCHANGED <<tgt, tgtEvent>>
    /\ UNCHANGED <<bundle, ns, src, bundleC, nsC, srcC, tgtC, queued, b, idx,
                   res, certs, want, desired, kind, old, updated, patch, failed,
                   user>>

\* The next kind, or on to the targets to apply.
NextKind ==
    /\ pc = "cleanup"
    /\ old = {}
    /\ \/ /\ kind = "ConfigMap" /\ SecretTargetsEnabled
          /\ kind' = "Secret"
          /\ pc' = "list"
       \/ /\ kind = "Secret" \/ ~SecretTargetsEnabled
          /\ pc' = "apply"
          /\ UNCHANGED kind
    /\ UNCHANGED <<api, caches, queued, b, idx, res, certs, want, desired, old,
                   cur, updated, patch, failed, uncleaned, user, faults>>

\* Mutants: one of the comparisons is missing.
NeedsUpdateNoHash(t)  == t.owner # b.uid \/ t.keys # b.spec.keys
NeedsUpdateNoKeys(t)  == t.owner # b.uid \/ t.hash # res

\* needsUpdate, on cached metadata (a cached object has the label).
NeedsUpdate(t) ==
    \/ t.owner # b.uid
    \/ t.hash # res
    \/ t.keys # b.spec.keys

\* ApplyTarget, up to the patch.  The targets come in no particular order.
ApplyTarget(r) ==
    /\ pc = "apply"
    /\ r \in want
    /\ want' = want \ {r}
    /\ IF tgtC[r].exists /\ ~NeedsUpdate(tgtC[r])
       THEN UNCHANGED <<pc, cur>>
       ELSE pc' = "patch" /\ cur' = {r}
    /\ UNCHANGED <<api, caches, queued, b, idx, res, certs, desired, kind, old,
                   updated, patch, failed, uncleaned, user, faults>>

\* ApplyTarget, the patch.  The first error ends the loop.
PatchTarget(r) ==
    /\ pc = "patch"
    /\ r \in cur
    /\ cur' = {}
    /\ LET t == Applied(tgt[r], b.uid, b.spec.keys, res) IN
         \/ /\ Accepts(r)
            /\ WriteTarget(r, t)
            /\ updated' = TRUE
            /\ pc' = "apply"
            /\ UNCHANGED <<faults, patch, failed>>
         \/ /\ ~Accepts(r)
            /\ FailWith("SyncTargetFailed", TRUE)
            /\ UNCHANGED <<tgt, tgtEvent, faults, updated>>
         \/ /\ Fault("patch")
            /\ FailWith("SyncTargetFailed", TRUE)
            /\ UNCHANGED <<tgt, tgtEvent, updated>>
         \/ /\ Fault("patch")           \* applied, but the answer is lost
            /\ Accepts(r)
            /\ WriteTarget(r, t)
            /\ FailWith("SyncTargetFailed", TRUE)
            /\ UNCHANGED updated
    /\ UNCHANGED <<bundle, ns, src, bundleC, nsC, srcC, tgtC, queued, b, idx,
                   res, certs, want, desired, kind, old, uncleaned, user>>

\* setBundleStatusDefaultCAVersion reports a change.
CAVersionChanged == b.status.ca # res[DefaultCAs]

\* bundleHasCondition, for the Synced condition of this generation.
HasSyncedCondition ==
    /\ b.status.cond.status = "True"
    /\ b.status.cond.reason = "Synced"
    /\ b.status.cond.observed = b.gen

\* The end of reconcileBundle: nothing to report, or a True condition.
FinishReconcile ==
    /\ pc = "apply"
    /\ want = {}
    /\ \/ /\ ~updated /\ ~CAVersionChanged /\ HasSyncedCondition
          /\ Done(FALSE)
       \/ /\ updated \/ CAVersionChanged \/ ~HasSyncedCondition
          /\ pc' = "status"
          /\ patch' = [cond |-> NewCond("True", "Synced"),
                       ca |-> res[DefaultCAs]]
          /\ failed' = FALSE
          /\ UNCHANGED <<queued, b, idx, res, certs, want, desired, kind, old,
                         cur, updated>>
    /\ UNCHANGED <<api, caches, uncleaned, user, faults>>

\* Reconcile: send the status patch.  It names the Bundle, not its UID.
PatchStatus ==
    /\ pc = "status"
    /\ \/ /\ bundle.exists
          /\ bundle' = [bundle EXCEPT !.status = patch]
          /\ Done(failed)
          /\ UNCHANGED faults
       \/ /\ ~bundle.exists
          /\ Done(TRUE)
          /\ UNCHANGED <<bundle, faults>>
       \/ /\ Fault("status")
          /\ Done(TRUE)
          /\ UNCHANGED bundle
       \/ /\ Fault("status")            \* applied, but the answer is lost
          /\ bundle.exists
          /\ bundle' = [bundle EXCEPT !.status = patch]
          /\ Done(TRUE)
    /\ UNCHANGED <<ns, src, tgt, caches, uncleaned, user>>

\* The process ends anywhere and is started again: caches are listed afresh and
\* the default package is loaded from disk.
Restart ==
    /\ faults > 0
    /\ faults' = faults - 1
    /\ bundleC' = bundle /\ nsC' = ns /\ srcC' = src
    /\ tgtC' = [r \in Resources |-> CacheView(r, tgt[r])]
    /\ tgtEvent' = [r \in Resources |-> FALSE]
    /\ queued' = bundle.exists
    /\ pc' = "idle"
    /\ ResetLocals
    /\ UNCHANGED <<api, uncleaned, user>>

Reconcile ==
    \/ GetBundle
    \/ AddToCertPool
    \/ ListNamespaces
    \/ ListTargets
    \/ \E r \in Resources : CleanupTarget(r) \/ CleanupDelete(r)
    \/ NextKind
    \/ \E r \in Resources : ApplyTarget(r) \/ PatchTarget(r)
    \/ FinishReconcile
    \/ PatchStatus

Informers ==
    \/ SyncBundle
    \/ \E n \in Namespaces : SyncNamespace(n)
    \/ \E s \in Sources : SyncSource(s)
    \/ \E r \in Resources : SyncTarget(r)

-----------------------------------------------------------------------------
(* Users, third parties and Kubernetes *)

worker == <<queued, pc, locals, uncleaned>>

UserStep(op) ==
    /\ op \in UserOps
    /\ user > 0
    /\ user' = user - 1
    /\ UNCHANGED <<bundleC, nsC, srcC, tgtC, worker, faults>>

EditSpec ==
    /\ UserStep("spec")
    /\ bundle.exists
    /\ \E sp \in Specs \ {bundle.spec} :
         bundle' = [bundle EXCEPT !.spec = sp, !.gen = @ + 1]
    /\ UNCHANGED <<ns, src, tgt, tgtEvent>>

DeleteBundle ==
    /\ UserStep("bundle")
    /\ bundle.exists
    /\ bundle' = [NoBundle EXCEPT !.uid = bundle.uid]
    /\ UNCHANGED <<ns, src, tgt, tgtEvent>>

CreateBundle ==
    /\ UserStep("bundle")
    /\ ~bundle.exists
    /\ \E sp \in Specs :
         bundle' = [NoBundle EXCEPT !.exists = TRUE, !.uid = bundle.uid + 1,
                                    !.gen = 1, !.spec = sp]
    /\ UNCHANGED <<ns, src, tgt, tgtEvent>>

\* A default package that cannot be parsed does not get past the start.
EditSource(s) ==
    /\ UserStep("source")
    /\ \E st \in IF s = DefaultCAs THEN {"ok", "empty", "missing"}
                                   ELSE {"ok", "empty", "missing", "bad"} :
         src' = [src EXCEPT ![s] = [ver |-> src[s].ver + 1, state |-> st]]
    /\ UNCHANGED <<bundle, ns, tgt, tgtEvent>>

LabelNamespace(n) ==
    /\ UserStep("namespace")
    /\ ns[n].phase # "absent"
    /\ ns' = [ns EXCEPT ![n].labelled = ~ns[n].labelled]
    /\ UNCHANGED <<bundle, src, tgt, tgtEvent>>

DeleteNamespace(n) ==
    /\ UserStep("namespace")
    /\ ns[n].phase = "active"
    /\ ns' = [ns EXCEPT ![n].phase = "terminating"]
    /\ UNCHANGED <<bundle, src, tgt, tgtEvent>>

CreateNamespace(n) ==
    /\ UserStep("namespace")
    /\ ns[n].phase = "absent"
    /\ \E l \in BOOLEAN :
         ns' = [ns EXCEPT ![n] = [phase |-> "active", labelled |-> l]]
    /\ UNCHANGED <<bundle, src, tgt, tgtEvent>>

\* What other clients may make of a target: take over the managed keys, add a
\* key of their own or remove their keys, strip the label, drop the owner or set
\* another one, change the hash annotation.
ThirdPartyEdits(t) ==
    {[t EXCEPT !.keys = {}, !.val = NoVersion, !.other = t.other \cup t.keys],
     [t EXCEPT !.other = {}],
     [t EXCEPT !.label = FALSE],
     [t EXCEPT !.owner = 0],
     [t EXCEPT !.owner = Foreign],
     [t EXCEPT !.hash = NoVersion]}
    \cup {[t EXCEPT !.other = t.other \cup {k}] : k \in Keys \ t.keys}

EditTarget(r) ==
    /\ UserStep("target")
    /\ tgt[r].exists
    /\ \E t \in ThirdPartyEdits(tgt[r]) \ {tgt[r]} : WriteTarget(r, t)
    /\ UNCHANGED <<bundle, ns, src>>

\* Someone else creates an object with the name of a target.
CreateTarget(r) ==
    /\ UserStep("target")
    /\ ~tgt[r].exists
    /\ ns[NsOf(r)].phase = "active"
    /\ \E k \in Keys, o \in {0, Foreign} :
         WriteTarget(r, [NoTarget EXCEPT !.exists = TRUE, !.other = {k},
                                         !.owner = o])
    /\ UNCHANGED <<bundle, ns, src>>

DeleteTarget(r) ==
    /\ UserStep("target")
    /\ tgt[r].exists
    /\ ~tgt[r].deleting
    /\ \E t \in Deleted(tgt[r]) : WriteTarget(r, t)
    /\ UNCHANGED <<bundle, ns, src>>

\* Kubernetes: the last finalizer is removed; the owner is gone; the namespace
\* is being emptied.
RemoveTarget(r) ==
    /\ tgt[r].exists
    /\ \/ tgt[r].deleting
       \/ tgt[r].owner \notin {0, Foreign}
            /\ ~(bundle.exists /\ bundle.uid = tgt[r].owner)
       \/ ns[NsOf(r)].phase = "terminating"
    /\ WriteTarget(r, NoTarget)
    /\ UNCHANGED <<bundle, ns, src, bundleC, nsC, srcC, tgtC, worker, user,
                   faults>>

\* Kubernetes: a terminating namespace goes once it is empty.
RemoveNamespace(n) ==
    /\ ns[n].phase = "terminating"
    /\ \A r \in Resources : NsOf(r) = n => ~tgt[r].exists
    /\ ns' = [ns EXCEPT ![n].phase = "absent"]
    /\ UNCHANGED <<bundle, src, tgt, caches, worker, user, faults>>

Kubernetes ==
    \/ \E r \in Resources : RemoveTarget(r)
    \/ \E n \in Namespaces : RemoveNamespace(n)

Users ==
    \/ EditSpec
    \/ DeleteBundle
    \/ CreateBundle
    \/ \E s \in Sources : EditSource(s)
    \/ \E n \in Namespaces :
         LabelNamespace(n) \/ DeleteNamespace(n) \/ CreateNamespace(n)
    \/ \E r \in Resources :
         EditTarget(r) \/ CreateTarget(r) \/ DeleteTarget(r)

Next == Reconcile \/ Informers \/ Kubernetes \/ Users \/ Restart

Spec == Init /\ [][Next]_vars

(***************************************************************************)
(* Fairness: the worker keeps running (an error is retried with a back-off *)
(* that is bounded), informers deliver, Kubernetes collects.  Users,       *)
(* faults and restarts are not fair.  Two races are decided by chance in   *)
(* every round, so that with probability one neither side loses for ever,  *)
(* which is strong fairness:                                               *)
(*   - Go starts the iteration over the map of targets at a random place;  *)
(*   - the Bundle informer may deliver a status write before or after the  *)
(*     worker starts on the event of the write before it.  If the worker   *)
(*     were always first, two LastTransitionTimes could chase each other   *)
(*     through API server and cache for ever.                              *)
(***************************************************************************)
Fairness ==
    /\ WF_vars(Reconcile)
    /\ WF_vars(SyncBundle)
    /\ WF_vars(\E n \in Namespaces : SyncNamespace(n))
    /\ WF_vars(\E s \in Sources : SyncSource(s))
    /\ WF_vars(\E r \in Resources : SyncTarget(r))
    /\ WF_vars(Kubernetes)

TargetFairness == \A r \in Resources : SF_vars(ApplyTarget(r))
CacheFairness == SF_vars(pc = "idle" /\ SyncBundle)

FairSpec == Spec /\ Fairness /\ TargetFairness /\ CacheFairness

-----------------------------------------------------------------------------
(* Properties *)

\* The values the state may take.
TypeOK ==
    /\ bundle \in BundleType /\ bundleC \in BundleType /\ b \in BundleType
    /\ ns \in [Namespaces -> NsType] /\ nsC \in [Namespaces -> NsType]
    /\ src \in [Sources -> SourceType] /\ srcC \in [Sources -> SourceType]
    /\ tgt \in [Resources -> TargetType] /\ tgtC \in [Resources -> TargetType]
    /\ tgtEvent \in [Resources -> BOOLEAN]
    /\ queued \in BOOLEAN
    /\ pc \in {"idle", "build", "list", "cleanup", "delete", "apply", "patch",
               "status"}
    /\ idx \in Nat \ {0}
    /\ res \in Versions
    /\ certs \in BOOLEAN
    /\ want \in SUBSET Resources /\ desired \in SUBSET Resources
    /\ kind \in {"ConfigMap", "Secret"}
    /\ old \in SUBSET Resources /\ cur \in SUBSET Resources
    /\ updated \in BOOLEAN
    /\ patch \in StatusType
    /\ failed \in BOOLEAN
    /\ uncleaned \in SUBSET Resources
    /\ user \in Nat
    /\ faults \in Nat

\* What the API objects ask for, by the definition of the Bundle API and without
\* the steps of Reconcile.
SourceNow(s) == IF s = DefaultCAs THEN srcC[s] ELSE src[s]
StatesNow == {SourceNow(bundle.spec.sources[i]).state :
                i \in 1..Len(bundle.spec.sources)}
Resolvable == "ok" \in StatesNow /\ StatesNow \subseteq {"ok", "empty"}
VersionsNow == [s \in Sources |-> IF Reads(bundle.spec, s)
                                  THEN SourceNow(s).ver ELSE 0]
SecretsRefused == "Secret" \in bundle.spec.kinds /\ ~SecretTargetsEnabled
Selected(r) ==
    /\ KindOf(r) \in bundle.spec.kinds
    /\ NsOf(r) \in TargetNamespaces
    /\ ns[NsOf(r)].phase = "active"
    /\ SelectorMatches(bundle.spec, ns[NsOf(r)])
InSync(r) ==
    /\ tgt[r].exists
    /\ tgt[r].label
    /\ tgt[r].owner = bundle.uid
    /\ tgt[r].keys = bundle.spec.keys
    /\ tgt[r].val = VersionsNow
CleanedUp(r) ==
    \/ tgt[r].owner # bundle.uid
    \/ ~tgt[r].label
    \/ tgt[r].deleting
    \/ tgt[r].keys = {} /\ (tgt[r].other = {} => ~tgt[r].exists)
Observed(status, reason) ==
    LET c == bundle.status.cond IN
        c.status = status /\ c.reason = reason /\ c.observed = bundle.gen

\* Every event has been delivered and nothing is queued or running: the
\* controller does nothing more until something changes.
Quiescent ==
    /\ pc = "idle" /\ ~queued
    /\ bundleC = bundle /\ nsC = ns
    /\ \A s \in Sources \ {DefaultCAs} : srcC[s] = src[s]
    /\ \A r \in Resources : ~tgtEvent[r] /\ tgtC[r] = CacheView(r, tgt[r])

Synced ==
    /\ \A r \in Resources : Selected(r) => InSync(r)
    /\ Observed("True", "Synced")
    /\ bundle.status.ca = VersionsNow[DefaultCAs]

\* No lost wake-up: whatever was changed while the worker ran and the caches
\* lagged, a controller at rest has brought every selected target to the present
\* sources and spec, and reports so for the present generation; or it reports
\* why it could not.
RestIsSynced ==
    Quiescent /\ bundle.exists =>
        IF Resolvable
        THEN IF SecretsRefused THEN Observed("False", "SecretTargetsDisabled")
                               ELSE Synced
        ELSE Observed("False", "SourceNotFound")

\* A controller at rest has left none of its data in targets that are not
\* selected any more, but for those whose own cleanup failed in its last reconcile:
\* such an error is logged and the key is not put back, but it does not keep other
\* targets from being cleaned up, and the next reconcile makes up for it.
RestIsClean ==
    Quiescent /\ bundle.exists /\ Resolvable /\ ~SecretsRefused =>
        \A r \in Resources \ uncleaned :
            /\ NsOf(r) \in TargetNamespaces
            /\ KindOf(r) = "Secret" => SecretTargetsEnabled
            /\ ~Selected(r)
            => CleanedUp(r)

\* Content of a target never goes back to an older version of a source.
NoRollback ==
    [][\A r \in Resources, s \in Sources :
         tgt[r].val[s] > 0 /\ tgt'[r].val[s] > 0
           => tgt'[r].val[s] >= tgt[r].val[s]]_vars

\* Targets are all or nothing: what the controller has put into a target comes
\* from every source of one spec, never from those alone that could be read.
WholeBundles ==
    \A r \in Resources :
        tgt[r].keys # {} =>
            \E sp \in Specs : \A s \in Sources :
                tgt[r].val[s] > 0 <=> Reads(sp, s)

\* CleanupTarget deletes a target object only if it holds no data once the
\* Bundle's data is removed.
DeletesOnlyEmpty ==
    [][\A r \in Resources :
         CleanupDelete(r) /\ tgt'[r] # tgt[r] => tgt[r].other = {}]_vars

\* The controller writes only to the namespaces it is allowed to write to.
StaysInTargetNamespaces ==
    \A r \in Resources : NsOf(r) \notin TargetNamespaces =>
        ~tgt[r].label /\ tgt[r].owner \in {0, Foreign}

\* What cannot succeed as long as nobody else acts: a target that another
\* controller owns, a source that cannot be parsed, an invalid selector.
Blocked(r) == Selected(r) /\ tgt[r].owner = Foreign
Erring == \/ "bad" \in StatesNow
          \/ bundle.spec.selector = "invalid"
          \/ \E r \in Resources : Blocked(r)

\* Once users and faults stop, the controller comes to rest, unless it has an
\* error to retry: its own writes of targets and status, whose events come back
\* to it, do not keep it running for ever.
ComesToRest == <>[](~(bundle.exists /\ Erring) => Quiescent)

\* Once users and faults stop, every selected target that no other controller
\* owns is brought up to date for good, also if another target fails every time.
TargetsServed ==
    <>[](bundle.exists /\ Resolvable /\ ~SecretsRefused =>
           \A r \in Resources : Selected(r) /\ ~Blocked(r) => InSync(r))

\* Once a Bundle is deleted for good, none of its data stays behind, also if a
\* reconcile that still holds the old Bundle writes a target afterwards.
DeletedLeavesNothing ==
    <>[](~bundle.exists => \A r \in Resources : tgt[r].keys = {})

-----------------------------------------------------------------------------
(* Refinement *)

\* The targets and the sources, seen as the store that TargetStore specifies.
Store == INSTANCE TargetStore WITH
    Footprints <- {{s \in Sources : Reads(sp, s)} : sp \in Specs},
    current <- [s \in Sources |-> src[s].ver],
    held <- [r \in Resources |-> tgt[r].val]

\* The controller implements the store: whatever the interleaving of reads and
\* writes, each step changes at most one target, to a whole bundle of versions
\* that the sources have had, none older than what any other target holds.
ImplementsStore == Store!Spec
=============================================================================
