------------------------------ MODULE RestProofs ------------------------------
(***************************************************************************)
(* Proofs that a BundleController at rest has done its work.               *)
(*                                                                         *)
(* RestIsSynced and RestIsClean are about states at rest; the invariant    *)
(* follows what leads there.  Its parts have one form: unless the Bundle's *)
(* key is queued, what the worker has found out or done up to where it is  *)
(* agrees with the caches as they are now, and so does what it will report.*)
(* Of a target, whose cache the worker does not wait for, they say: it is  *)
(* as the worker has left it, or an event is on its way that will queue    *)
(* the key again.                                                          *)
(***************************************************************************)
EXTENDS BundleControllerProofs

\* What the caches say of a Bundle with spec sp.
CanResolve(sp) ==
    /\ \A i \in 1..Len(sp.sources) : srcC[sp.sources[i]].state \in {"ok", "empty"}
    /\ \E i \in 1..Len(sp.sources) : srcC[sp.sources[i]].state = "ok"

VersionsOf(sp) == [s \in Sources |-> IF Reads(sp, s) THEN srcC[s].ver ELSE 0]

Refuses(sp) == "Secret" \in sp.kinds /\ ~SecretTargetsEnabled

Chosen(sp, r) ==
    /\ KindOf(r) \in sp.kinds
    /\ NsOf(r) \in TargetNamespaces
    /\ nsC[NsOf(r)].phase = "active"
    /\ SelectorMatches(sp, nsC[NsOf(r)])

\* The targets that the controller looks after at all.
Tended(r) ==
    /\ NsOf(r) \in TargetNamespaces
    /\ KindOf(r) = "Secret" => SecretTargetsEnabled

\* Target object t is up to date for Bundle x, or holds nothing of x any more.
Holds(x, t) ==
    /\ t.exists /\ t.label
    /\ t.owner = x.uid
    /\ t.keys = x.spec.keys
    /\ t.val = VersionsOf(x.spec)

Empty(x, t) ==
    \/ t.owner # x.uid
    \/ ~t.label
    \/ t.deleting
    \/ t.keys = {} /\ (t.other = {} => ~t.exists)

Served(x, r) == tgtEvent[r] \/ Holds(x, tgt[r])
Cleaned(x, r) == r \in uncleaned \/ tgtEvent[r] \/ Empty(x, tgt[r])

Serves(x) ==
    CanResolve(x.spec) /\ ~Refuses(x.spec) =>
        \A r \in Resources :
            /\ Chosen(x.spec, r) => Served(x, r)
            /\ Tended(r) /\ ~Chosen(x.spec, r) => Cleaned(x, r)

\* Status st says of Bundle x what the caches say.
Says(x, st, status, reason) ==
    /\ st.cond.status = status
    /\ st.cond.reason = reason
    /\ st.cond.observed = x.gen

TellsTruth(x, st) ==
    IF CanResolve(x.spec)
    THEN IF Refuses(x.spec)
         THEN Says(x, st, "False", "SecretTargetsDisabled")
         ELSE /\ Says(x, st, "True", "Synced")
              /\ st.ca = VersionsOf(x.spec)[DefaultCAs]
    ELSE Says(x, st, "False", "SourceNotFound")

-----------------------------------------------------------------------------
(* The invariant *)

\* A Bundle in the cache is one that was; generations and UIDs only grow.
CacheIsBehind ==
    /\ bundleC.uid <= bundle.uid
    /\ bundleC.uid = bundle.uid /\ bundle.exists => bundleC.gen <= bundle.gen

HaveUIDs ==
    /\ bundle.exists => bundle.uid >= 1
    /\ bundleC.exists => bundleC.uid >= 1
    /\ pc # "idle" => b.exists /\ b.uid >= 1

\* What is marked as the controller's data is the data that the hash annotation
\* names, unless someone else has changed the annotation.
HashesTell ==
    \A r \in Resources :
        /\ tgt[r].keys # {} => tgt[r].hash \in {tgt[r].val, NoVersion}
        /\ ~tgt[r].exists => tgt[r] = NoTarget

\* A cached target is the present one, unless an event is on its way or neither
\* of the two is the Bundle's.
IsOurs(t) == t.exists /\ t.owner \notin {0, Foreign}
TargetsSeen ==
    \A r \in Resources :
        \/ tgtEvent[r]
        \/ tgtC[r] = CacheView(r, tgt[r])
        \/ ~IsOurs(tgtC[r]) /\ ~MapsToBundle(r, tgt[r])

\* The order of Reconcile.
InOrder ==
    /\ pc = "idle" => ~certs
    /\ pc \in {"idle", "build"} => kind = "ConfigMap"
    /\ pc \in {"list", "cleanup", "delete"} => want = desired
    /\ pc \in {"apply", "patch"} =>
         old = {} /\ (kind = "Secret" \/ ~SecretTargetsEnabled)
    /\ pc \notin {"delete", "patch"} => cur = {}
    /\ \A q, r \in cur : q = r

Background == CacheIsBehind /\ HaveUIDs /\ HashesTell /\ TargetsSeen /\ InOrder

ReadsBundle == pc # "idle" => b = bundleC

ReadsSources ==
    pc = "build" =>
        /\ \A i \in 1..Len(b.spec.sources) :
             i < idx => srcC[b.spec.sources[i]].state \in {"ok", "empty"}
        /\ certs <=> \E i \in 1..Len(b.spec.sources) :
                       i < idx /\ srcC[b.spec.sources[i]].state = "ok"
        /\ \A s \in Sources :
             res[s] = IF \E i \in 1..Len(b.spec.sources) :
                           i < idx /\ b.spec.sources[i] = s
                      THEN srcC[s].ver ELSE 0

HasResolved ==
    pc \in PastBuild =>
        /\ CanResolve(b.spec)
        /\ res = VersionsOf(b.spec)
        /\ ~Refuses(b.spec)
        /\ desired = {r \in Resources : Chosen(b.spec, r)}

\* The cleanup is past r.
CleanedUpTo(r) ==
    \/ KindOf(r) = "ConfigMap" /\ kind = "Secret"
    \/ /\ KindOf(r) = kind
       /\ pc # "list"
       /\ r \notin old
       /\ pc = "delete" => r \notin cur

HasCleaned ==
    pc \in PastBuild =>
        \A r \in Resources \ desired :
            Tended(r) /\ CleanedUpTo(r) => Cleaned(b, r)

HasApplied ==
    pc \in {"apply", "patch"} =>
        \A r \in desired \ (want \cup cur) : Served(b, r)

WillReport == pc = "status" /\ ~failed => Serves(b) /\ TellsTruth(b, patch)

HasReported ==
    pc = "idle" /\ bundleC.exists =>
        /\ Serves(bundleC)
        /\ bundle = bundleC => TellsTruth(bundle, bundle.status)

UpToDate == /\ ReadsBundle /\ ReadsSources /\ HasResolved /\ HasCleaned
            /\ HasApplied /\ WillReport /\ HasReported

Resting == Background /\ (~queued => UpToDate)

-----------------------------------------------------------------------------
(* What steps leave as it is *)

\* A step after which the caches say the same of Bundles with spec sp.
SameView(sp) ==
    /\ \A s \in Sources : Reads(sp, s) => srcC'[s] = srcC[s]
    /\ \A r \in Resources : Chosen(sp, r)' <=> Chosen(sp, r)

\* A step after which nothing the controller has done to a target is undone
\* without an event.
KeepsTargets ==
    \A r \in Resources : Tended(r) =>
        \/ tgtEvent'[r]
        \/ tgt'[r] = tgt[r] /\ tgtEvent'[r] = tgtEvent[r]
        \/ /\ ~MapsToBundle(r, tgt[r]) /\ ~MapsToBundle(r, tgt'[r])
           /\ tgtEvent'[r] = tgtEvent[r]

LEMMA ViewOfSources ==
    ASSUME NEW x \in BundleType,
           \A s \in Sources : Reads(x.spec, s) => srcC'[s] = srcC[s]
    PROVE  /\ CanResolve(x.spec)' <=> CanResolve(x.spec)
           /\ VersionsOf(x.spec)' = VersionsOf(x.spec)
           /\ \A i \in 1..Len(x.spec.sources) :
                srcC'[x.spec.sources[i]] = srcC[x.spec.sources[i]]
<1>1. \A i \in 1..Len(x.spec.sources) :
          /\ x.spec.sources[i] \in Sources
          /\ srcC'[x.spec.sources[i]] = srcC[x.spec.sources[i]]
  BY SpecParts DEF Reads
<1> QED BY <1>1 DEF CanResolve, VersionsOf, Reads

\* What was done for Bundle x is still done, or an event is on its way.
LEMMA TargetsKept ==
    ASSUME NEW x \in BundleType, x.uid >= 1, SameView(x.spec), KeepsTargets,
           uncleaned \subseteq uncleaned', HashesTell'
    PROVE  \A r \in Resources : Tended(r) =>
               /\ Served(x, r) => Served(x, r)'
               /\ Cleaned(x, r) => Cleaned(x, r)'
<1> SUFFICES ASSUME NEW r \in Resources, Tended(r)
             PROVE  /\ Served(x, r) => Served(x, r)'
                    /\ Cleaned(x, r) => Cleaned(x, r)'
  OBVIOUS
<1>1. VersionsOf(x.spec)' = VersionsOf(x.spec)
  BY ViewOfSources DEF SameView
<1>2. CASE tgtEvent'[r]
  BY <1>2 DEF Served, Cleaned
<1>3. CASE tgt'[r] = tgt[r] /\ tgtEvent'[r] = tgtEvent[r]
  BY <1>1, <1>3 DEF Served, Cleaned, Holds, Empty
<1>4. CASE /\ ~MapsToBundle(r, tgt[r]) /\ ~MapsToBundle(r, tgt'[r])
           /\ tgtEvent'[r] = tgtEvent[r]
  <2>1. x.uid \in Nat /\ x.uid \notin {0, Foreign}
    BY SpecParts DEF Foreign
  <2>2. ~Holds(x, tgt[r])
    BY <1>4, <2>1 DEF Holds, MapsToBundle, CacheView, Tended
  <2>3. Empty(x, tgt'[r])
    BY <1>4, <2>1 DEF Empty, MapsToBundle, CacheView, Tended, HashesTell, NoTarget
  <2>4. Empty(x, tgt[r])'
    BY <2>3 DEF Empty
  <2> QED BY <1>4, <2>2, <2>4 DEF Served, Cleaned
<1> QED BY <1>2, <1>3, <1>4 DEF KeepsTargets

LEMMA ServesKept ==
    ASSUME NEW x \in BundleType, x.uid >= 1, SameView(x.spec), KeepsTargets,
           uncleaned \subseteq uncleaned', HashesTell', Serves(x)
    PROVE  Serves(x)'
<1>1. CanResolve(x.spec)' <=> CanResolve(x.spec)
  BY ViewOfSources DEF SameView
<1>2. \A r \in Resources : Tended(r) =>
               /\ Served(x, r) => Served(x, r)'
               /\ Cleaned(x, r) => Cleaned(x, r)'
  BY TargetsKept
<1>3. \A r \in Resources : Chosen(x.spec, r)' <=> Chosen(x.spec, r)
  BY DEF SameView
<1>4. \A r : ~Refuses(x.spec) /\ Chosen(x.spec, r) => Tended(r)
  BY DEF Refuses, Chosen, Tended
<1>5. Refuses(x.spec)' <=> Refuses(x.spec)
  BY DEF Refuses
<1>6. \A r : Tended(r)' <=> Tended(r)
  BY DEF Tended
<1> QED BY <1>1, <1>2, <1>3, <1>4, <1>5, <1>6 DEF Serves

LEMMA TruthKept ==
    ASSUME NEW x \in BundleType, NEW st, SameView(x.spec)
    PROVE  TellsTruth(x, st)' <=> TellsTruth(x, st)
<1>1. /\ CanResolve(x.spec)' <=> CanResolve(x.spec)
      /\ VersionsOf(x.spec)' = VersionsOf(x.spec)
  BY ViewOfSources DEF SameView
<1> QED BY <1>1 DEF TellsTruth, Says, Refuses

\* A step of informers, users or Kubernetes that the worker need not notice, or
\* that queues the key.
LEMMA UnnoticedStep ==
    ASSUME TypeOK, TypeOK', Resting, Background',
           UNCHANGED <<bundleC, pc, locals, uncleaned>>,
           queued => queued',
           ~queued' /\ bundleC.exists => SameView(bundleC.spec) /\ KeepsTargets,
           bundleC.exists => bundle' = bundle \/ bundle' # bundleC
    PROVE  Resting'
<1> USE DEF locals
<1> SUFFICES ASSUME ~queued' PROVE UpToDate'
  BY DEF Resting
<1>a. UpToDate /\ Background
  BY DEF Resting
<1>b. CASE ~bundleC.exists
  <2>1. pc = "idle" /\ ~bundleC'.exists
    BY <1>a, <1>b DEF UpToDate, ReadsBundle, Background, HaveUIDs
  <2> QED BY <2>1 DEF UpToDate, ReadsBundle, ReadsSources, HasResolved, HasCleaned,
                      HasApplied, WillReport, HasReported, PastBuild
<1> SUFFICES ASSUME bundleC.exists PROVE UpToDate'
  BY <1>b
<1>1. UpToDate /\ Background /\ SameView(bundleC.spec) /\ KeepsTargets
  BY <1>a
<1>2. PICK x : x = bundleC
  OBVIOUS
<1>3. x \in BundleType /\ SameView(x.spec) /\ bundleC' = x
  BY <1>1, <1>2 DEF TypeOK
<1>4. /\ CanResolve(x.spec)' <=> CanResolve(x.spec)
      /\ VersionsOf(x.spec)' = VersionsOf(x.spec)
      /\ \A i \in 1..Len(x.spec.sources) :
           srcC'[x.spec.sources[i]] = srcC[x.spec.sources[i]]
      /\ \A s \in Sources : Reads(x.spec, s) => srcC'[s] = srcC[s]
      /\ \A r \in Resources : Chosen(x.spec, r)' <=> Chosen(x.spec, r)
  BY <1>3, ViewOfSources DEF SameView
<1>5. HashesTell'
  BY DEF Background
<1>6. ReadsBundle'
  BY <1>1 DEF UpToDate, ReadsBundle
<1>7. ReadsSources' /\ HasResolved'
  <2> SUFFICES ASSUME pc \in {"build"} \cup PastBuild
               PROVE  ReadsSources' /\ HasResolved'
    BY DEF ReadsSources, HasResolved
  <2>1. b = x /\ b' = x
    BY <1>1, <1>2 DEF UpToDate, ReadsBundle, PastBuild
  <2>2. ReadsSources'
    BY <1>1, <1>4, <2>1 DEF UpToDate, ReadsSources, Reads
  <2>3. {r \in Resources : Chosen(x.spec, r)}' = {r \in Resources : Chosen(x.spec, r)}
    BY <1>4
  <2>4. Refuses(x.spec)' <=> Refuses(x.spec)
    BY DEF Refuses
  <2>5. HasResolved'
    BY <1>1, <1>4, <2>1, <2>3, <2>4 DEF UpToDate, HasResolved
  <2> QED BY <2>2, <2>5
<1>8. HasCleaned' /\ HasApplied'
  <2> SUFFICES ASSUME pc \in PastBuild
               PROVE  HasCleaned' /\ HasApplied'
    BY DEF HasCleaned, HasApplied, PastBuild
  <2>1. b = x /\ b' = x
    BY <1>1, <1>2 DEF UpToDate, ReadsBundle, PastBuild
  <2>2. x.uid >= 1
    BY <1>1, <2>1 DEF Background, HaveUIDs, PastBuild
  <2>3. \A r \in Resources : Tended(r) =>
               /\ Served(x, r) => Served(x, r)'
               /\ Cleaned(x, r) => Cleaned(x, r)'
    BY <1>1, <1>3, <1>5, <2>2, TargetsKept
  <2>4. \A r \in desired : r \in Resources /\ Tended(r)
    BY <1>1 DEF UpToDate, HasResolved, Refuses, Chosen, Tended
  <2>5. HasApplied'
    BY <1>1, <2>1, <2>3, <2>4 DEF UpToDate, HasApplied
  <2>6. HasCleaned'
    BY <1>1, <2>1, <2>3 DEF UpToDate, HasCleaned, CleanedUpTo, Tended
  <2> QED BY <2>5, <2>6
<1>9. WillReport'
  <2> SUFFICES ASSUME pc = "status", ~failed
               PROVE  WillReport'
    BY DEF WillReport
  <2>1. b = x /\ b' = x /\ x.uid >= 1
    BY <1>1, <1>2 DEF UpToDate, ReadsBundle, Background, HaveUIDs
  <2>2. PICK st : st = patch
    OBVIOUS
  <2>3. Serves(x) /\ TellsTruth(x, st)
    BY <1>1, <2>1, <2>2 DEF UpToDate, WillReport
  <2>4. Serves(x)' /\ TellsTruth(x, st)'
    BY <1>1, <1>3, <1>5, <2>1, <2>3, ServesKept, TruthKept
  <2>5. patch' = st
    BY <2>2
  <2> QED BY <2>1, <2>4, <2>5 DEF WillReport
<1>10. HasReported'
  <2> SUFFICES ASSUME pc = "idle", bundleC.exists
               PROVE  HasReported'
    BY DEF HasReported
  <2>1. x.uid >= 1 /\ Serves(x)
    BY <1>1, <1>2 DEF UpToDate, HasReported, Background, HaveUIDs
  <2>2. Serves(x)'
    BY <1>1, <1>3, <1>5, <2>1, ServesKept
  <2>3. CASE bundle' = x
    <3>1. bundle = x
      BY <1>2, <2>3
    <3>2. PICK st : st = bundle.status
      OBVIOUS
    <3>3. TellsTruth(x, st)
      BY <1>1, <1>2, <3>1, <3>2 DEF UpToDate, HasReported
    <3>4. TellsTruth(x, st)'
      BY <1>3, <3>3, TruthKept
    <3>5. bundle'.status = st
      BY <2>3, <3>1, <3>2
    <3> QED BY <1>3, <2>2, <2>3, <3>4, <3>5 DEF HasReported
  <2>4. CASE bundle' # x
    BY <1>3, <2>2, <2>4 DEF HasReported
  <2> QED BY <2>3, <2>4
<1> QED BY <1>6, <1>7, <1>8, <1>9, <1>10 DEF UpToDate

-----------------------------------------------------------------------------
(* Initial states, and steps of informers, users and Kubernetes *)

LEMMA RestInit == Init => Resting
<1> SUFFICES ASSUME Init PROVE Resting
  OBVIOUS
<1>1. /\ pc = "idle" /\ ~certs /\ kind = "ConfigMap" /\ cur = {}
      /\ bundleC = bundle /\ queued = bundle.exists
  BY DEF Init
<1>2. bundle.uid \in Nat /\ bundle.gen \in Nat /\ (bundle.exists => bundle.uid = 1)
  <2>1. bundle \in BundleType
    BY TypeInit DEF TypeOK
  <2>2. NoBundle.exists = FALSE
    BY DEF NoBundle
  <2>3. ASSUME NEW sp \in Specs,
               bundle = [NoBundle EXCEPT !.exists = TRUE, !.uid = 1, !.gen = 1,
                                         !.spec = sp]
        PROVE  bundle.uid = 1
    BY <2>3, Absences DEF BundleType
  <2>4. bundle = NoBundle \/ \E sp \in Specs :
             bundle = [NoBundle EXCEPT !.exists = TRUE, !.uid = 1, !.gen = 1,
                                       !.spec = sp]
    BY DEF Init
  <2> QED BY <2>1, <2>2, <2>3, <2>4, SpecParts
<1>3. CacheIsBehind /\ HaveUIDs /\ InOrder
  BY <1>1, <1>2 DEF CacheIsBehind, HaveUIDs, InOrder
<1>4. HashesTell
  BY DEF Init, HashesTell, NoTarget
<1>5. TargetsSeen
  <2>1. \A r \in Resources : tgt[r] = NoTarget /\ tgtC[r] = NoTarget
    BY DEF Init
  <2>2. \A r \in Resources : CacheView(r, NoTarget) = NoTarget
    BY DEF CacheView, NoTarget
  <2> QED BY <2>1, <2>2 DEF TargetsSeen
<1>6. ~queued => UpToDate
  BY <1>1 DEF UpToDate, ReadsBundle, ReadsSources, HasResolved, HasCleaned,
              HasApplied, WillReport, HasReported, PastBuild
<1> QED BY <1>3, <1>4, <1>5, <1>6 DEF Resting, Background

\* A target object whose hash annotation is not wrong.
Sound(t) ==
    /\ t.keys # {} => t.hash \in {t.val, NoVersion}
    /\ ~t.exists => t = NoTarget

\* What the cache keeps of a target.
LEMMA CachedFields ==
    ASSUME NEW r \in Resources, NEW t \in TargetType
    PROVE  /\ CacheView(r, t).exists <=>
                (t.exists /\ t.label /\ NsOf(r) \in TargetNamespaces)
           /\ CacheView(r, t).exists =>
                /\ CacheView(r, t).owner = t.owner
                /\ CacheView(r, t).hash = t.hash
                /\ CacheView(r, t).keys = t.keys
                /\ CacheView(r, t).deleting = t.deleting
           /\ MapsToBundle(r, t) <=> IsOurs(CacheView(r, t))
<1> DEFINE u == [t EXCEPT !.val = NoVersion, !.other = {}]
<1>1. /\ u.exists = t.exists /\ u.owner = t.owner /\ u.hash = t.hash
      /\ u.keys = t.keys /\ u.deleting = t.deleting
  BY DEF TargetType
<1>2. NoTarget.exists = FALSE
  BY DEF NoTarget
<1>3. CacheView(r, t) = IF t.exists /\ t.label /\ NsOf(r) \in TargetNamespaces
                        THEN u ELSE NoTarget
  BY DEF CacheView
<1> HIDE DEF u
<1> QED BY <1>1, <1>2, <1>3 DEF MapsToBundle, IsOurs

LEMMA TargetWritten ==
    ASSUME TypeOK, HashesTell, TargetsSeen, NEW r \in Resources, NEW t,
           WriteTarget(r, t), UNCHANGED tgtC, Sound(t)
    PROVE  /\ HashesTell' /\ TargetsSeen' /\ KeepsTargets
           /\ tgt'[r] = t
           /\ \A q \in Resources \ {r} : tgt'[q] = tgt[q]
<1>1. \A q \in Resources : tgt'[q] = IF q = r THEN t ELSE tgt[q]
  BY DEF WriteTarget, TypeOK
<1>2. /\ tgtEvent'[r] <=>
           (tgtEvent[r] \/ (t # tgt[r] /\ (MapsToBundle(r, tgt[r])
                                           \/ MapsToBundle(r, t))))
      /\ \A q \in Resources \ {r} : tgtEvent'[q] = tgtEvent[q]
  BY DEF WriteTarget, TypeOK
<1>3. HashesTell'
  BY <1>1 DEF HashesTell, Sound
<1>4. ASSUME ~tgtEvent'[r]
      PROVE  /\ ~tgtEvent[r]
             /\ t = tgt[r] \/ (~MapsToBundle(r, tgt[r]) /\ ~MapsToBundle(r, t))
  BY <1>2, <1>4
<1>5. tgtEvent \in [Resources -> BOOLEAN] /\ tgtEvent' \in [Resources -> BOOLEAN]
  BY DEF WriteTarget, TypeOK
<1>6. KeepsTargets
  <2> SUFFICES ASSUME NEW q \in Resources
               PROVE  \/ tgtEvent'[q]
                      \/ tgt'[q] = tgt[q] /\ tgtEvent'[q] = tgtEvent[q]
                      \/ /\ ~MapsToBundle(q, tgt[q]) /\ ~MapsToBundle(q, tgt'[q])
                         /\ tgtEvent'[q] = tgtEvent[q]
    BY DEF KeepsTargets
  <2>1. CASE q # r
    BY <1>1, <1>2, <2>1
  <2>2. CASE q = r
    <3>1. ~tgtEvent'[r] => tgtEvent'[r] = tgtEvent[r]
      BY <1>4, <1>5
    <3> QED BY <1>1, <1>4, <2>2, <3>1
  <2> QED BY <2>1, <2>2
<1>7. TargetsSeen'
  <2> SUFFICES ASSUME NEW q \in Resources, ~tgtEvent'[q]
               PROVE  \/ tgtC[q] = CacheView(q, tgt'[q])
                      \/ ~IsOurs(tgtC[q]) /\ ~MapsToBundle(q, tgt'[q])
    BY DEF TargetsSeen, CacheView, MapsToBundle, IsOurs
  <2>1. CASE q # r
    BY <1>1, <1>2, <2>1 DEF TargetsSeen
  <2>2. CASE q = r
    <3>1. tgtC[r] = CacheView(r, tgt[r]) /\ ~MapsToBundle(r, tgt[r])
            => ~IsOurs(tgtC[r])
      BY CachedFields DEF IsOurs, TypeOK
    <3> QED BY <1>1, <1>4, <2>2, <3>1 DEF TargetsSeen
  <2> QED BY <2>1, <2>2
<1> QED BY <1>1, <1>3, <1>6, <1>7

\* A step that leaves the targets alone.
LEMMA TargetsAlone ==
    ASSUME HashesTell, TargetsSeen, UNCHANGED <<tgt, tgtC, tgtEvent>>
    PROVE  HashesTell' /\ TargetsSeen' /\ KeepsTargets
BY DEF HashesTell, TargetsSeen, KeepsTargets, CacheView, MapsToBundle

\* What the operators on targets make is sound.
LEMMA SoundTargets ==
    ASSUME NEW t \in TargetType, Sound(t)
    PROVE  /\ Sound(NoTarget)
           /\ \A u \in Deleted(t) : t.exists => Sound(u)
           /\ \A u \in ThirdPartyEdits(t) : t.exists => Sound(u)
           /\ \A k \in Keys : \A o : Sound([NoTarget EXCEPT !.exists = TRUE,
                                              !.other = {k}, !.owner = o])
           /\ \A uid, ks, v : Sound(Applied(t, uid, ks, v))
<1>1. Sound(NoTarget)
  BY DEF Sound, NoTarget
<1>2. \A u \in Deleted(t) : t.exists => Sound(u)
  BY <1>1, DeletedType DEF Sound, TargetType
<1>3. ASSUME NEW u \in ThirdPartyEdits(t), t.exists PROVE Sound(u)
  BY <1>3 DEF Sound, ThirdPartyEdits, TargetType
<1>4. \A k \in Keys : \A o : Sound([NoTarget EXCEPT !.exists = TRUE,
                                              !.other = {k}, !.owner = o])
  BY DEF Sound, NoTarget
<1>5. \A uid, ks, v : Sound(Applied(t, uid, ks, v))
  BY DEF Sound, Applied, TargetType
<1> QED BY <1>1, <1>2, <1>3, <1>4, <1>5

\* Informers.
LEMMA InformerStep ==
    ASSUME TypeOK, TypeOK', Resting, Informers
    PROVE  Resting'
<1> USE DEF api, locals
<1>a. /\ CacheIsBehind /\ HaveUIDs /\ HashesTell /\ TargetsSeen /\ InOrder
      /\ ~queued => UpToDate
  BY DEF Resting, Background
<1>1. CASE SyncBundle
  <2>1. CacheIsBehind' /\ HaveUIDs'
    BY <1>a, <1>1, SpecParts DEF SyncBundle, CacheIsBehind, HaveUIDs, TypeOK
  <2>2. HashesTell' /\ TargetsSeen' /\ InOrder'
    BY <1>a, <1>1, TargetsAlone DEF SyncBundle, InOrder
  <2>3. queued'
    BY <1>1 DEF SyncBundle
  <2> QED BY <2>1, <2>2, <2>3 DEF Resting, Background
<1>2. ASSUME NEW n \in Namespaces, SyncNamespace(n) PROVE Resting'
  <2>1. HashesTell' /\ TargetsSeen' /\ KeepsTargets
    BY <1>a, <1>2, TargetsAlone DEF SyncNamespace
  <2>2. Background'
    BY <1>a, <1>2, <2>1
       DEF SyncNamespace, Background, CacheIsBehind, HaveUIDs, InOrder
  <2>3. ASSUME ~queued', bundleC.exists PROVE SameView(bundleC.spec)
    <3>1. ~NamespaceSelectsBundle(n)
      BY <1>2, <2>3 DEF SyncNamespace
    <3>2. /\ nsC' = [nsC EXCEPT ![n] = ns[n]]
          /\ UNCHANGED <<srcC, bundleC>>
      BY <1>2 DEF SyncNamespace
    <3>3. PICK sp : sp = bundleC.spec
      OBVIOUS
    <3>4. ASSUME NEW r \in Resources
          PROVE  Chosen(sp, r)' <=> Chosen(sp, r)
      <4>1. NsOf(r) \in Namespaces
        BY ResourceParts
      <4>2. nsC'[NsOf(r)] = IF NsOf(r) = n THEN ns[n] ELSE nsC[NsOf(r)]
        BY <3>2, <4>1 DEF TypeOK
      <4>3. CASE NsOf(r) # n
        BY <4>2, <4>3 DEF Chosen, SelectorMatches
      <4>4. CASE NsOf(r) = n
        <5>1. \A o \in {nsC[n], ns[n]} :
                 ~(o.phase = "active" /\ SelectorMatches(sp, o))
          BY <3>1, <3>3 DEF NamespaceSelectsBundle
        <5>2. ~Chosen(sp, r)
          BY <4>4, <5>1 DEF Chosen
        <5>3. ~Chosen(sp, r)'
          BY <4>2, <4>4, <5>1 DEF Chosen, SelectorMatches
        <5> QED BY <5>2, <5>3
      <4> QED BY <4>3, <4>4
    <3>5. SameView(sp)
      BY <3>2, <3>4 DEF SameView
    <3>6. bundleC' = bundleC /\ sp = bundleC'.spec
      BY <3>2, <3>3
    <3> QED BY <3>3, <3>5, <3>6 DEF SameView
  <2> QED BY <1>2, <2>1, <2>2, <2>3, UnnoticedStep DEF SyncNamespace
<1>3. ASSUME NEW s \in Sources, SyncSource(s) PROVE Resting'
  <2>1. HashesTell' /\ TargetsSeen' /\ KeepsTargets
    BY <1>a, <1>3, TargetsAlone DEF SyncSource
  <2>2. Background'
    BY <1>a, <1>3, <2>1
       DEF SyncSource, Background, CacheIsBehind, HaveUIDs, InOrder
  <2>3. ASSUME ~queued', bundleC.exists PROVE SameView(bundleC.spec)
    <3>1. ~Reads(bundleC.spec, s)
      BY <1>3, <2>3 DEF SyncSource
    <3>2. UNCHANGED <<bundleC, nsC>> /\ \A q \in Sources \ {s} : srcC'[q] = srcC[q]
      BY <1>3 DEF SyncSource, TypeOK
    <3> QED BY <3>1, <3>2 DEF SameView, Chosen, SelectorMatches
  <2> QED BY <1>3, <2>1, <2>2, <2>3, UnnoticedStep DEF SyncSource
<1>4. ASSUME NEW r \in Resources, SyncTarget(r) PROVE Resting'
  <2>1. /\ tgtC' = [tgtC EXCEPT ![r] = CacheView(r, tgt[r])]
        /\ tgtEvent' = [tgtEvent EXCEPT ![r] = FALSE]
        /\ UNCHANGED <<bundle, bundleC, ns, src, tgt, nsC, srcC, pc, locals,
                       uncleaned>>
        /\ queued' = (queued \/ (tgtEvent[r] /\ (KindOf(r) = "Secret"
                                                   => SecretTargetsEnabled)))
    BY <1>4 DEF SyncTarget
  <2>2. HashesTell' /\ TargetsSeen'
    <3>1. TargetsSeen'
      <4> SUFFICES ASSUME NEW q \in Resources
                   PROVE  \/ tgtEvent'[q]
                          \/ tgtC'[q] = CacheView(q, tgt[q])
                          \/ ~IsOurs(tgtC'[q]) /\ ~MapsToBundle(q, tgt[q])
        BY <2>1 DEF TargetsSeen, IsOurs, MapsToBundle, CacheView
      <4>1. tgtC'[q] = IF q = r THEN CacheView(r, tgt[r]) ELSE tgtC[q]
        BY <2>1 DEF TypeOK
      <4>2. q # r => tgtEvent'[q] = tgtEvent[q]
        BY <2>1 DEF TypeOK
      <4> QED BY <1>a, <4>1, <4>2 DEF TargetsSeen
    <3> QED BY <1>a, <2>1, <3>1 DEF HashesTell
  <2>3. Background'
    BY <1>a, <2>1, <2>2 DEF Background, CacheIsBehind, HaveUIDs, InOrder
  <2>4. ASSUME ~queued' PROVE KeepsTargets
    <3>1. ASSUME NEW q \in Resources, Tended(q)
          PROVE  tgt'[q] = tgt[q] /\ tgtEvent'[q] = tgtEvent[q]
      <4>1. q = r => tgtEvent[r] = FALSE
        BY <2>1, <2>4, <3>1 DEF Tended, TypeOK
      <4> QED BY <2>1, <4>1 DEF TypeOK
    <3> QED BY <3>1 DEF KeepsTargets
  <2>5. SameView(bundleC.spec)
    BY <2>1 DEF SameView, Chosen, SelectorMatches
  <2> QED BY <2>1, <2>3, <2>4, <2>5, UnnoticedStep
<1> QED BY <1>1, <1>2, <1>3, <1>4 DEF Informers

\* A step of users or Kubernetes: caches and worker do not know of it yet.
LEMMA UnseenStep ==
    ASSUME TypeOK, TypeOK', Resting,
           UNCHANGED <<bundleC, nsC, srcC, tgtC, worker>>,
           CacheIsBehind', HaveUIDs', HashesTell', TargetsSeen', KeepsTargets,
           bundleC.exists => bundle' = bundle \/ bundle' # bundleC
    PROVE  Resting'
<1>1. InOrder'
  BY DEF Resting, Background, InOrder, worker, locals
<1>2. SameView(bundleC.spec)
  BY DEF SameView, Chosen, SelectorMatches
<1> QED BY <1>1, <1>2, UnnoticedStep DEF Background, worker

LEMMA UsersStep ==
    ASSUME TypeOK, TypeOK', Resting, Users
    PROVE  Resting'
<1> USE DEF worker, locals
<1>a. CacheIsBehind /\ HaveUIDs /\ HashesTell /\ TargetsSeen
  BY DEF Resting, Background
<1>b. /\ bundle \in BundleType /\ bundle.uid \in Nat /\ bundle.gen \in Nat
      /\ bundleC.uid \in Nat /\ bundleC.gen \in Nat
  BY SpecParts DEF TypeOK
<1>1. CASE EditSpec
  <2>1. /\ bundle.exists /\ bundle'.exists /\ bundle'.uid = bundle.uid
        /\ bundle'.gen = bundle.gen + 1
    BY <1>1, <1>b DEF EditSpec, BundleType
  <2>2. /\ UNCHANGED <<bundleC, nsC, srcC, tgtC, worker>>
        /\ UNCHANGED <<ns, src, tgt, tgtEvent>>
    BY <1>1 DEF EditSpec, UserStep
  <2>3. CacheIsBehind' /\ HaveUIDs' /\ bundle' # bundleC
    BY <1>a, <1>b, <2>1, <2>2 DEF CacheIsBehind, HaveUIDs
  <2> QED BY <1>a, <2>2, <2>3, TargetsAlone, UnseenStep
<1>2. CASE DeleteBundle
  <2>1. ~bundle'.exists /\ bundle'.uid = bundle.uid
    <3>1. NoBundle.exists = FALSE
      BY DEF NoBundle
    <3> QED BY <1>2, <3>1, Absences DEF DeleteBundle, BundleType
  <2>2. /\ UNCHANGED <<bundleC, nsC, srcC, tgtC, worker>>
        /\ UNCHANGED <<ns, src, tgt, tgtEvent>>
    BY <1>2 DEF DeleteBundle, UserStep
  <2>3. CacheIsBehind' /\ HaveUIDs'
    BY <1>a, <2>1, <2>2 DEF CacheIsBehind, HaveUIDs
  <2>4. bundleC.exists => bundle' # bundleC
    BY <2>1
  <2> QED BY <1>a, <2>2, <2>3, <2>4, TargetsAlone, UnseenStep
<1>3. CASE CreateBundle
  <2>1. bundle'.exists /\ bundle'.uid = bundle.uid + 1
    BY <1>3, Absences DEF CreateBundle, BundleType
  <2>2. /\ UNCHANGED <<bundleC, nsC, srcC, tgtC, worker>>
        /\ UNCHANGED <<ns, src, tgt, tgtEvent>>
    BY <1>3 DEF CreateBundle, UserStep
  <2>3. CacheIsBehind' /\ HaveUIDs' /\ bundle' # bundleC
    BY <1>a, <1>b, <2>1, <2>2 DEF CacheIsBehind, HaveUIDs
  <2> QED BY <1>a, <2>2, <2>3, TargetsAlone, UnseenStep
<1>4. CASE \/ \E s \in Sources : EditSource(s)
           \/ \E n \in Namespaces :
                LabelNamespace(n) \/ DeleteNamespace(n) \/ CreateNamespace(n)
  <2>1. /\ UNCHANGED <<bundleC, nsC, srcC, tgtC, worker>>
        /\ UNCHANGED <<bundle, tgt, tgtEvent>>
    BY <1>4 DEF EditSource, LabelNamespace, DeleteNamespace, CreateNamespace,
                UserStep
  <2>2. CacheIsBehind' /\ HaveUIDs'
    BY <1>a, <2>1 DEF CacheIsBehind, HaveUIDs
  <2> QED BY <1>a, <2>1, <2>2, TargetsAlone, UnseenStep
<1>5. ASSUME NEW r \in Resources,
             EditTarget(r) \/ CreateTarget(r) \/ DeleteTarget(r)
      PROVE  Resting'
  <2>1. UNCHANGED <<bundle, bundleC, nsC, srcC, tgtC, worker>>
    BY <1>5 DEF EditTarget, CreateTarget, DeleteTarget, UserStep
  <2>2. CacheIsBehind' /\ HaveUIDs'
    BY <1>a, <2>1 DEF CacheIsBehind, HaveUIDs
  <2>3. PICK old_ : old_ = tgt[r]
    OBVIOUS
  <2>4. old_ \in TargetType /\ Sound(old_)
    BY <1>a, <2>3 DEF TypeOK, HashesTell, Sound
  <2>5. PICK t : WriteTarget(r, t) /\ Sound(t)
    <3>1. CASE EditTarget(r)
      <4>1. old_.exists /\ \E t \in ThirdPartyEdits(old_) : WriteTarget(r, t)
        BY <2>3, <3>1 DEF EditTarget
      <4> QED BY <2>4, <4>1, SoundTargets
    <3>2. CASE CreateTarget(r)
      BY <2>4, <3>2, SoundTargets DEF CreateTarget
    <3>3. CASE DeleteTarget(r)
      <4>1. old_.exists /\ \E t \in Deleted(old_) : WriteTarget(r, t)
        BY <2>3, <3>3 DEF DeleteTarget
      <4> QED BY <2>4, <4>1, SoundTargets
    <3> QED BY <1>5, <3>1, <3>2, <3>3
  <2>6. HashesTell' /\ TargetsSeen' /\ KeepsTargets
    BY <1>a, <2>1, <2>5, TargetWritten
  <2> QED BY <2>1, <2>2, <2>6, UnseenStep
<1> QED BY <1>1, <1>2, <1>3, <1>4, <1>5 DEF Users

LEMMA KubernetesStep ==
    ASSUME TypeOK, TypeOK', Resting, Kubernetes
    PROVE  Resting'
<1>a. CacheIsBehind /\ HaveUIDs /\ HashesTell /\ TargetsSeen
  BY DEF Resting, Background
<1>1. UNCHANGED <<bundle, bundleC, nsC, srcC, tgtC, worker>>
  BY DEF Kubernetes, RemoveTarget, RemoveNamespace, caches
<1>2. CacheIsBehind' /\ HaveUIDs'
  BY <1>a, <1>1 DEF CacheIsBehind, HaveUIDs, worker, locals
<1>3. HashesTell' /\ TargetsSeen' /\ KeepsTargets
  <2>1. ASSUME NEW r \in Resources, RemoveTarget(r)
        PROVE  HashesTell' /\ TargetsSeen' /\ KeepsTargets
    <3>1. WriteTarget(r, NoTarget)
      BY <2>1 DEF RemoveTarget
    <3>2. Sound(NoTarget)
      BY DEF Sound, NoTarget
    <3> QED BY <1>a, <1>1, <3>1, <3>2, TargetWritten
  <2>2. ASSUME NEW n \in Namespaces, RemoveNamespace(n)
        PROVE  HashesTell' /\ TargetsSeen' /\ KeepsTargets
    BY <1>a, <2>2, TargetsAlone DEF RemoveNamespace, caches
  <2> QED BY <2>1, <2>2 DEF Kubernetes
<1> QED BY <1>1, <1>2, <1>3, UnseenStep

\* After a restart the Bundle, if there is one, is reconciled from the start.
LEMMA RestartStep ==
    ASSUME TypeOK, TypeOK', Resting, Restart
    PROVE  Resting'
<1>1. /\ bundleC' = bundle' /\ bundle' = bundle /\ tgt' = tgt
      /\ tgtC' = [r \in Resources |-> CacheView(r, tgt[r])]
      /\ queued' = bundle.exists /\ pc' = "idle"
      /\ ~certs' /\ kind' = "ConfigMap" /\ cur' = {}
  BY DEF Restart, ResetLocals, api
<1>2. bundle.uid \in Nat /\ bundle.gen \in Nat
  BY SpecParts DEF TypeOK
<1>3. CacheIsBehind' /\ HaveUIDs' /\ HashesTell' /\ InOrder'
  BY <1>1, <1>2 DEF Resting, Background, CacheIsBehind, HaveUIDs, HashesTell, InOrder
<1>4. TargetsSeen'
  BY <1>1 DEF TargetsSeen, CacheView
<1>5. ~queued' => UpToDate'
  BY <1>1 DEF UpToDate, ReadsBundle, ReadsSources, HasResolved, HasCleaned,
              HasApplied, WillReport, HasReported, PastBuild
<1> QED BY <1>3, <1>4, <1>5 DEF Resting, Background

-----------------------------------------------------------------------------
(* Steps of the worker *)

\* The worker does not touch caches.
LEMMA CachesAlone ==
    ASSUME UNCHANGED <<srcC, nsC>>, NEW x \in BundleType
    PROVE  /\ SameView(x.spec)
           /\ CanResolve(x.spec)' <=> CanResolve(x.spec)
           /\ VersionsOf(x.spec)' = VersionsOf(x.spec)
           /\ \A r \in Resources : Chosen(x.spec, r)' <=> Chosen(x.spec, r)
<1>1. SameView(x.spec)
  BY DEF SameView, Chosen, SelectorMatches
<1> QED BY <1>1, ViewOfSources DEF SameView

\* Bundles are not touched, or only the status of the one at the API server.
LEMMA BundlesAlone ==
    ASSUME TypeOK, CacheIsBehind, HaveUIDs, UNCHANGED bundleC,
           \/ bundle' = bundle
           \/ bundle' = [bundle EXCEPT !.status = patch],
           b' = b \/ pc' = "idle",
           pc = "idle" => pc' = "idle"
    PROVE  CacheIsBehind' /\ HaveUIDs'
<1>1. /\ bundle'.uid = bundle.uid /\ bundle'.gen = bundle.gen
      /\ bundle'.exists = bundle.exists
  BY DEF TypeOK, BundleType
<1> QED BY <1>1 DEF CacheIsBehind, HaveUIDs

\* An error puts the key back on the queue.
LEMMA ErrorStep ==
    ASSUME TypeOK, Resting, UNCHANGED <<tgt, tgtC, tgtEvent, bundleC>>,
           \/ bundle' = bundle
           \/ bundle' = [bundle EXCEPT !.status = patch],
           Done(TRUE)
    PROVE  Resting'
<1>1. queued' /\ pc' = "idle" /\ ~certs' /\ kind' = "ConfigMap" /\ cur' = {}
  BY DEF Done, ResetLocals
<1>2. CacheIsBehind' /\ HaveUIDs'
  BY <1>1, BundlesAlone DEF Resting, Background
<1>3. HashesTell' /\ TargetsSeen'
  BY TargetsAlone DEF Resting, Background
<1>4. InOrder'
  BY <1>1 DEF InOrder
<1> QED BY <1>1, <1>2, <1>3, <1>4 DEF Resting, Background

\* Reconcile gives up; what it says, unless it also returns the error, is true.
LEMMA FailStep ==
    ASSUME TypeOK, Resting, pc # "idle", NEW rs, NEW e \in BOOLEAN,
           FailWith(rs, e),
           UNCHANGED <<bundle, bundleC, srcC, nsC, tgtC, queued, b>>,
           HashesTell', TargetsSeen', cur' = {},
           ~queued /\ ~e =>
               /\ ~CanResolve(b.spec) \/ Refuses(b.spec)
               /\ rs = IF CanResolve(b.spec) THEN "SecretTargetsDisabled"
                                            ELSE "SourceNotFound"
    PROVE  Resting'
<1>1. /\ pc' = "status" /\ failed' = e
      /\ patch'.cond.status = "False" /\ patch'.cond.reason = rs
      /\ patch'.cond.observed = b.gen
  BY DEF FailWith, NewCond
<1>2. CacheIsBehind' /\ HaveUIDs'
  BY BundlesAlone DEF Resting, Background
<1>3. InOrder'
  BY <1>1 DEF InOrder
<1>4. ASSUME ~queued' PROVE UpToDate'
  <2>1. b = bundleC
    BY <1>4 DEF Resting, UpToDate, ReadsBundle
  <2>2. ASSUME ~e PROVE Serves(b)' /\ TellsTruth(b, patch)'
    <3>1. PICK x : x = b
      OBVIOUS
    <3>2. x \in BundleType /\ b' = x
      BY <3>1 DEF TypeOK
    <3>3. PICK st : st = patch'
      OBVIOUS
    <3>4. /\ ~CanResolve(x.spec) \/ Refuses(x.spec)
          /\ rs = IF CanResolve(x.spec) THEN "SecretTargetsDisabled"
                                       ELSE "SourceNotFound"
      BY <1>4, <2>2, <3>1
    <3>5. CanResolve(x.spec)' <=> CanResolve(x.spec)
      BY <3>2, CachesAlone
    <3>6. Serves(x)'
      BY <3>4, <3>5 DEF Serves, Refuses
    <3>7. TellsTruth(x, st)'
      BY <1>1, <3>1, <3>3, <3>4, <3>5 DEF TellsTruth, Says, Refuses
    <3> QED BY <3>2, <3>3, <3>6, <3>7
  <2> QED BY <1>1, <2>1, <2>2
          DEF UpToDate, ReadsBundle, ReadsSources, HasResolved, HasCleaned,
              HasApplied, WillReport, HasReported, PastBuild
<1> QED BY <1>2, <1>3, <1>4 DEF Resting, Background

LEMMA GetBundleStep ==
    ASSUME TypeOK, Whole, Resting, GetBundle
    PROVE  Resting'
<1>1. /\ pc = "idle" /\ idx = 1 /\ res = NoVersion /\ ~certs
      /\ UNCHANGED <<bundle, bundleC, srcC, nsC, tgt, tgtC, tgtEvent, idx, res,
                     certs, kind, want, desired, old, cur>>
  BY DEF GetBundle, Whole, Reading, Resting, Background, InOrder, api, caches
<1>2. HashesTell' /\ TargetsSeen'
  BY <1>1, TargetsAlone DEF Resting, Background
<1>3. CASE ~bundleC.exists
  <2>1. pc' = "idle" /\ b' = b
    BY <1>1, <1>3 DEF GetBundle
  <2>2. CacheIsBehind' /\ HaveUIDs' /\ InOrder'
    BY <1>1, <2>1, BundlesAlone DEF Resting, Background, InOrder
  <2>3. UpToDate'
    BY <1>1, <1>3, <2>1
       DEF UpToDate, ReadsBundle, ReadsSources, HasResolved, HasCleaned,
           HasApplied, WillReport, HasReported, PastBuild
  <2> QED BY <1>2, <2>2, <2>3 DEF Resting, Background
<1>4. CASE bundleC.exists
  <2>1. pc' = "build" /\ b' = bundleC
    BY <1>4 DEF GetBundle
  <2>2. CacheIsBehind' /\ HaveUIDs' /\ InOrder'
    BY <1>1, <1>4, <2>1
       DEF Resting, Background, CacheIsBehind, HaveUIDs, InOrder
  <2>3. ReadsSources'
    <3>1. \A i \in 1..Len(b'.spec.sources) : ~(i < idx')
      BY <1>1
    <3>2. \A s \in Sources : res'[s] = 0
      BY <1>1 DEF NoVersion
    <3> QED BY <1>1, <3>1, <3>2 DEF ReadsSources
  <2>4. UpToDate'
    BY <1>1, <2>1, <2>3
       DEF UpToDate, ReadsBundle, HasResolved, HasCleaned,
           HasApplied, WillReport, HasReported, PastBuild
  <2> QED BY <1>2, <2>2, <2>4 DEF Resting, Background
<1> QED BY <1>3, <1>4

LEMMA AddToCertPoolStep ==
    ASSUME TypeOK, Resting, AddToCertPool
    PROVE  Resting'
<1> DEFINE s == b.spec.sources[idx]
<1>1. /\ pc = "build" /\ idx \in 1..Len(b.spec.sources) /\ s \in Sources
      /\ UNCHANGED <<bundle, bundleC, srcC, nsC, tgt, tgtC, tgtEvent, b, queued,
                     kind, want, desired, old, cur>>
  BY NextSource, SpecParts DEF AddToCertPool, api, caches, TypeOK
<1>2. HashesTell' /\ TargetsSeen' /\ cur' = {}
  BY <1>1, TargetsAlone DEF Resting, Background, InOrder
<1>3. CASE srcC[s].state = "missing" /\ FailWith("SourceNotFound", FALSE)
  <2>1. ~CanResolve(b.spec)
    BY <1>1, <1>3 DEF CanResolve
  <2> QED BY <1>1, <1>2, <1>3, <2>1, FailStep
<1>4. CASE FailWith("SourceBuildError", TRUE)
  BY <1>1, <1>2, <1>4, FailStep
<1>5. CASE /\ srcC[s].state \in {"ok", "empty"}
           /\ idx' = idx + 1
           /\ res' = [res EXCEPT ![s] = srcC[s].ver]
           /\ certs' = (certs \/ srcC[s].state = "ok")
           /\ UNCHANGED <<pc, patch, failed>>
  <2>1. CacheIsBehind' /\ HaveUIDs' /\ InOrder'
    BY <1>1, <1>5, BundlesAlone DEF Resting, Background, InOrder
  <2>2. ASSUME ~queued' PROVE UpToDate'
    <3>1. ReadsBundle /\ ReadsSources
      BY <1>1, <2>2 DEF Resting, UpToDate
    <3>2. ReadsSources'
      <4>1. \A i \in 1..Len(b.spec.sources) : i < idx + 1 <=> i < idx \/ i = idx
        BY <1>1 DEF TypeOK
      <4>2. \A q \in Sources : res'[q] = IF q = s THEN srcC[s].ver ELSE res[q]
        BY <1>1, <1>5 DEF TypeOK, Versions
      <4>3. \A i \in 1..Len(b.spec.sources) :
                i < idx' => srcC[b.spec.sources[i]].state \in {"ok", "empty"}
        BY <1>1, <1>5, <3>1, <4>1 DEF ReadsSources
      <4>4. certs' <=> \E i \in 1..Len(b.spec.sources) :
                          i < idx' /\ srcC[b.spec.sources[i]].state = "ok"
        BY <1>1, <1>5, <3>1, <4>1 DEF ReadsSources
      <4>5. ASSUME NEW q \in Sources
            PROVE  res'[q] = IF \E i \in 1..Len(b.spec.sources) :
                                    i < idx' /\ b.spec.sources[i] = q
                             THEN srcC[q].ver ELSE 0
        BY <1>1, <1>5, <3>1, <4>1, <4>2 DEF ReadsSources
      <4> QED BY <1>1, <4>3, <4>4, <4>5 DEF ReadsSources
    <3>3. ReadsBundle'
      BY <1>1, <1>5, <3>1 DEF ReadsBundle
    <3> QED BY <1>1, <1>5, <3>2, <3>3
            DEF UpToDate, HasResolved, HasCleaned, HasApplied, WillReport,
                HasReported, PastBuild
  <2> QED BY <1>2, <2>1, <2>2 DEF Resting, Background
<1> QED BY <1>3, <1>4, <1>5 DEF AddToCertPool

\* From the end of BuildBundle on: a step that keeps what is done, and to which
\* the following has been added.
LEMMA LoopStep ==
    ASSUME TypeOK, Resting, NEW x, x = b,
           pc \in PastBuild, pc' \in PastBuild,
           UNCHANGED <<bundle, bundleC, srcC, nsC, queued, b, res, desired>>,
           HashesTell', TargetsSeen', InOrder', KeepsTargets,
           uncleaned \subseteq uncleaned',
           ~queued =>
             /\ \A r \in Resources \ desired :
                  Tended(r) /\ CleanedUpTo(r)' /\ ~CleanedUpTo(r) => Cleaned(x, r)'
             /\ pc' \in {"apply", "patch"} =>
                  \A r \in desired \ (want' \cup cur') :
                    \/ Served(x, r)'
                    \/ pc \in {"apply", "patch"} /\ r \notin want \cup cur
    PROVE  Resting'
<1>1. CacheIsBehind' /\ HaveUIDs'
  BY BundlesAlone DEF Resting, Background, PastBuild
<1>2. ASSUME ~queued' PROVE UpToDate'
  <2>1. UpToDate /\ HaveUIDs
    BY <1>2 DEF Resting, Background
  <2>2. x \in BundleType /\ x.uid >= 1 /\ b' = x
    BY <2>1 DEF TypeOK, HaveUIDs, PastBuild
  <2>3. /\ CanResolve(x.spec)' <=> CanResolve(x.spec)
        /\ VersionsOf(x.spec)' = VersionsOf(x.spec)
        /\ \A r \in Resources : Chosen(x.spec, r)' <=> Chosen(x.spec, r)
        /\ SameView(x.spec)
    BY <2>2, CachesAlone
  <2>4. HasResolved'
    <3>1. {r \in Resources : Chosen(x.spec, r)}' = {r \in Resources : Chosen(x.spec, r)}
      BY <2>3
    <3>2. Refuses(x.spec)' <=> Refuses(x.spec)
      BY DEF Refuses
    <3> QED BY <2>1, <2>2, <2>3, <3>1, <3>2 DEF UpToDate, HasResolved
  <2>5. \A r \in Resources : Tended(r) =>
               /\ Served(x, r) => Served(x, r)'
               /\ Cleaned(x, r) => Cleaned(x, r)'
    BY <2>2, <2>3, TargetsKept
  <2>6. HasCleaned'
    <3> SUFFICES ASSUME NEW r \in Resources \ desired, Tended(r), CleanedUpTo(r)'
                 PROVE  Cleaned(x, r)'
      BY <2>2 DEF HasCleaned, Tended
    <3>1. CleanedUpTo(r) => Cleaned(x, r)
      BY <2>1 DEF UpToDate, HasCleaned
    <3> QED BY <1>2, <2>5, <3>1
  <2>7. HasApplied'
    <3> SUFFICES ASSUME pc' \in {"apply", "patch"}, NEW r \in desired \ (want' \cup cur')
                 PROVE  Served(x, r)'
      BY <2>2 DEF HasApplied
    <3>1. r \in Resources /\ Tended(r)
      BY <2>1 DEF UpToDate, HasResolved, Refuses, Chosen, Tended
    <3>2. pc \in {"apply", "patch"} /\ r \notin want \cup cur => Served(x, r)
      BY <2>1 DEF UpToDate, HasApplied
    <3> QED BY <1>2, <2>5, <3>1, <3>2
  <2>8. ReadsBundle'
    BY <2>1 DEF UpToDate, ReadsBundle, PastBuild
  <2> QED BY <2>4, <2>6, <2>7, <2>8
          DEF UpToDate, ReadsSources, WillReport, HasReported, PastBuild
<1> QED BY <1>1, <1>2 DEF Resting, Background

LEMMA ListNamespacesStep ==
    ASSUME TypeOK, TypeOK', Whole, Resting, ListNamespaces
    PROVE  Resting'
<1>1. /\ pc = "build" /\ idx > Len(b.spec.sources)
      /\ UNCHANGED <<bundle, bundleC, srcC, nsC, tgt, tgtC, tgtEvent>>
  BY DEF ListNamespaces, api, caches
<1>2. HashesTell' /\ TargetsSeen' /\ KeepsTargets /\ cur = {}
  BY <1>1, TargetsAlone DEF Resting, Background, InOrder
<1>3. /\ Len(b.spec.sources) \in Nat /\ idx \in Nat
      /\ \A i \in 1..Len(b.spec.sources) : i < idx
  BY <1>1, SpecParts DEF TypeOK
<1>4. ASSUME ~queued
      PROVE  /\ b = bundleC
             /\ certs <=> CanResolve(b.spec)
             /\ \A s \in Sources : res[s] = IF Reads(b.spec, s) THEN srcC[s].ver ELSE 0
  <2>1. UpToDate
    BY <1>4 DEF Resting
  <2>2. certs <=> CanResolve(b.spec)
    BY <1>1, <1>3, <2>1 DEF UpToDate, ReadsSources, CanResolve
  <2>3. \A s \in Sources : res[s] = IF Reads(b.spec, s) THEN srcC[s].ver ELSE 0
    BY <1>1, <1>3, <2>1 DEF UpToDate, ReadsSources, Reads
  <2> QED BY <1>1, <2>1, <2>2, <2>3 DEF UpToDate, ReadsBundle
<1>5. CASE ~certs /\ FailWith("SourceNotFound", FALSE) /\ UNCHANGED <<queued, b, cur>>
  BY <1>1, <1>2, <1>4, <1>5, FailStep
<1>6. CASE /\ certs /\ ~SecretTargetsEnabled /\ "Secret" \in b.spec.kinds
           /\ FailWith("SecretTargetsDisabled", FALSE) /\ UNCHANGED <<queued, b, cur>>
  BY <1>1, <1>2, <1>4, <1>6, FailStep DEF Refuses
<1>7. CASE Done(TRUE)
  BY <1>1, <1>7, ErrorStep
<1>8. CASE /\ certs
           /\ SecretTargetsEnabled \/ "Secret" \notin b.spec.kinds
           /\ desired' = TargetResources
           /\ want' = TargetResources
           /\ pc' = "list"
           /\ UNCHANGED <<queued, b, idx, res, certs, kind, old, cur>>
  <2>1. CacheIsBehind' /\ HaveUIDs'
    BY <1>1, <1>8, BundlesAlone DEF Resting, Background
  <2>2. InOrder'
    BY <1>1, <1>8 DEF Resting, Background, InOrder
  <2>3. ASSUME ~queued' PROVE UpToDate'
    <3>1. b = bundleC
      BY <1>4, <1>8, <2>3
    <3>2. HasResolved'
      <4>1. PICK x : x = b
        OBVIOUS
      <4>2. /\ CanResolve(x.spec)
            /\ \A s \in Sources : res[s] = IF Reads(x.spec, s) THEN srcC[s].ver ELSE 0
            /\ ~Refuses(x.spec)
        BY <1>4, <1>8, <2>3, <4>1 DEF Refuses
      <4>3. res = VersionsOf(x.spec)
        BY <4>2 DEF VersionsOf, TypeOK, Versions
      <4>4. TargetResources = {r \in Resources : Chosen(x.spec, r)}
        BY <4>1 DEF TargetResources, Chosen
      <4>5. /\ CanResolve(x.spec)' <=> CanResolve(x.spec)
            /\ VersionsOf(x.spec)' = VersionsOf(x.spec)
            /\ \A r \in Resources : Chosen(x.spec, r)' <=> Chosen(x.spec, r)
        BY <1>1, <4>1, CachesAlone DEF TypeOK
      <4>6. {r \in Resources : Chosen(x.spec, r)}' = {r \in Resources : Chosen(x.spec, r)}
        BY <4>5
      <4>7. b' = x /\ res' = res /\ (Refuses(x.spec)' <=> Refuses(x.spec))
        BY <1>8, <4>1 DEF Refuses
      <4> QED BY <1>8, <4>2, <4>3, <4>4, <4>5, <4>6, <4>7 DEF HasResolved
    <3>3. HasCleaned'
      BY <1>1, <1>8 DEF HasCleaned, CleanedUpTo, Resting, Background, InOrder
    <3> QED BY <1>1, <1>8, <3>1, <3>2, <3>3
            DEF UpToDate, ReadsBundle, ReadsSources, HasApplied, WillReport,
                HasReported
  <2> QED BY <1>2, <2>1, <2>2, <2>3 DEF Resting, Background
<1> QED BY <1>5, <1>6, <1>7, <1>8 DEF ListNamespaces

\* A target that does not map to any Bundle holds nothing of Bundle x.
LEMMA UnmappedIsEmpty ==
    ASSUME TypeOK, HashesTell, NEW x \in BundleType, x.uid >= 1,
           NEW r \in Resources, Tended(r),
           ~MapsToBundle(r, tgt[r]) \/ ~CacheView(r, tgt[r]).exists
    PROVE  Empty(x, tgt[r])
<1>1. x.uid \notin {0, Foreign}
  BY SpecParts DEF Foreign
<1>2. tgt[r] \in TargetType
  BY DEF TypeOK
<1>3. \/ ~(tgt[r].exists /\ tgt[r].label)
      \/ tgt[r].owner \in {0, Foreign}
  BY <1>2, CachedFields DEF MapsToBundle, Tended
<1>4. ~tgt[r].exists => tgt[r].owner = 0
  BY DEF HashesTell, NoTarget
<1> QED BY <1>1, <1>3, <1>4 DEF Empty

LEMMA ListTargetsStep ==
    ASSUME TypeOK, Resting, ListTargets
    PROVE  Resting'
<1>1. /\ pc = "list" /\ pc' = "cleanup"
      /\ UNCHANGED <<bundle, bundleC, srcC, nsC, tgt, tgtC, tgtEvent, queued, b,
                     res, desired, want, kind, cur, uncleaned>>
      /\ old' = {r \in Resources \ desired :
                 /\ KindOf(r) = kind
                 /\ tgtC[r].exists
                 /\ ~tgtC[r].deleting
                 /\ tgtC[r].owner = b.uid}
  BY DEF ListTargets, api, caches
<1>2. HashesTell /\ TargetsSeen /\ HashesTell' /\ TargetsSeen' /\ KeepsTargets
  BY <1>1, TargetsAlone DEF Resting, Background
<1>3. InOrder'
  BY <1>1 DEF Resting, Background, InOrder
<1>4. PICK x : x = b
  OBVIOUS
<1>5. x \in BundleType /\ x.uid >= 1
  BY <1>1, <1>4 DEF TypeOK, Resting, Background, HaveUIDs
<1>6. ASSUME NEW r \in Resources \ desired, Tended(r), CleanedUpTo(r)',
             ~CleanedUpTo(r)
      PROVE  Cleaned(x, r)'
  <2>1. KindOf(r) = kind /\ r \notin old'
    BY <1>1, <1>6 DEF CleanedUpTo
  <2>2. ~(tgtC[r].exists /\ ~tgtC[r].deleting /\ tgtC[r].owner = x.uid)
    BY <1>1, <1>4, <2>1
  <2>3. tgt[r] \in TargetType
    BY DEF TypeOK
  <2>4. tgtEvent[r] \/ Empty(x, tgt[r])
    <3>1. CASE tgtC[r] = CacheView(r, tgt[r])
      <4>1. CASE ~CacheView(r, tgt[r]).exists
        BY <1>2, <1>5, <1>6, <4>1, UnmappedIsEmpty
      <4>2. CASE CacheView(r, tgt[r]).exists
        BY <2>2, <2>3, <3>1, <4>2, CachedFields DEF Empty
      <4> QED BY <4>1, <4>2
    <3>2. CASE ~MapsToBundle(r, tgt[r])
      BY <1>2, <1>5, <1>6, <3>2, UnmappedIsEmpty
    <3> QED BY <1>2, <3>1, <3>2 DEF TargetsSeen
  <2>5. tgtEvent'[r] \/ Empty(x, tgt'[r])
    BY <1>1, <2>4
  <2> QED BY <2>5 DEF Cleaned, Empty
<1>7. \A r \in Resources \ desired :
          Tended(r) /\ CleanedUpTo(r)' /\ ~CleanedUpTo(r) => Cleaned(x, r)'
  BY <1>6
<1> QED BY <1>1, <1>2, <1>3, <1>4, <1>7, LoopStep DEF PastBuild

LEMMA CleanupTargetStep ==
    ASSUME TypeOK, Resting, NEW r \in Resources, CleanupTarget(r)
    PROVE  Resting'
<1>1. /\ pc = "cleanup" /\ pc' \in {"cleanup", "delete"} /\ r \in old
      /\ old' = old \ {r}
      /\ UNCHANGED <<bundle, bundleC, srcC, nsC, tgtC, queued, b, res, desired,
                     want, kind>>
      /\ pc' = "cleanup" => cur' = cur
      /\ pc' = "delete" => cur' = {r}
      /\ uncleaned \subseteq uncleaned'
  BY DEF CleanupTarget
<1>2. HashesTell /\ TargetsSeen /\ cur = {}
  BY <1>1 DEF Resting, Background, InOrder
<1>3. PICK x : x = b
  OBVIOUS
<1>4. PICK t : t = Applied(tgt[r], b.uid, {}, NoVersion)
  OBVIOUS
<1>5. /\ t.keys = {} /\ t.other = tgt[r].other /\ Sound(t)
  <2>1. tgt[r] \in TargetType /\ Sound(tgt[r])
    BY <1>2 DEF TypeOK, HashesTell, Sound
  <2>2. Sound(t)
    BY <1>4, <2>1 DEF Sound, Applied, TargetType
  <2> QED BY <1>4, <2>1, <2>2 DEF Applied, TargetType
<1>6. WriteTarget(r, t) \/ UNCHANGED <<tgt, tgtEvent>>
  BY <1>4 DEF CleanupTarget
<1>7. HashesTell' /\ TargetsSeen' /\ KeepsTargets
  BY <1>1, <1>2, <1>5, <1>6, TargetWritten, TargetsAlone
<1>8. InOrder'
  BY <1>1, <1>2 DEF Resting, Background, InOrder
<1>9. x \in BundleType /\ x.uid >= 1 /\ x.uid # Foreign
  BY <1>1, <1>3, SpecParts DEF TypeOK, Resting, Background, HaveUIDs, Foreign
<1>10. ASSUME pc' = "cleanup"
       PROVE  r \in uncleaned' \/ Empty(x, tgt'[r])
  <2>1. CASE uncleaned' = uncleaned \cup {r}
    BY <2>1
  <2>2. CASE /\ Accepts(r) /\ WriteTarget(r, t)
             /\ IF t.other = {} THEN pc' = "delete" /\ cur' = {r}
                                ELSE UNCHANGED <<pc, cur>>
    <3>1. tgt'[r] = t
      BY <1>1, <1>2, <1>5, <2>2, TargetWritten
    <3> QED BY <1>5, <1>10, <2>2, <3>1 DEF Empty
  <2>3. CASE ~Accepts(r) /\ UNCHANGED <<tgt, tgtEvent, pc, cur, faults>>
    <3>1. CASE tgt[r].owner = Foreign
      BY <1>9, <2>3, <3>1 DEF Empty
    <3>2. CASE ~tgt[r].exists
      <4>1. tgt'[r].owner = 0
        BY <1>2, <2>3, <3>2 DEF HashesTell, NoTarget
      <4> QED BY <1>9, <4>1 DEF Empty
    <3> QED BY <2>3, <3>1, <3>2 DEF Accepts
  <2> QED BY <1>4, <2>1, <2>2, <2>3 DEF CleanupTarget
<1>11. ASSUME NEW q \in Resources \ desired, Tended(q), CleanedUpTo(q)',
              ~CleanedUpTo(q)
       PROVE  Cleaned(x, q)'
  <2>1. q = r /\ pc' = "cleanup"
    BY <1>1, <1>2, <1>11 DEF CleanedUpTo
  <2>2. q \in uncleaned' \/ Empty(x, tgt'[q])
    BY <1>10, <2>1
  <2> QED BY <2>2 DEF Cleaned, Empty
<1>12. \A q \in Resources \ desired :
           Tended(q) /\ CleanedUpTo(q)' /\ ~CleanedUpTo(q) => Cleaned(x, q)'
  BY <1>11
<1> QED BY <1>1, <1>3, <1>7, <1>8, <1>12, LoopStep DEF PastBuild

LEMMA CleanupDeleteStep ==
    ASSUME TypeOK, Resting, NEW r \in Resources, CleanupDelete(r)
    PROVE  Resting'
<1>1. /\ pc = "delete" /\ pc' = "cleanup" /\ r \in cur /\ cur' = {}
      /\ UNCHANGED <<bundle, bundleC, srcC, nsC, tgtC, queued, b, res, desired,
                     want, kind, old>>
      /\ uncleaned \subseteq uncleaned'
  BY DEF CleanupDelete
<1>2. HashesTell /\ TargetsSeen /\ (\A q \in cur : q = r)
  BY <1>1 DEF Resting, Background, InOrder
<1>3. PICK x : x = b
  OBVIOUS
<1>4. PICK t : t = tgt[r]
  OBVIOUS
<1>5. t \in TargetType /\ Sound(t)
  BY <1>2, <1>4 DEF TypeOK, HashesTell, Sound
<1>6. \/ t.exists /\ \E u \in Deleted(t) : WriteTarget(r, u) /\ Sound(u)
      \/ UNCHANGED <<tgt, tgtEvent>>
  BY <1>4, <1>5, SoundTargets DEF CleanupDelete
<1>7. HashesTell' /\ TargetsSeen' /\ KeepsTargets
  BY <1>1, <1>2, <1>6, TargetWritten, TargetsAlone
<1>8. InOrder'
  BY <1>1 DEF Resting, Background, InOrder
<1>9. x \in BundleType /\ x.uid >= 1
  BY <1>1, <1>3 DEF TypeOK, Resting, Background, HaveUIDs
<1>10. r \in uncleaned' \/ Empty(x, tgt'[r])
  <2>1. CASE uncleaned' = uncleaned \cup {r}
    BY <2>1
  <2>2. x.uid # 0
    BY <1>9, SpecParts
  <2>3. NoTarget.owner = 0
    BY DEF NoTarget
  <2>4. ASSUME NEW u \in Deleted(t), WriteTarget(r, u)
        PROVE  Empty(x, tgt'[r])
    <3>1. tgt'[r] = u
      BY <2>4 DEF WriteTarget, TypeOK
    <3>2. u = NoTarget \/ u.deleting
      BY <1>5, DeletedType DEF TargetType
    <3> QED BY <2>2, <2>3, <3>1, <3>2 DEF Empty
  <2>5. CASE ~tgt[r].exists /\ UNCHANGED <<tgt, tgtEvent, faults>>
    <3>1. tgt'[r] = NoTarget
      BY <1>2, <2>5 DEF HashesTell
    <3> QED BY <2>2, <2>3, <3>1 DEF Empty
  <2> QED BY <1>4, <2>1, <2>4, <2>5 DEF CleanupDelete
<1>11. ASSUME NEW q \in Resources \ desired, Tended(q), CleanedUpTo(q)',
              ~CleanedUpTo(q)
       PROVE  Cleaned(x, q)'
  <2>1. q = r
    BY <1>1, <1>2, <1>11 DEF CleanedUpTo
  <2> QED BY <1>10, <2>1 DEF Cleaned, Empty
<1>12. \A q \in Resources \ desired :
           Tended(q) /\ CleanedUpTo(q)' /\ ~CleanedUpTo(q) => Cleaned(x, q)'
  BY <1>11
<1> QED BY <1>1, <1>3, <1>7, <1>8, <1>12, LoopStep DEF PastBuild

LEMMA NextKindStep ==
    ASSUME TypeOK, Resting, NextKind
    PROVE  Resting'
<1>1. /\ pc = "cleanup" /\ old = {}
      /\ UNCHANGED <<bundle, bundleC, srcC, nsC, tgt, tgtC, tgtEvent, queued, b,
                     res, desired, want, old, cur, uncleaned>>
      /\ \/ kind = "ConfigMap" /\ kind' = "Secret" /\ pc' = "list"
         \/ /\ kind = "Secret" \/ ~SecretTargetsEnabled
            /\ pc' = "apply" /\ kind' = kind
  BY DEF NextKind, api, caches
<1>2. HashesTell' /\ TargetsSeen' /\ KeepsTargets
  BY <1>1, TargetsAlone DEF Resting, Background
<1>3. InOrder'
  BY <1>1 DEF Resting, Background, InOrder
<1>4. PICK x : x = b
  OBVIOUS
<1>5. \A r \in Resources : CleanedUpTo(r)' => CleanedUpTo(r)
  BY <1>1 DEF CleanedUpTo
<1>6. desired \ (want' \cup cur') = {}
  BY <1>1 DEF Resting, Background, InOrder
<1> QED BY <1>1, <1>2, <1>3, <1>4, <1>5, <1>6, LoopStep DEF PastBuild

\* ApplyTarget skips the patch only if the target is up to date or has an event on
\* its way: its hash annotation names the present versions, the controller's keys
\* are those of the spec, and these hold what the annotation names.
LEMMA ApplyTargetStep ==
    ASSUME TypeOK, Whole, Resting, NEW r \in Resources, ApplyTarget(r)
    PROVE  Resting'
<1>1. /\ pc = "apply" /\ pc' \in {"apply", "patch"} /\ want' = want \ {r}
      /\ UNCHANGED <<bundle, bundleC, srcC, nsC, tgt, tgtC, tgtEvent, queued, b,
                     res, desired, old, kind, uncleaned>>
      /\ IF tgtC[r].exists /\ ~NeedsUpdate(tgtC[r])
         THEN pc' = pc /\ cur' = cur
         ELSE pc' = "patch" /\ cur' = {r}
  BY DEF ApplyTarget, api, caches
<1>2. /\ HashesTell /\ TargetsSeen /\ cur = {}
      /\ HashesTell' /\ TargetsSeen' /\ KeepsTargets
  BY <1>1, TargetsAlone DEF Resting, Background, InOrder
<1>3. InOrder'
  BY <1>1, <1>2 DEF Resting, Background, InOrder
<1>4. PICK x : x = b
  OBVIOUS
<1>5. x \in BundleType /\ x.uid >= 1 /\ x.uid \notin {0, Foreign}
  BY <1>1, <1>4, SpecParts DEF TypeOK, Resting, Background, HaveUIDs, Foreign
<1>6. ASSUME ~queued, pc' = "apply", r \in desired
      PROVE  Served(x, r)'
  <2>1. CanResolve(x.spec) /\ res = VersionsOf(x.spec)
    BY <1>1, <1>4, <1>6 DEF Resting, UpToDate, HasResolved, PastBuild
  <2>2. res # NoVersion
    <3>1. PICK i \in 1..Len(x.spec.sources) : srcC[x.spec.sources[i]].state = "ok"
      BY <2>1 DEF CanResolve
    <3>2. x.spec.sources[i] \in Sources
      BY <1>5, SpecParts
    <3>3. res[x.spec.sources[i]] = srcC[x.spec.sources[i]].ver
      BY <2>1, <3>1, <3>2 DEF VersionsOf, Reads
    <3>4. srcC[x.spec.sources[i]].ver > 0
      BY <3>2 DEF Whole, SourcesHaveVersions
    <3>5. NoVersion[x.spec.sources[i]] = 0
      BY <3>2 DEF NoVersion
    <3> QED BY <3>3, <3>4, <3>5
  <2>3. /\ tgtC[r].exists /\ tgtC[r].owner = x.uid /\ tgtC[r].hash = res
        /\ tgtC[r].keys = x.spec.keys
    BY <1>1, <1>4, <1>6 DEF NeedsUpdate
  <2>4. x.spec.keys # {}
    BY <1>5, ConstantsAssumption DEF BundleType, SpecType
  <2>5. tgtEvent[r] \/ tgtC[r] = CacheView(r, tgt[r])
    BY <1>2, <1>5, <2>3 DEF TargetsSeen, IsOurs
  <2>6. tgt[r] \in TargetType
    BY DEF TypeOK
  <2>7. ASSUME tgtC[r] = CacheView(r, tgt[r]) PROVE Holds(x, tgt[r])
    <3>1. /\ tgt[r].exists /\ tgt[r].label /\ tgt[r].owner = x.uid
          /\ tgt[r].hash = res /\ tgt[r].keys = x.spec.keys
      BY <2>3, <2>6, <2>7, CachedFields
    <3>2. tgt[r].val = res
      BY <1>2, <2>2, <2>4, <3>1 DEF HashesTell
    <3> QED BY <2>1, <3>1, <3>2 DEF Holds
  <2>8. VersionsOf(x.spec)' = VersionsOf(x.spec)
    BY <1>1, <1>5, CachesAlone
  <2> QED BY <1>1, <2>5, <2>7, <2>8 DEF Served, Holds
<1>7. ASSUME ~queued, NEW q \in desired \ (want' \cup cur')
      PROVE  \/ Served(x, q)'
             \/ pc \in {"apply", "patch"} /\ q \notin want \cup cur
  BY <1>1, <1>2, <1>6, <1>7
<1>8. \A q \in Resources : CleanedUpTo(q)' => CleanedUpTo(q)
  BY <1>1 DEF CleanedUpTo
<1> QED BY <1>1, <1>2, <1>3, <1>4, <1>7, <1>8, LoopStep DEF PastBuild

LEMMA PatchTargetStep ==
    ASSUME TypeOK, TypeOK', Resting, NEW r \in Resources, PatchTarget(r)
    PROVE  Resting'
<1>1. /\ pc = "patch" /\ r \in cur /\ cur' = {}
      /\ UNCHANGED <<bundle, bundleC, srcC, nsC, tgtC, queued, b, res, desired,
                     want, old, kind, uncleaned>>
  BY DEF PatchTarget
<1>2. HashesTell /\ TargetsSeen /\ (\A q \in cur : q = r)
  BY <1>1 DEF Resting, Background, InOrder
<1>3. PICK t : t = Applied(tgt[r], b.uid, b.spec.keys, res)
  OBVIOUS
<1>4. /\ t.exists /\ t.label /\ t.owner = b.uid /\ t.keys = b.spec.keys
      /\ t.val = res /\ Sound(t)
  BY <1>3 DEF Applied, Sound, TypeOK, TargetType
<1>5. WriteTarget(r, t) \/ UNCHANGED <<tgt, tgtEvent>>
  BY <1>3 DEF PatchTarget
<1>6. HashesTell' /\ TargetsSeen' /\ KeepsTargets
  BY <1>1, <1>2, <1>4, <1>5, TargetWritten, TargetsAlone
<1>7. CASE FailWith("SyncTargetFailed", TRUE)
  BY <1>1, <1>6, <1>7, FailStep
<1>8. CASE Accepts(r) /\ WriteTarget(r, t) /\ pc' = "apply"
  <2>1. InOrder'
    BY <1>1, <1>8 DEF Resting, Background, InOrder
  <2>2. PICK x : x = b
    OBVIOUS
  <2>3. x \in BundleType
    BY <2>2 DEF TypeOK
  <2>4. ASSUME ~queued PROVE Served(x, r)'
    <3>1. res = VersionsOf(x.spec)
      BY <1>1, <2>2, <2>4 DEF Resting, UpToDate, HasResolved, PastBuild
    <3>2. VersionsOf(x.spec)' = VersionsOf(x.spec)
      BY <1>1, <2>3, CachesAlone
    <3>3. tgt'[r] = t
      BY <1>8 DEF WriteTarget, TypeOK
    <3> QED BY <1>4, <2>2, <3>1, <3>2, <3>3 DEF Served, Holds
  <2>5. ASSUME ~queued, NEW q \in desired \ (want' \cup cur')
        PROVE  \/ Served(x, q)'
               \/ pc \in {"apply", "patch"} /\ q \notin want \cup cur
    <3>1. CASE q = r
      BY <2>4, <2>5, <3>1
    <3>2. CASE q # r
      BY <1>1, <1>2, <2>5, <3>2
    <3> QED BY <3>1, <3>2
  <2>6. \A q \in Resources : CleanedUpTo(q)' => CleanedUpTo(q)
    BY <1>1, <1>8 DEF CleanedUpTo
  <2> QED BY <1>1, <1>6, <1>8, <2>1, <2>2, <2>5, <2>6, LoopStep DEF PastBuild
<1> QED BY <1>3, <1>7, <1>8 DEF PatchTarget

\* What the worker has done when it comes to report.
LEMMA WorkDone ==
    ASSUME TypeOK, Resting, ~queued, pc = "apply", want = {},
           NEW x, x = b
    PROVE  /\ Serves(x) /\ CanResolve(x.spec) /\ ~Refuses(x.spec)
           /\ res = VersionsOf(x.spec) /\ bundleC = x
<1>1. UpToDate /\ InOrder
  BY DEF Resting, Background
<1>2. /\ CanResolve(x.spec) /\ ~Refuses(x.spec) /\ res = VersionsOf(x.spec)
      /\ desired = {r \in Resources : Chosen(x.spec, r)} /\ bundleC = x
  BY <1>1 DEF UpToDate, HasResolved, ReadsBundle, PastBuild
<1>3. \A r \in Resources : Chosen(x.spec, r) => Served(x, r)
  <2>1. cur = {}
    BY <1>1 DEF InOrder
  <2> QED BY <1>1, <1>2, <2>1 DEF UpToDate, HasApplied
<1>4. ASSUME NEW r \in Resources, Tended(r), ~Chosen(x.spec, r)
      PROVE  Cleaned(x, r)
  <2>1. KindOf(r) \in {"ConfigMap", "Secret"} /\ kind \in {"ConfigMap", "Secret"}
    BY ResourceParts, ConstantsAssumption DEF TypeOK
  <2>2. CleanedUpTo(r)
    BY <1>1, <1>4, <2>1 DEF InOrder, CleanedUpTo, Tended
  <2> QED BY <1>1, <1>2, <1>4, <2>2 DEF UpToDate, HasCleaned, PastBuild
<1> QED BY <1>2, <1>3, <1>4 DEF Serves

LEMMA FinishReconcileStep ==
    ASSUME TypeOK, TypeOK', Resting, FinishReconcile
    PROVE  Resting'
<1>1. /\ pc = "apply" /\ want = {}
      /\ UNCHANGED <<bundle, bundleC, srcC, nsC, tgt, tgtC, tgtEvent, uncleaned>>
  BY DEF FinishReconcile, api, caches
<1>2. HashesTell' /\ TargetsSeen' /\ KeepsTargets
  BY <1>1, TargetsAlone DEF Resting, Background
<1>3. PICK x : x = b
  OBVIOUS
<1>4. x \in BundleType /\ x.uid >= 1
  BY <1>1, <1>3 DEF TypeOK, Resting, Background, HaveUIDs
<1>5. SameView(x.spec)
  BY <1>1, <1>4, CachesAlone
<1>6. ASSUME ~queued PROVE Serves(x)'
  <2>1. Serves(x)
    BY <1>1, <1>3, <1>6, WorkDone
  <2> QED BY <1>1, <1>2, <1>4, <1>5, <2>1, ServesKept
<1>7. CASE ~CAVersionChanged /\ HasSyncedCondition /\ Done(FALSE)
  <2>1. pc' = "idle" /\ queued' = queued /\ ~certs' /\ kind' = "ConfigMap" /\ cur' = {}
    BY <1>7 DEF Done, ResetLocals, TypeOK
  <2>2. CacheIsBehind' /\ HaveUIDs'
    BY <1>1, <2>1, BundlesAlone DEF Resting, Background
  <2>3. InOrder'
    BY <2>1 DEF InOrder
  <2>4. ASSUME ~queued' PROVE UpToDate'
    <3>1. /\ CanResolve(x.spec) /\ ~Refuses(x.spec)
          /\ res = VersionsOf(x.spec) /\ bundleC = x
      BY <1>1, <1>3, <2>1, <2>4, WorkDone
    <3>2. PICK st : st = b.status
      OBVIOUS
    <3>3. TellsTruth(x, st)
      BY <1>3, <1>7, <3>1, <3>2
         DEF TellsTruth, Says, CAVersionChanged, HasSyncedCondition
    <3>4. TellsTruth(x, st)'
      BY <1>4, <1>5, <3>3, TruthKept
    <3>5. bundleC' = x /\ x.status = st
      BY <1>1, <1>3, <3>1, <3>2
    <3>6. HasReported'
      BY <1>6, <2>1, <2>4, <3>4, <3>5 DEF HasReported
    <3> QED BY <2>1, <3>6
            DEF UpToDate, ReadsBundle, ReadsSources, HasResolved, HasCleaned,
                HasApplied, WillReport, PastBuild
  <2> QED BY <1>2, <2>2, <2>3, <2>4 DEF Resting, Background
<1>8. CASE /\ pc' = "status"
           /\ patch' = [cond |-> NewCond("True", "Synced"), ca |-> res[DefaultCAs]]
           /\ UNCHANGED <<queued, b, cur>>
  <2>1. CacheIsBehind' /\ HaveUIDs'
    BY <1>1, <1>8, BundlesAlone DEF Resting, Background
  <2>2. InOrder'
    BY <1>1, <1>8 DEF Resting, Background, InOrder
  <2>3. ASSUME ~queued' PROVE UpToDate'
    <3>1. /\ CanResolve(x.spec) /\ ~Refuses(x.spec)
          /\ res = VersionsOf(x.spec) /\ bundleC = x
      <4>1. ~queued
        BY <1>8, <2>3
      <4> QED BY <1>1, <1>3, <4>1, WorkDone
    <3>2. PICK st : st = patch'
      OBVIOUS
    <3>3. /\ st.cond.status = "True" /\ st.cond.reason = "Synced"
          /\ st.cond.observed = x.gen /\ st.ca = res[DefaultCAs]
      BY <1>3, <1>8, <3>2 DEF NewCond
    <3>4. TellsTruth(x, st)
      BY <3>1, <3>3 DEF TellsTruth, Says
    <3>5. TellsTruth(x, st)'
      BY <1>4, <1>5, <3>4, TruthKept
    <3>6. bundleC' = x /\ b' = x
      BY <1>1, <1>3, <1>8, <3>1
    <3>7. WillReport'
      BY <1>6, <1>8, <2>3, <3>2, <3>5, <3>6 DEF WillReport
    <3> QED BY <1>8, <3>6, <3>7
            DEF UpToDate, ReadsBundle, ReadsSources, HasResolved, HasCleaned,
                HasApplied, HasReported, PastBuild
  <2> QED BY <1>2, <2>1, <2>2, <2>3 DEF Resting, Background
<1> QED BY <1>7, <1>8 DEF FinishReconcile

LEMMA PatchStatusStep ==
    ASSUME TypeOK, TypeOK', Resting, PatchStatus
    PROVE  Resting'
<1>1. /\ pc = "status"
      /\ UNCHANGED <<bundleC, srcC, nsC, tgt, tgtC, tgtEvent, uncleaned>>
  BY DEF PatchStatus, caches
<1>2. HashesTell' /\ TargetsSeen' /\ KeepsTargets
  BY <1>1, TargetsAlone DEF Resting, Background
<1>3. CASE /\ \/ bundle' = bundle
              \/ bundle' = [bundle EXCEPT !.status = patch]
           /\ Done(TRUE)
  BY <1>1, <1>3, ErrorStep
<1>4. CASE bundle' = [bundle EXCEPT !.status = patch] /\ Done(failed)
  <2>1. /\ pc' = "idle" /\ ~certs' /\ kind' = "ConfigMap" /\ cur' = {}
        /\ ~queued' => ~queued /\ ~failed
    BY <1>4 DEF Done, ResetLocals
  <2>2. CacheIsBehind' /\ HaveUIDs'
    BY <1>1, <1>4, <2>1, BundlesAlone DEF Resting, Background
  <2>3. InOrder'
    BY <2>1 DEF InOrder
  <2>4. ASSUME ~queued' PROVE UpToDate'
    <3>1. PICK x : x = b
      OBVIOUS
    <3>2. x \in BundleType /\ x.uid >= 1
      BY <1>1, <3>1 DEF TypeOK, Resting, Background, HaveUIDs
    <3>3. PICK st : st = patch
      OBVIOUS
    <3>4. bundleC = x /\ Serves(x) /\ TellsTruth(x, st)
      BY <1>1, <2>1, <2>4, <3>1, <3>3 DEF Resting, UpToDate, ReadsBundle, WillReport
    <3>5. SameView(x.spec)
      BY <1>1, <3>2, CachesAlone
    <3>6. Serves(x)' /\ TellsTruth(x, st)'
      BY <1>1, <1>2, <3>2, <3>4, <3>5, ServesKept, TruthKept
    <3>7. bundle'.status = st /\ bundleC' = x
      BY <1>1, <1>4, <3>3, <3>4 DEF TypeOK, BundleType
    <3>8. HasReported'
      BY <3>6, <3>7 DEF HasReported
    <3> QED BY <2>1, <3>8
            DEF UpToDate, ReadsBundle, ReadsSources, HasResolved, HasCleaned,
                HasApplied, WillReport, PastBuild
  <2> QED BY <1>2, <2>2, <2>3, <2>4 DEF Resting, Background
<1> QED BY <1>3, <1>4 DEF PatchStatus

-----------------------------------------------------------------------------
(* Theorems *)

LEMMA RestStep ==
    ASSUME TypeOK, TypeOK', Whole, Resting, [Next]_vars
    PROVE  Resting'
<1>1. CASE Reconcile
  BY <1>1, GetBundleStep, AddToCertPoolStep, ListNamespacesStep, ListTargetsStep,
     CleanupTargetStep, CleanupDeleteStep, NextKindStep, ApplyTargetStep,
     PatchTargetStep, FinishReconcileStep, PatchStatusStep DEF Reconcile
<1>2. CASE UNCHANGED vars
  <2>1. UNCHANGED <<bundle, bundleC, nsC, srcC, tgt, tgtC, tgtEvent, worker>>
    BY <1>2 DEF vars, api, caches, locals, worker
  <2>2. CacheIsBehind' /\ HaveUIDs' /\ HashesTell' /\ TargetsSeen' /\ KeepsTargets
    BY <2>1, TargetsAlone
       DEF Resting, Background, CacheIsBehind, HaveUIDs, worker, locals
  <2> QED BY <2>1, <2>2, UnseenStep
<1> QED BY <1>1, <1>2, InformerStep, UsersStep, KubernetesStep, RestartStep
        DEF Next

LEMMA AlwaysResting == Spec => [](TypeOK /\ Resting)
<1>1. Init => TypeOK /\ Whole /\ Resting
  BY TypeInit, WholeInit, RestInit
<1>2. TypeOK /\ Whole /\ Resting /\ [Next]_vars => TypeOK' /\ Whole' /\ Resting'
  BY TypeStep, WholeStep, RestStep
<1> QED BY <1>1, <1>2, PTL DEF Spec

\* At rest caches and API server agree, so that what the invariant says of the
\* caches is so.
LEMMA AtRest ==
    ASSUME TypeOK, Resting, Quiescent, bundle.exists
    PROVE  /\ CanResolve(bundle.spec) <=> Resolvable
           /\ VersionsOf(bundle.spec) = VersionsNow
           /\ \A r \in Resources : Chosen(bundle.spec, r) <=> Selected(r)
           /\ Serves(bundle) /\ TellsTruth(bundle, bundle.status)
           /\ \A r \in Resources : ~tgtEvent[r]
<1>1. \A s \in Sources : SourceNow(s) = srcC[s]
  BY DEF Quiescent, SourceNow
<1>2. \A i \in 1..Len(bundle.spec.sources) : bundle.spec.sources[i] \in Sources
  BY SpecParts DEF TypeOK
<1>3. CanResolve(bundle.spec) <=> Resolvable
  <2>1. \A q : q \in StatesNow <=> \E i \in 1..Len(bundle.spec.sources) :
                                 q = srcC[bundle.spec.sources[i]].state
    BY <1>1, <1>2 DEF StatesNow
  <2> QED BY <2>1 DEF CanResolve, Resolvable
<1>4. VersionsOf(bundle.spec) = VersionsNow
  BY <1>1 DEF VersionsOf, VersionsNow
<1>5. \A r \in Resources : Chosen(bundle.spec, r) <=> Selected(r)
  BY DEF Quiescent, Chosen, Selected
<1>6. Serves(bundle) /\ TellsTruth(bundle, bundle.status)
  <2>1. pc = "idle" /\ ~queued /\ bundleC = bundle
    BY DEF Quiescent
  <2> QED BY <2>1 DEF Resting, UpToDate, HasReported
<1> QED BY <1>3, <1>4, <1>5, <1>6 DEF Quiescent

\* No lost wake-up, whatever sources, specs, namespaces and bounds there are: a
\* controller at rest has brought every selected target to the present sources and
\* the present spec and says so, or says why it could not.
THEOREM RestsSynced == Spec => []RestIsSynced
<1>1. ASSUME TypeOK, Resting PROVE RestIsSynced
  <2> SUFFICES ASSUME Quiescent, bundle.exists
               PROVE  IF Resolvable
                      THEN IF SecretsRefused
                           THEN Observed("False", "SecretTargetsDisabled")
                           ELSE Synced
                      ELSE Observed("False", "SourceNotFound")
    BY DEF RestIsSynced
  <2>1. Refuses(bundle.spec) <=> SecretsRefused
    BY DEF Refuses, SecretsRefused
  <2>2. ASSUME Resolvable, ~SecretsRefused PROVE Synced
    <3>1. \A r \in Resources : Selected(r) => InSync(r)
      BY <1>1, <2>1, <2>2, AtRest DEF Serves, Served, Holds, InSync
    <3> QED BY <1>1, <2>1, <2>2, <3>1, AtRest
            DEF Synced, TellsTruth, Says, Observed
  <2> QED BY <1>1, <2>1, <2>2, AtRest DEF TellsTruth, Says, Observed
<1> QED BY <1>1, AlwaysResting, PTL

\* A controller at rest has left none of its data in targets that are not selected
\* any more, but for targets whose own cleanup has failed in its last reconcile.
THEOREM RestsClean == Spec => []RestIsClean
<1>1. TypeOK /\ Resting => RestIsClean
  <2> SUFFICES ASSUME TypeOK, Resting, Quiescent, bundle.exists, Resolvable,
                      ~SecretsRefused, NEW r \in Resources \ uncleaned, Tended(r),
                      ~Selected(r)
               PROVE  CleanedUp(r)
    BY DEF RestIsClean, Tended
  <2>1. ~Refuses(bundle.spec)
    BY DEF Refuses, SecretsRefused
  <2>2. Cleaned(bundle, r) /\ ~tgtEvent[r]
    BY <2>1, AtRest DEF Serves
  <2> QED BY <2>2 DEF Cleaned, Empty, CleanedUp
<1> QED BY <1>1, AlwaysResting, PTL

=============================================================================
