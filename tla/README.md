# trust-manager: a TLA+ model

trust-manager distributes certificate bundles in a Kubernetes cluster. A
cluster-scoped `Bundle` lists sources (ConfigMaps and Secrets of the trust
namespace, inline PEM, the default CA package) and a target; the controller
writes the certificates of all sources into a ConfigMap and/or Secret with the
Bundle's name in every selected namespace, and reports in the Bundle's status.

## Inventory

| Component | State | Operations | Interacts with |
|---|---|---|---|
| Bundle controller (`pkg/bundle`) | informer caches of Bundles, Namespaces, source objects, target metadata; one work queue | `Reconcile`; event mappings of six watches | API server, source builder, target reconciler |
| Target reconciler (`pkg/bundle/internal/target`) | none | `ApplyTarget`, `CleanupTarget`, `needsUpdate`, `TrustBundleHash` | target cache, API server (forced server-side apply) |
| Source builder (`pkg/bundle/internal/source`) | the default package, loaded at start | `BuildBundle` | source cache, certificate pool |
| Certificate pool (`pkg/util`, `pkg/compat`) | certificates by hash | `AddCertsFromPEM`, `PEM` | - |
| Truststore encoders (`.../truststore`) | none | JKS, PKCS#12 `Encode` | certificate pool |
| Default CA package (`pkg/fspkg`) | file on disk | `LoadPackage`, `Validate` | certificate pool |
| Admission webhook (`pkg/webhook`) | none | `validate` of Bundle and ClusterBundle | API server; keeps Bundles away that the source builder cannot read |
| API conversion (`pkg/apis/trust/v1alpha1`) | none | `ConvertTo`, `ConvertFrom` | migration controller |
| Migration controller (`pkg/bundle/controller`) | informer caches of Bundles and ClusterBundles; one work queue | `Reconcile`: keep the converted ClusterBundle, let go of it once a user claims it | API server, conversion; not registered by the command yet |
| Debian package builder (`trust-packages/debian`) | none | copies JSON files | read at start by the controller |
| Command (`cmd/trust-manager`) | flags | start, leader election | all |

What is hard: the worker reads caches that lag behind the API server and behind
its own writes; users, third parties, the garbage collector and the namespace
controller change the same objects meanwhile; each API call may fail, with or
without taking effect; the process may stop anywhere; every write of the
controller wakes the controller again. The list of `hazards` in `PROJECT.json`
names each of these at its line.

What makes it correct: after the last change the controller comes to rest, and
at rest every selected target holds the present content of all sources, old
targets are cleaned up, and the status says so for the present generation, or
says why not; targets are never written from a part of the sources and never go
back to older content; a failing target does not keep others from being served;
nothing of a deleted Bundle stays behind. What the webhook admits, the source
builder understands and the conversion turns into an equivalent, admissible
ClusterBundle; a Bundle that says it is migrated can be deleted without loss.

## Modules

### BundleController

One Bundle, any number of namespaces, sources and specs. Two Bundles share no
target and the work queue runs a key only once at a time, so Bundles do not
influence each other.

State and code:

- `bundle`, `ns`, `src`, `tgt`: the objects in the API server. A source has a
  version (the number of edits) and is fine, without certificates, missing, or
  unparsable. A target has what `needsUpdate` and server-side apply look at:
  controller, label, hash annotation, the data keys managed by trust-manager and
  those of others, and the versions its content comes from.
- `bundleC`, `nsC`, `srcC`, `tgtC`: the informer caches. The target cache holds
  metadata of labelled objects in the allowed namespaces only (`CacheView`). The
  default CA package is a source whose "cache" is what the process loaded at
  start.
- `tgtEvent`: watch events of a target on their way which carry, in the old or
  new version, an owner reference to the Bundle. Caches jump to the present
  object instead of replaying each event. For Bundle, namespaces and sources
  this loses nothing, since the worker acts on cached values only. Targets it
  writes past the cache, so events of versions in between count.
- `queued`: the key is in the work queue. A failed reconcile puts it back; the
  back-off is only a delay and is left out.
- `pc` and the variables after it: the worker in `Reconcile`.
- `uncleaned`: a history variable, which only a property reads: the targets whose
  cleanup failed in the last reconcile.

Actions of the worker, in the order of the code: `GetBundle` (cache read, early
return), `AddToCertPool` once per source (`BuildBundle`, with the `NotFound` and
other-error returns), `ListNamespaces` (empty pool, Secret targets disabled,
invalid selector, `targetResources`), `ListTargets` and `CleanupTarget` /
`CleanupDelete` for each kind (`NextKind`), `ApplyTarget` (cache read and
`needsUpdate`) and `PatchTarget` for each target, in any order,
`FinishReconcile`, and `PatchStatus`. Each write may be refused by the server
(object of another controller, namespace not active), fail, or be applied with
its answer lost. `Restart` may happen anywhere.

Informers: `SyncBundle`, `SyncNamespace`, `SyncSource`, `SyncTarget`, each with
its event mapping. Environment: users edit, delete and recreate the Bundle, edit
sources, create, label and delete namespaces; other clients edit, create and
delete target objects; Kubernetes collects objects without owner, empties and
removes terminating namespaces, and ends deletions held up by finalizers.

Abstractions: content as version numbers; one set of data keys for both target
kinds; condition messages, events and logs left out; the reads of a cache cannot
fail (the code's branches for that are unreachable with a started cache);
periodic resyncs left out, as they would only hide a lost wake-up.

### BundleControllerProofs, RestProofs, TargetStoreProofs, TargetRenderingProofs, BundleSourceProofs, ConversionProofs, SelectionProofs, MigrationProofs

TLAPS proofs, see below.

### TargetRendering

One target object, with the detail that `BundleController` leaves out: what goes
into it (`PatchData`: PEM, JKS, PKCS#12 with the encoder that password and
profile choose), what `TrustBundleHash` is made of, which entries server-side
apply keeps, removes and hands over, and how `NeedsUpdate` decides from the hash
annotation and the names of the managed keys. `Edit` changes Bundle or sources,
`Tamper` is another client, `ApplyTarget` the controller, with caches up to date
(lagging caches are the subject of `BundleController`). SHA-256 is injective: a
hash is what was hashed, a PEM text is a set of certificates, other text a
sequence of bytes, so that concatenations without separators can coincide. Go
iterates over the maps of the template in any order (`order`), which `Sorted`, the
increasing listing of the names, undoes. `formats` is a history variable, which only
a property reads.

### TargetStore

What the controller promises of its targets, without a controller: a store that
holds in each target nothing or one whole bundle, is written one target at a time
from versions that the sources have had, and never hands out an older version of
a source than any target holds. `BundleController` implements it under the
mapping `current` = versions of the sources, `held` = versions in the targets,
`Footprints` = the sets of sources of the specs (`ImplementsStore`). Steps of
informers, of the status and of the queue are stutters of the store.

### Selection

`SelectIn`, the filtering of a list, as a recursive function: it is used wherever
the code drops elements of a slice or a map's keys are listed.

### Conversion

Bundle (v1alpha1), ClusterBundle (v1alpha2) and the conversions between them as
operators. An object is a record with just the fields that are set, as in JSON,
so that "nil" and "absent" are one and omitted fields need no encoding. A text is
its PEM blocks, its length and whether it ends with a newline, which is all that
joining inline sources depends on. `o ++ p` adds to `o` the fields that only `p`
has; loops over lists are
`SelectIn` and recursive functions. Copying of metadata and status by generated
code is the identity because it is one in the code.

### Webhook

`ValidateBundle` and `ValidateClusterBundle`: the validating webhooks and, of the
CRD schemas that the markers in `types_cluster_bundle.go` generate, what decides
whether a converted Bundle is accepted. Validity of selectors and metadata keys
is a bit of the data: the rules are Kubernetes'. `IsBundle` is the schema of Bundle
from `types_bundle.go`: the fields that may be set and those that must be, no empty
strings, 1 to 100 sources, a ConfigMap or a Secret in a target. The API server
checks it before it asks the webhook, so it is an assumption on the inputs; what
the webhook itself has to check, such as one type for each source, is not in it.

### BundleSource

`BuildBundle` as a loop over sources, objects, entries and PEM blocks, each turn
a step (`GetObjects`, `NextObject`, `NextEntry`, `NextBlock`, ...), with every
early return; objects and keys in any order. A Bundle is first submitted
(`Admit`): what the webhook refuses goes no further. `LoadPackage` stands for the
start of the process with its check of the default CA package. The properties
compare the result with definitions that look at all sources at once (`Used`,
`Wanted`, `IsMissing`, `IsInvalid`, `IsTLS`, `HasBadSelector`), and the same
definitions say when a Bundle and its round trip through ClusterBundle are
equivalent. `Convertible` names what the conversion needs beyond admission: keys
that can be keys of data, inline sources that fit into one (`InLineFits`), and an internal
annotation that nobody else sets.

### TrustNamespace

Extends `BundleSource`: a Bundle whose target in the trust namespace may be among
the objects that its sources read. `Publish` writes the target there, users edit
their own entries, and the bundle is built again.

### Migration

The migration controller with one Bundle and the ClusterBundle of its name.
`cb.fields` maps each set field (of the converted spec, plus the annotations and
the owner reference) to its value and managers; `Apply` is forced server-side
apply on it. The worker's steps are `GetBundle`, `GetClusterBundle` (the branch on
the annotation `migrated`), `ApplyClusterBundle` or `UnmanageClusterBundle`, and
`ApplyBundleCondition`; each write may fail with or without effect. Caches jump
to the present object as in `BundleController`; `cbEvent` remembers events that
`Owns` would have mapped. `CollectGarbage` follows the owner reference. Users
edit, delete and recreate the Bundle, and apply or delete the ClusterBundle, also
one that they have taken over before; the history variable `returned`, which only
properties read, keeps that they have given one back. An apply that leaves no field
of `spec` is taken to leave no `spec`.

### MCBundleController, MCTargetRendering, MCBundleSource, MCTrustNamespace, MCMigration

Model values, and the sets of specs and inputs for TLC.

## Runs

| Run | Question | Bounds |
|---|---|---|
| `sources` | do edits of sources, of the list of sources and of the default package reach the target, whole and in order, and does the status stay true with failures of any call and with refused Bundles? | 1 namespace, 2 sources and the default package, 4 specs, 2 edits, 1 fault or restart |
| `namespaces` | do targets follow labels, selector, target kind, deletion and creation of namespaces, and does a cleanup that fails hold up no other? | 1 namespace, both kinds, 2 changes, 1 fault (also of the cleanup) or restart |
| `tampering` | is every change by third parties repaired, and is a recreated Bundle (new UID) served in spite of late writes for the old one? | 1 namespace, 2 keys, finalizers, 3 changes |
| `liveness` | does a target that always fails starve others, do targets move as the store of `TargetStore`, and is a namespace outside `--target-namespaces` left alone? | 3 namespaces, 2 allowed, 1 change |
| `deletion` | does nothing of a deleted Bundle stay, and does the controller come to rest? | 2 changes, 1 fault or restart |
| `rendering` | does the hash see what it must and miss only changes of the formats, and does a target need no update right after one? | 2 pools, 2 kinds, 3 keys, 96 inputs, 2 changes |
| `build` | is the bundle the union of the sources, whatever the order; is everything that is admitted understood, and converted to something equivalent and admissible? | 1 to 3 sources, 7 clusters, 2 packages, 9 kinds of PEM data; ten odd sources; several hundred targets |
| `migration` | is a Bundle in the end converted or migrated, does it say which, and is it safe to delete when it says so? | 2 specs, 3 manifests, 3 changes, 1 fault or restart |
| `profile` | (violation) is the target up to date after a change of the PKCS#12 profile? | 3 inputs, 2 changes |
| `cleanup_race` | (violation) does `CleanupTarget` delete only empty objects? | 2 changes |
| `adoption` | (violation) does a migrated ClusterBundle hold what its user applied? | 1 change |
| `self_feeding` | (violation) does a Bundle hold only what users provide? | 4 Bundles, 1 change |

`MaxUser` bounds the changes by users and third parties, `MaxFaults` the failed
calls and restarts; both are budgets that every interleaving may spend at any
point (`MaxEdits` in `TargetRendering` and `TrustNamespace`). `MaxInLine` stands
for 1 MiB; a text is as long as it has blocks, so that two sources can be within
it and their concatenation not. Two changes suffice for one to arrive while the reaction to the other is
under way, which is what the races need; recreating a Bundle takes two changes
and racing with it a third. `UserOps` and `FaultSites` choose the kinds of change
and of failure of a run. Deadlock is not checked where the system may stop:
`BuildBundle` returns, and a controller at rest with an
unchanging cluster has nothing to do, and `ComesToRest` says that this is how it
should end.

`RestIsSynced` is about states in which nothing is queued, running or on its way
(`Quiescent`): what is wrong in such a state stays wrong. `RestIsClean` excuses a
target whose own cleanup failed in the last reconcile (`uncleaned`), since the code
logs such an error and does not put the key back, and nothing else: all other
targets are clean, and so is this one after the next reconcile in which the calls
get through. A controller that gave up its cleanup at the first such error would
violate it (the mutant `CleanupTargetAborts`).

`SafeToDelete` is about the first Bundle of its name (`uid = 1`). For a Bundle that
was created again it does not hold: with four changes TLC finds a condition
`Migrated` on its way that is about the Bundle deleted before. The status is
written by name, so it lands on the new one, which is not migrated yet.

Users of `migration` may also remove the annotation again, or delete a ClusterBundle
that was theirs. The controller does not watch what it does not own, so nothing
wakes it: the condition `Migrated` is out of date until another event, at which it
takes the ClusterBundle back. `SafeToDelete` does not hold from then on and is
asked for as long as no user has done so (`~returned`). `RestIsConsistent` holds
throughout, except that the ClusterBundle of a migrated Bundle need not be a user's
any more once it has been given back (`Released`).

`migration` has three changes so that the Bundle can be deleted and created again
while the takeover of its ClusterBundle is under way. The patch that gives up the
fields can then meet a ClusterBundle that is gone, and creates an empty one, on
which the new Bundle is said to be migrated. `Managed` and `Released` both refuse
this state; the controller must not come to rest in it.

Fairness (`FairSpec`): weak fairness of the worker, each informer and
Kubernetes; none for users, faults and restarts, which are bounded. Two races
are left to chance and get strong fairness: the order of the targets (Go
randomises map iteration) and whether the Bundle informer delivers a status
write before the worker takes up the event before it. Without the second, TLC
shows a loop: two writes of the same condition with different transition times
follow each other through cache and API server, each reconcile copying the time
of the write before last.

`Migration` (`FairSpec`): weak fairness of the worker, of both informers and of the
garbage collector; none for users, faults and restarts. The same loop of
transition times exists here, as the condition is written in every reconcile.
`Converges` therefore asks that objects and condition, up to the time, settle, and
not that the controller rests; it needs no strong fairness.

### Findings

- `cleanup_race`: `CleanupTarget` patches, finds no data in the answer, and
  deletes by name without a precondition. Data that another client adds between
  the two calls is lost with the object.
- `profile`: `TrustBundleHash` does not cover the PKCS#12 profile. A target keeps
  the store of the old profile until something else changes. Other changes are
  seen: as long as the formats are those of the last patch, the same property holds
  (`UpToDateInItsFormats`, in `rendering`, proved as `StaleOnlyInFormats`).
- `adoption`: the migration controller decides on the cached ClusterBundle and then
  applies with force. If the user's annotation and fields arrive in between, it
  takes the fields over, removes them one reconcile later together with its own,
  and reports `Migrated`.
- `self_feeding`: the webhook forbids the own target as a source by name and key.
  With `includeAllKeys`, or by a label that the target's template sets, it can be
  one, and certificates that users remove stay in the bundle.

Observations on the way, without a run: the condition `Migrated` ("this resource
can be safely deleted") can be written, late, to a Bundle that was deleted and
created again under the same name, and stays there until the next reconcile,
while the ClusterBundle has an owner reference (see `SafeToDelete`); inline sources are limited one by one in
a Bundle and together in a ClusterBundle, so that an admitted Bundle may convert
to a ClusterBundle that is refused (`InLineFits`); the transition time of a condition that
did not change moves if a reconcile starts before the worker's own last status
write is in its cache; the hash has no separators, so that an
entry of the template that moves from annotations to labels is not seen;
`certAlias` keeps 32 bits of the hash, and certificates of one subject that agree
in these replace each other in the JKS store (`CertsCurrent` asks for one entry
per alias); `AddCertsFromPEM` returns no error for data whose certificates are
all expired, although its comment says so (`build` has such data).

## Proofs

`BundleControllerProofs` proves for all values of the constants that satisfy
`ConstantsAssumption`:

- `TypeCorrect`: `Spec => []TypeOK`. `TypeOK` is inductive; the proof has one
  step per action over lemmas on the types of the objects that the operators
  make.
- `NeverRollsBack`: `Spec => NoRollback`. The step needs that what the worker
  holds is at least as new as what the targets hold. `VersionOrder` adds: the
  source cache is not ahead of the API server, neither the worker nor any target
  is ahead of the cache, and no target is ahead of a version the worker has
  read. It is inductive because only the worker writes this data, sources are
  read afresh in each reconcile, and caches do not move back, also in a restart.

- `NeverLeavesTargetNamespaces`: `Spec => []StaysInTargetNamespaces`. `Confined`
  adds that cached targets and the targets the worker is about to write or clean
  up are in allowed namespaces. Old targets are found in the cache, which is why
  the restriction of the cache matters.
- `AlwaysWholeBundles`: `Spec => []WholeBundles`. `Whole` adds that the worker
  holds a version of just those sources that it has read, of all sources of its
  spec once it is past `BuildBundle`, and that versions start at 1.

Each proof has one step per action.

`RestProofs` proves, for the same constants:

- `RestsSynced`: `Spec => []RestIsSynced`, and
- `RestsClean`: `Spec => []RestIsClean`, with failures of every call, those of
  `CleanupTarget` included.

  A state at rest says nothing about the one before it, so neither property is
  inductive. The invariant `Resting` follows the reconcile that leads to rest. Its
  part `UpToDate` holds unless the key is queued, and says for each place of the
  worker that what it has found out agrees with the caches as they are now: its
  Bundle is the cached one (`ReadsBundle`), the sources read so far have the
  versions it has noted (`ReadsSources`), the selected namespaces are those it has
  listed (`HasResolved`), obsolete targets it has passed are empty or among those
  whose cleanup failed (`HasCleaned`),
  targets it has applied are current (`HasApplied`), the status it is about to send
  is true (`WillReport`) and so is the one it has left (`HasReported`). Informers
  break none of this without queueing the key, which is what the mappings of
  `SyncNamespace` (old or new labels) and `SyncSource` are for. Of targets, which
  change behind the worker's back, the parts say: as the worker has left it, or an
  event is on its way (`tgtEvent`).
  `Background` holds always: Bundles in the cache are old ones and generations and
  UIDs only grow, so that a Bundle never changes back to what the cache holds
  (`CacheIsBehind`); a cached target that is the Bundle's is the present one or has
  an event to come (`TargetsSeen`); and the hash annotation does not lie about data
  that is still marked as managed (`HashesTell`), which is why `NeedsUpdate` may
  decide from metadata alone. The last needs that a target has a key at all, which
  the API requires and `SpecType` states, and that the hash of a bundle is not that
  of nothing, which `Whole` gives. `Resting` was model-checked with the constants of
  `sources`, `namespaces` and `tampering` before it was proved.

`TargetStoreProofs` proves `ControllerImplementsStore`: `Spec => ImplementsStore`,
the refinement of `TargetStore`. The mapping needs no invariant of its own:
`VersionOrder` gives that a patch writes no older version than any target holds
and none that the sources have not had, `Whole` that it writes one whole bundle.
`NextIsStoreStep` has one step per action; all but the patches, the removals of
targets and the edits of sources are stutters.

`MigrationProofs` proves, for all specs, manifests and bounds:

- `TypeCorrect`: `Spec => []TypeOK`, over lemmas on what server-side apply does to
  the fields of an object and their managers.
- `RestsConsistently`: `Spec => []RestIsConsistent`. Not inductive: a state that is
  at rest and consistent may come from one that is neither. `Settling` says of
  each place of the worker what holds there, provided that nothing is queued or
  on its way: a Bundle in the cache is an old one and never comes back
  (`CacheIsBehind`), the worker has the cached one (`ReadsBundle`), the cached copy
  of an owned ClusterBundle is the present one (`OwnedIsSeen`), the
  worker's branch is the one the annotation asks for (`DecidesRight`), and before
  each write of the condition the ClusterBundle is as that condition says
  (`HasConverted`, `HasReleased`, `HasReported`). `TakenOver` adds that a
  ClusterBundle which a user has taken over stays the user's unless one gives it
  back: the annotation is never the controller's (`AnnotationIsUsers`), and what
  the cache, the worker and the condition know of it stays true (`SeenIsKept`,
  `DecidedIsKept`, `SaidIsKept`).
- `StaysSafeToDelete`: `Spec => []SafeToDelete`. `Handover`, which holds until a user
  gives the ClusterBundle back, says that what carries an owner reference before
  the takeover is the first Bundle's, and that once the worker has seen the
  annotation neither it nor a late write brings the reference back.

`BundleSourceProofs` proves, for all Bundles, objects, packages and filters that
`InputsAssumption` admits (it states the types of the API: Bundles have the form of
`IsBundle`, lists are sequences, a ConfigMap is no TLS Secret):

- `BuildsTheUnion` (`IsUnionOfSources`), `NeverBlamesWrongly` (`BlamesARealFault`),
  `ReportsThePackage` (`ReportsDefaultCAs`), `PackageNeverFails`
  (`AcceptedPackageIsValid`) and `WebhookSuffices` (`AdmittedIsUnderstood`), all from
  one invariant, `Building`. Its core is `ReadSoFar`: every source before the one
  at hand is without fault and all its blocks are added or filtered out; of the
  one at hand every object, entry and block is so too, or still to be read. With
  `BelongsToSource` (what is to be read is the source's) and `PoolIsWanted` this
  makes the pool the union when the last source is done, in every order. Objects
  and entries are sets that shrink and blocks a sequence that loses its head, so
  the induction is that over steps.
- The first attempt failed on `BlamesARealFault`: with one object of a selector
  broken and another without the key, the error depends on the order, and the
  property then took only the missing key for a fault. Both are faults; the
  property says so now, and `build` has such a cluster.

`SelectionProofs` proves what `SelectIn` does to a list of any length: the selected
elements at increasing positions (`SelectionProperties`). The library's induction
theorems cannot be instantiated by the provers used here. Instead, that the
recursive function is defined (`SelectionExists`), and each fact about all its
values, is proved from a smallest counterexample: `LeastNatural` gives one for any
set of naturals, and for the one before it the claim holds. `JoiningExists` and
`TextsJoin` do the same for the joining of inline texts.

`ConversionProofs` proves, for all Bundles that satisfy `IsBundle`, that the webhook
admits and that are `Convertible`, from the invariant `Building` (only admitted
Bundles get that far):

- `ConversionIsEquivalent`: `Spec => []RoundTripIsEquivalent`. `SourcesInParts`
  takes a list of sources apart into references, inline sources and uses of the
  default CAs, and `SameBundle` says that two lists with equivalent parts build the
  same or fail alike. References are converted one by one and in order
  (`RefsConverted`; `ReferenceKept` there and back), the inline texts become one
  whose blocks are those of all of them (`JoinedText`), and `useDefaultCAs`, which
  the webhook admits at most once, becomes the provider (`DefaultsConverted`).
  `FileBack`, `FormatsBack` and `AnnotationsBack` do the same for the target. The
  heart of `FormatsBack` is that the loop over the entries of both targets finds
  the JKS store under the annotated key, and the PKCS#12 store besides, because
  both targets have the same two of them after the PEM entry and the webhook keeps
  their keys apart (`FormatsFound`).
- `ConversionIsAdmissible`: `Spec => []ConvertsToAdmissible`. `Admissible` goes
  through the parts of `ValidateClusterBundle`; that the files of a target have
  different keys is what `FormatKeysUnique` of the webhook of Bundle is for, that
  the joined text is short enough is `InLineFits`.

`TargetRenderingProofs` proves, from `Rendered`:

- `TargetIsCurrent` (`CertsCurrent`) and `TargetHasNoOldKeys` (`NothingLeftOver`).
  `Rendered` says that entries under managed keys hold the content that the hash
  annotation names, unless another client has changed the annotation, and that
  entries which the controller wrote are managed or taken over. That a JKS store
  has an entry for every alias needs that one of finitely many certificates comes
  last (`LatestCert`).
- `RenderingSettles`: `Spec => []Settles`. The names of a map, listed in either order,
  have the same elements (`ReverseHasTheSame`), so the hash does not depend on the
  order (`HashHasNoOrder`), and what `ApplyTarget` leaves behind needs no update in
  whatever order it is looked at next (`SettlesByApply`).
- `StaleOnlyInFormats`: `Spec => []UpToDateInItsFormats`: after `ApplyTarget` all data
  is up to date, to the parameters of the stores, if the Bundle's additional formats
  are those of the last patch (the history variable `formats`). `ManagedIsExact`
  adds that an entry under a managed key is what the formats of the last patch make
  of the certificates in the hash. Without the condition the property is false (run
  `profile`): the two together say that a change of the formats is all that the
  decision from metadata can miss.

Model-checked only: the liveness properties `ComesToRest`, `TargetsServed`,
`DeletedLeavesNothing` and `Converges`, as fairness is beyond the prover. Every
safety and action property of the runs that expect no violation is a theorem,
under no other hypothesis than the assumptions on the constants.

## Plan

1. Done: `BundleController` with its runs and the proofs above; `TargetRendering`;
   `BundleSource`; `Conversion`, `Webhook`, `TrustNamespace`; `Migration`;
   `TargetStore` and the refinement.
2. Done: the proofs of `ImplementsStore`, of the safety properties of `Migration`,
   of the build (`BundleSource`) and of the rendering (`TargetRendering`), and of
   `RestIsSynced` and `RestIsClean`.
3. Done: the proofs about the conversion and the order of the hash, over lists and
   maps of any length.

## Not modelled

Bytes of certificates and truststores; TLS and flag handling; leader election (two
processes never reconcile at once in the model; a write of a process that lost its
lease may still arrive in reality); generated deep copies, apply configurations
and registrations; the copying of trust packages in an init container; the Helm
chart. Time: certificates that expire later stay until the next reconcile. Both
controllers write conditions of a Bundle under one field manager, and each would
drop the other's; they do not run together in this version, and have a module
each.
