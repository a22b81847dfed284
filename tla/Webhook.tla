------------------------------ MODULE Webhook ------------------------------
(***************************************************************************)
(* What the API server admits: the validating webhooks of Bundle and        *)
(* ClusterBundle (pkg/webhook) and the schema that the markers of           *)
(* pkg/apis/trustmanager/v1alpha2 state for ClusterBundle.  The schema of   *)
(* Bundle, as far as it matters here, is IsBundle: which fields there are,   *)
(* that strings which are present are not empty, and that a target, if it   *)
(* is given, has a ConfigMap or a Secret.                                   *)
(*                                                                          *)
(* Validation is a predicate: which message a refusal has is left out.      *)
(* Whether Kubernetes accepts a selector, a label or an annotation is a     *)
(* part of it (valid); keys of data are valid if they match the pattern of  *)
(* the schema.                                                              *)
(***************************************************************************)
EXTENDS Conversion, FiniteSets

CONSTANTS
    DataKeys,   \* strings that match ^[0-9A-Za-z_.\-]+$
    MaxInLine   \* MaxLength of inLine and inLineCAs

NoKey == ""
ASSUME SchemaAssumption ==
    DataKeys \cap {NoKey, "*"} = {} /\ MaxInLine \in Nat

SelectorOK(o, f) == Has(o, f) => o[f].valid

-----------------------------------------------------------------------------
(* Bundle *)

IsSequence(q) == q \in Seq(Range(q))

\* An object with the required fields and some of the optional ones.
IsObjectOf(o, required, optional) ==
    /\ o = [f \in DOMAIN o |-> o[f]]
    /\ required \subseteq DOMAIN o
    /\ DOMAIN o \subseteq required \cup optional

IsSourceObjectKeySelector(r) ==
    /\ IsObjectOf(r, {}, {"name", "selector", "key", "includeAllKeys"})
    /\ Has(r, "key") => r.key # NoKey
    /\ Has(r, "includeAllKeys") => r.includeAllKeys \in BOOLEAN

IsText(t) == t.len \in Nat \ {0} /\ t.newline \in BOOLEAN /\ IsSequence(t.blocks)

\* An entry of sources.
IsBundleSource(s) ==
    /\ IsObjectOf(s, {}, {"configMap", "secret", "inLine", "useDefaultCAs"})
    /\ \A k \in KindsOf(s) : IsSourceObjectKeySelector(s[k])
    /\ Has(s, "inLine") => IsText(s.inLine)
    /\ Has(s, "useDefaultCAs") => s.useDefaultCAs \in BOOLEAN

Profiles == {"LegacyRC2", "LegacyDES", "Modern2023"}

IsAdditionalFormats(f) ==
    /\ IsObjectOf(f, {}, {"jks", "pkcs12"})
    /\ Has(f, "jks") => IsObjectOf(f.jks, {"key", "password"}, {})
    /\ Has(f, "pkcs12") => /\ IsObjectOf(f.pkcs12, {"key"}, {"password", "profile"})
                           /\ Has(f.pkcs12, "profile") => f.pkcs12.profile \in Profiles

\* A target, or nothing.
IsBundleTarget(t) ==
    /\ IsObjectOf(t, {}, {"configMap", "secret", "additionalFormats", "namespaceSelector"})
    /\ DOMAIN t # {} => KindsOf(t) # {}
    /\ \A k \in KindsOf(t) : IsObjectOf(t[k], {"key"}, {"metadata"})
    /\ Has(t, "additionalFormats") => IsAdditionalFormats(t.additionalFormats)

\* What the API server takes before it asks the webhook.
IsBundle(b) ==
    /\ IsSequence(b.spec.sources) /\ Len(b.spec.sources) \in 1..100
    /\ \A s \in Range(b.spec.sources) : IsBundleSource(s)
    /\ IsBundleTarget(b.spec.target)
    /\ IsObjectOf(b.annotations, {}, DOMAIN b.annotations)

\* The checks on a reference to ConfigMaps or Secrets.
RefOK(r) ==
    /\ Has(r, "name") # Has(r, "selector")
    /\ Has(r, "key") # IncludesAllKeys(r)
    /\ SelectorOK(r, "selector")

\* Mutant: an entry that sets none of the types is let through.
SourceOKNone(s) ==
    /\ \A t \in KindsOf(s) : RefOK(s[t])
    /\ Cardinality(DOMAIN s) <= 1

\* The checks on one entry of sources.
SourceOK(s) ==
    /\ \A t \in KindsOf(s) : RefOK(s[t])
    /\ Cardinality(DOMAIN s) = 1

\* useDefaultCAs: false is not a source.
CountsAsSource(s) == \E t \in DOMAIN s : t = "useDefaultCAs" => s.useDefaultCAs

\* A source that names the target of the Bundle in the trust namespace, at the
\* key of the bundle.
IsOwnTarget(b, s) ==
    \E t \in KindsOf(b.spec.target) :
        /\ Has(s, t) /\ Has(s[t], "name") /\ s[t].name = b.name
        /\ Has(s[t], "key") /\ s[t].key = b.spec.target[t].key

Formats(t) == IF Has(t, "additionalFormats") THEN t.additionalFormats ELSE <<>>

\* Mutant: the formats are compared with the keys of the targets, but not with
\* each other.
FormatKeysUniqueTargets(t) ==
    \A f \in DOMAIN Formats(t) : \A k \in KindsOf(t) :
        Formats(t)[f].key # t[k].key

\* Every additional format has a key of its own.
FormatKeysUnique(t) ==
    \A f \in DOMAIN Formats(t) :
        /\ \A k \in KindsOf(t) : Formats(t)[f].key # t[k].key
        /\ \A g \in DOMAIN Formats(t) \ {f} : Formats(t)[f].key # Formats(t)[g].key

\* validateTargetMetadata
MetadataOK(md) ==
    \A k \in md.labels \cup md.annotations :
        k.valid /\ k.domain \notin {"trust.cert-manager.io", "trust-manager.io"}

\* ValidateCreate and ValidateUpdate of a Bundle.
ValidateBundle(b) ==
    LET ss == Range(b.spec.sources)
        t == b.spec.target
        defaults == {n \in DOMAIN b.spec.sources : Has(b.spec.sources[n], "useDefaultCAs")}
    IN /\ \A s \in ss : SourceOK(s) /\ ~IsOwnTarget(b, s)
       /\ \E s \in ss : CountsAsSource(s)
       /\ Cardinality(defaults) <= 1
       /\ FormatKeysUnique(t)
       /\ \A k \in KindsOf(t) :
            Has(t[k], "metadata") => MetadataOK(t[k].metadata)
       /\ SelectorOK(t, "namespaceSelector")

-----------------------------------------------------------------------------
(* ClusterBundle *)

\* ExactlyOneOf and Enum of a SourceReference.
SourceReferenceOK(r) ==
    /\ Has(r, "kind") /\ r.kind \in {"ConfigMap", "Secret"}
    /\ Has(r, "name") # Has(r, "selector")

\* Required and Pattern of the key of a BundleSourceRef, and validateSourceRef.
SourceRefOK(r) ==
    /\ SourceReferenceOK(r)
    /\ Has(r, "key") /\ r.key \in DataKeys \cup {"*"}
    /\ SelectorOK(r, "selector")

\* Enum of the provider.
DefaultCAsOK(provider) == provider \in {"System", "Disabled"}

\* Enum of a PKCS12Profile.
PKCS12OK(p) == Has(p, "profile") => p.profile \in Profiles

\* Pattern of a key, Enum of format, the CEL rules on password and profile.
KeyValueOK(kv) ==
    /\ kv.key \in DataKeys
    /\ Has(kv, "format") => kv.format \in {"PEM", "PKCS12"}
    /\ Has(kv, "password") \/ Has(kv, "profile") => ~IsPEM(kv)
    /\ PKCS12OK(kv)

\* The CEL rules on the keys of TargetMetadata, and validateTargetMetadata.
TargetMetadataOK(md) ==
    \A k \in md.labels \cup md.annotations : k.valid /\ k.domain # "trust-manager.io"

\* MinItems, MaxItems and listMapKey of data.
KeyValueTargetOK(t) ==
    /\ Len(t.data) \in 1..10
    /\ \A i \in DOMAIN t.data :
        KeyValueOK(t.data[i]) /\ \A j \in DOMAIN t.data \ {i} : t.data[i].key # t.data[j].key
    /\ Has(t, "metadata") => TargetMetadataOK(t.metadata)

\* AtLeastOneOf and Required of a BundleTarget, and validateTarget.
ClusterTargetOK(t) ==
    /\ Has(t, "configMap") \/ Has(t, "secret")
    /\ \A k \in KindsOf(t) : KeyValueTargetOK(t[k])
    /\ Has(t, "namespaceSelector") /\ SelectorOK(t, "namespaceSelector")

\* Schema and webhook of a ClusterBundle.
ValidateClusterBundle(c) ==
    /\ DOMAIN c.spec # {}
    /\ Has(c.spec, "sourceRefs") =>
        Len(c.spec.sourceRefs) <= 100 /\ \A r \in Range(c.spec.sourceRefs) : SourceRefOK(r)
    /\ Has(c.spec, "inLineCAs") => c.spec.inLineCAs.len \in 1..MaxInLine
    /\ Has(c.spec, "defaultCAs") => DefaultCAsOK(c.spec.defaultCAs)
    /\ Has(c.spec, "target") => ClusterTargetOK(c.spec.target)
=============================================================================
