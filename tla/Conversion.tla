----------------------------- MODULE Conversion -----------------------------
(***************************************************************************)
(* Bundle (trust.cert-manager.io/v1alpha1), ClusterBundle                   *)
(* (trust-manager.io/v1alpha2) and the conversions between them             *)
(* (pkg/apis/trust/v1alpha1/conversion.go and the generated code it calls). *)
(*                                                                          *)
(* An API object is a record that has just the fields that are set, like    *)
(* its JSON: a nil pointer and an empty string are absent fields.  A text   *)
(* is the sequence of its PEM blocks with its length and whether it ends    *)
(* with a newline.  Of the keys of metadata.annotations only the one that   *)
(* marks the JKS key is told apart.                                         *)
(***************************************************************************)
EXTENDS Selection, SequencesExt

Has(o, f) == f \in DOMAIN o
Fields(o, fs) == [f \in fs \cap DOMAIN o |-> o[f]]
Field(f, v) == [x \in {f} |-> v]
FieldIf(p, f, v) == IF p THEN Field(f, v) ELSE <<>>

\* The fields of o and those that only p has (@@ of module TLC, which the prover
\* does not know).
o ++ p ==
    [f \in DOMAIN o \cup DOMAIN p |-> IF f \in DOMAIN o THEN o[f] ELSE p[f]]

\* The fields that both versions have and the generated code copies, in either
\* direction.
CopyPKCS12(p) == Fields(p, {"password", "profile"})
CopyMetadata(t) == Fields(t, {"metadata"})

\* The sorts of objects that a source or target names.
KindsOf(o) == {"configMap", "secret"} \cap DOMAIN o

IncludesAllKeys(r) == Has(r, "includeAllKeys") /\ r.includeAllKeys

-----------------------------------------------------------------------------
(* Bundle to ClusterBundle *)

\* Mutant: the texts are joined as they are, so that the lines with which the
\* first ends and the second begins become one and end no block.
JoinTextNoNewline(x, y) ==
    [len |-> x.len + y.len, newline |-> y.newline,
     blocks |-> IF x.newline THEN x.blocks \o y.blocks
                ELSE SubSeq(x.blocks, 1, Len(x.blocks) - 1) \o SubSeq(y.blocks, 2, Len(y.blocks))]

\* Texts are joined with one newline between them.
JoinText(x, y) ==
    [len |-> x.len + y.len + IF x.newline THEN 0 ELSE 1,
     newline |-> y.newline, blocks |-> x.blocks \o y.blocks]

\* The part of a source that is a reference; empty for the other sources.
ToSourceRef(s) ==
    IF Has(s, "configMap") \/ Has(s, "secret")
    THEN LET kind == IF Has(s, "secret") THEN "Secret" ELSE "ConfigMap"
             r == IF Has(s, "secret") THEN s.secret ELSE s.configMap
         IN Field("kind", kind) ++ Fields(r, {"name", "selector"})
            ++ IF IncludesAllKeys(r) THEN Field("key", "*") ELSE Fields(r, {"key"})
    ELSE <<>>

\* Empty references are removed; an empty list is nil.
ToSourceRefs(ss) ==
    LET all == [n \in DOMAIN ss |-> ToSourceRef(ss[n])]
        refs == SelectIn(all, Range(all) \ {<<>>})
    IN FieldIf(refs # <<>>, "sourceRefs", refs)

\* The texts of a list of inline sources, joined.
JoinTexts(inline) ==
    LET text[n \in 1..Len(inline)] ==
          IF n = 1 THEN inline[1].inLine ELSE JoinText(text[n - 1], inline[n].inLine)
    IN text[Len(inline)]

\* All inline sources become one text, in the order of the sources.
ToInLineCAs(ss) ==
    LET inline == SelectIn(ss, {s \in Range(ss) : Has(s, "inLine")})
    IN IF inline = <<>> THEN <<>> ELSE Field("inLineCAs", JoinTexts(inline))

\* The last source with useDefaultCAs decides on the provider.
ToDefaultCAs(ss) ==
    LET defaults == SelectIn(ss, {s \in Range(ss) : Has(s, "useDefaultCAs")})
    IN IF defaults = <<>> THEN <<>>
       ELSE Field("defaultCAs",
                  IF Last(defaults).useDefaultCAs THEN "System" ELSE "Disabled")

\* The default profile is not the same in the two versions.
ToPKCS12(p) ==
    CopyPKCS12(p) ++ Field("profile", "LegacyRC2")

\* The stores, which go to every target.
ToAdditionalData(t) ==
    LET f == IF Has(t, "additionalFormats") THEN t.additionalFormats ELSE <<>>
    IN (IF Has(f, "jks")
        THEN <<[key |-> f.jks.key, format |-> "PKCS12", password |-> f.jks.password]>>
        ELSE <<>>)
       \o
       (IF Has(f, "pkcs12")
        THEN <<[key |-> f.pkcs12.key, format |-> "PKCS12"] ++ ToPKCS12(f.pkcs12)>>
        ELSE <<>>)

ToKeyValueTarget(template, additional) ==
    [data |-> <<[key |-> template.key]>> \o additional] ++ CopyMetadata(template)

HasTarget(t) == Has(t, "configMap") \/ Has(t, "secret") \/ Has(t, "namespaceSelector")

ToTarget(t) ==
    LET additional == ToAdditionalData(t)
        kinds == KindsOf(t)
    IN IF HasTarget(t)
       THEN [k \in kinds |-> ToKeyValueTarget(t[k], additional)]
            ++ Fields(t, {"namespaceSelector"})
            ++ Field("namespaceSelector", [valid |-> TRUE, labels |-> {}])
       ELSE <<>>

ToAnnotations(src) ==
    LET t == src.spec.target
    IN IF HasTarget(t) /\ Has(t, "additionalFormats") /\ Has(t.additionalFormats, "jks")
       THEN Field("jksKey", t.additionalFormats.jks.key) ++ src.annotations
       ELSE src.annotations

ConvertTo(src) ==
    LET target == ToTarget(src.spec.target)
    IN [name |-> src.name, annotations |-> ToAnnotations(src), status |-> src.status,
        spec |-> ToSourceRefs(src.spec.sources) ++ ToInLineCAs(src.spec.sources)
                 ++ ToDefaultCAs(src.spec.sources) ++ FieldIf(target # <<>>, "target", target)]

-----------------------------------------------------------------------------
(* ClusterBundle to Bundle *)

FromSourceRef(r) ==
    Field(IF r.kind = "Secret" THEN "secret" ELSE "configMap",
          Fields(r, {"name", "selector"}) ++
          IF r.key = "*" THEN Field("includeAllKeys", TRUE) ELSE Field("key", r.key))

\* References, then the inline text, then the default CAs.
FromSources(spec) ==
    LET refs == IF Has(spec, "sourceRefs") THEN spec.sourceRefs ELSE <<>>
    IN [n \in DOMAIN refs |-> FromSourceRef(refs[n])]
       \o (IF Has(spec, "inLineCAs") THEN <<[inLine |-> spec.inLineCAs]>> ELSE <<>>)
       \o (IF Has(spec, "defaultCAs")
           THEN <<[useDefaultCAs |-> spec.defaultCAs = "System"]>> ELSE <<>>)

IsPEM(kv) == ~Has(kv, "format") \/ kv.format = "PEM"

\* The first PEM entry gives the key of the target.
FromKeyValueTarget(t) ==
    LET pem == SelectIn(t.data, {kv \in Range(t.data) : IsPEM(kv)})
    IN FieldIf(pem # <<>>, "key", Head(pem).key) ++ CopyMetadata(t)

\* The loop over the entries of all targets: it stops when it has both a JKS and
\* a PKCS#12 store, and an entry replaces an earlier one of its sort.
FromAdditionalFormats(kvs, jksKey) ==
    LET IsJKS(kv) == ~IsPEM(kv) /\ kv.key \in jksKey
        IsP12(kv) == ~IsPEM(kv) /\ kv.key \notin jksKey
        Stops(n) == (\E i \in 1..n : IsJKS(kvs[i])) /\ (\E i \in 1..n : IsP12(kvs[i]))
        jks == {n \in DOMAIN kvs : IsJKS(kvs[n]) /\ ~Stops(n - 1)}
        p12 == {n \in DOMAIN kvs : IsP12(kvs[n]) /\ ~Stops(n - 1)}
    IN FieldIf(jks # {}, "jks",
               [key |-> kvs[Max(jks)].key, password |-> kvs[Max(jks)].password])
       ++ FieldIf(p12 # {}, "pkcs12",
                  Fields(kvs[Max(p12)], {"key"}) ++ CopyPKCS12(kvs[Max(p12)])
                  ++ Field("profile", "LegacyDES"))

FromTarget(t, jksKey) ==
    LET Data(k) == IF Has(t, k) THEN t[k].data ELSE <<>>
        formats == FromAdditionalFormats(Data("secret") \o Data("configMap"), jksKey)
    IN [k \in KindsOf(t) |-> FromKeyValueTarget(t[k])]
       ++ FieldIf(formats # <<>>, "additionalFormats", formats)
       ++ Fields(t, {"namespaceSelector"})

ConvertFrom(c) ==
    LET target == IF Has(c.spec, "target") THEN c.spec.target ELSE <<>>
        jksKey == IF Has(c.annotations, "jksKey") THEN {c.annotations.jksKey} ELSE {}
    IN [name |-> c.name, status |-> c.status,
        annotations |-> Fields(c.annotations, DOMAIN c.annotations \ {"jksKey"}),
        spec |-> [sources |-> FromSources(c.spec), target |-> FromTarget(target, jksKey)]]
=============================================================================
