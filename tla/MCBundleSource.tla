--------------------------- MODULE MCBundleSource ---------------------------
(* Instances of BundleSource for TLC. *)
EXTENDS BundleSource

C(id, expired, ca) == [id |-> id, expired |-> expired, ca |-> ca]
Blk(type, headers, parse, known, c) ==
    [type |-> type, headers |-> headers, parse |-> parse, known |-> known, cert |-> c]
CertBlk(c) == Blk("CERTIFICATE", FALSE, "ok", FALSE, c)

c1 == C(1, FALSE, TRUE)
c2 == C(2, FALSE, TRUE)
cExpired == C(3, TRUE, TRUE)
cLeaf == C(4, FALSE, FALSE)

One     == <<CertBlk(c1)>>
Two     == <<CertBlk(c2), CertBlk(c1)>>
Expired == <<CertBlk(cExpired)>>
Leaf    == <<CertBlk(cLeaf), CertBlk(c2)>>
Text    == <<>>
WithKey == <<CertBlk(c1), Blk("PRIVATE KEY", FALSE, "error", FALSE, c1)>>
Headers == <<Blk("CERTIFICATE", TRUE, "ok", FALSE, c2)>>
Skipped == <<Blk("CERTIFICATE", FALSE, "negative serial number", TRUE, c2), CertBlk(c1)>>
Negative == <<CertBlk(c2), Blk("CERTIFICATE", FALSE, "negative serial number", FALSE, c2)>>

Datas == {One, Two, Expired, Leaf, Text, WithKey, Headers, Skipped, Negative}

None == <<>>
At(k, d) == [x \in {k} |-> d]
TwoKeys(d, e) == [x \in {"ca", "other"} |-> IF x = "ca" THEN d ELSE e]
CM(name, labels, data, bin) ==
    [kind |-> "configMap", name |-> name, labels |-> labels, tls |-> FALSE,
     data |-> data, binaryData |-> bin]
Sec(name, labels, tls, data) ==
    [kind |-> "secret", name |-> name, labels |-> labels, tls |-> tls,
     data |-> data, binaryData |-> None]

Sel(valid, labels) == [valid |-> valid, labels |-> labels]
AtKey(k) == IF k = "" THEN Field("includeAllKeys", TRUE) ELSE Field("key", k)
ByName(type, name, key) == Field(type, Field("name", name) ++ AtKey(key))
ByLabel(type, selector, key) == Field(type, Field("selector", selector) ++ AtKey(key))
Txt(d) == [len |-> Len(d), newline |-> FALSE, blocks |-> d]
Inline(d) == [inLine |-> Txt(d)]
DefaultCAs(b) == [useDefaultCAs |-> b]

Refs ==
    {ByName(t, "a", k) : t \in {"configMap", "secret"}, k \in {"ca", ""}}
    \cup {ByLabel(t, Sel(v, {"l"}), k) :
            t \in {"configMap", "secret"}, v \in BOOLEAN, k \in {"ca", ""}}
SomeSources == Refs \cup {Inline(d) : d \in {Two, Expired, WithKey}}
                    \cup {DefaultCAs(b) : b \in BOOLEAN}
SourceLists == {<<s>> : s \in SomeSources} \cup (SomeSources \X SomeSources)

PEMTarget == [configMap |-> [key |-> "ca"]]
Bundle(sources, target) ==
    [name |-> "b", annotations |-> <<>>, status |-> <<>>,
     spec |-> [sources |-> sources, target |-> target]]

ObjectSets ==
    {{},
     {CM("a", {}, At("ca", One), None)},
     {CM("a", {"l"}, At("other", One), At("ca", Expired)), CM("b", {"l"}, None, At("ca", Leaf))},
     {CM("a", {"l"}, TwoKeys(One, Headers), None), CM("b", {"l"}, None, None)},
     {CM("a", {"l"}, At("ca", WithKey), None), CM("b", {"l"}, None, None)},
     {CM("a", {"l"}, TwoKeys(One, Skipped), None), CM("b", {"l"}, At("ca", Leaf), At("other", Text))},
     {Sec("a", {"l"}, FALSE, TwoKeys(One, Expired)), Sec("b", {"l"}, TRUE, At("ca", Two))},
     {Sec("a", {"l"}, FALSE, TwoKeys(Text, Negative)), Sec("b", {"l"}, FALSE, At("ca", Leaf))}}

NoPkg == [given |-> FALSE]
Pkg(name, version, d) == [given |-> TRUE, name |-> name, version |-> version, data |-> d]

\* Lists of one or two sources over a few clusters.
SourceInputs ==
    {[bundle |-> Bundle(ss, PEMTarget), objs |-> o, pkg |-> p] :
        ss \in SourceLists, o \in ObjectSets, p \in {NoPkg, Pkg("p", "1", Two)}}

\* One entry or package with every kind of data.
DataInputs ==
    {[bundle |-> Bundle(<<ByName("configMap", "a", "ca"), Inline(Two)>>, PEMTarget),
      objs |-> {CM("a", {}, At("ca", d), At("other", Two))}, pkg |-> NoPkg] : d \in Datas}
    \cup {[bundle |-> Bundle(<<DefaultCAs(TRUE)>>, PEMTarget), objs |-> {},
           pkg |-> Pkg(n, "1", d)] : n \in {"p", ""}, d \in Datas}

\* Entries that set no type, several types, no key or both, name and selector.
OddSources ==
    {<<>>,
     [configMap |-> [name |-> "a", key |-> "ca"], inLine |-> Txt(One)],
     [configMap |-> [name |-> "a"]],
     [configMap |-> [name |-> "a", key |-> "*"]],
     [configMap |-> [name |-> "a", key |-> "ca", includeAllKeys |-> FALSE]],
     [secret |-> [name |-> "a", key |-> "ca", includeAllKeys |-> TRUE]],
     [secret |-> [name |-> "b", key |-> "ca"]],
     [secret |-> [name |-> "a", selector |-> Sel(TRUE, {}), key |-> "ca"]],
     [inLine |-> [len |-> 1, newline |-> TRUE, blocks |-> One]],
     [inLine |-> [len |-> 1, newline |-> FALSE, blocks |-> Text]]}
OddInputs ==
    {[bundle |-> Bundle(ss, PEMTarget ++ [secret |-> [key |-> "ca"]]),
      objs |-> {CM("a", {}, At("ca", One), None)}, pkg |-> NoPkg] :
        ss \in {<<Inline(One), x, Inline(Leaf)>> : x \in OddSources}}

MetaKey(domain, valid) == [domain |-> domain, valid |-> valid]
Metadatas ==
    {[labels |-> {MetaKey(d, v)}, annotations |-> a] :
        d \in {"", "trust.cert-manager.io", "trust-manager.io"}, v \in BOOLEAN,
        a \in {{}, {MetaKey("", TRUE)}, {MetaKey("trust-manager.io", TRUE)}}}
Templates(key) == {[key |-> key]} \cup {[key |-> key, metadata |-> md] : md \in Metadatas}
PKCS12s ==
    {[key |-> k] ++ [password |-> ""] ++ p :
        k \in {"ca", "b", "jks"}, p \in {<<>>, Field("profile", "Modern2023")}}
JKSs == {[key |-> k, password |-> "changeit"] : k \in {"ca", "jks"}}
FormatSets ==
    {<<>>} \cup {[jks |-> j] : j \in JKSs} \cup {[pkcs12 |-> p] : p \in PKCS12s}
    \cup {[jks |-> j, pkcs12 |-> p] : j \in JKSs, p \in PKCS12s}
Targets ==
    {<<>>} \cup
    {Field("configMap", t) : t \in Templates("ca")} \cup
    {kinds ++ (IF f = <<>> THEN <<>> ELSE Field("additionalFormats", f)) ++ ns :
        kinds \in {PEMTarget, [secret |-> [key |-> "b"]],
                   PEMTarget ++ [secret |-> [key |-> "b"]]},
        f \in FormatSets,
        ns \in {<<>>} \cup {Field("namespaceSelector", Sel(v, l)) : v \in BOOLEAN, l \in {{}, {"l"}}}}
\* One source with targets of all sorts.
TargetInputs ==
    {[bundle |-> Bundle(<<Inline(One)>>, t), objs |-> {}, pkg |-> NoPkg] : t \in Targets}

AllInputs == SourceInputs \cup DataInputs \cup OddInputs \cup TargetInputs
=============================================================================
