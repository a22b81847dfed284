-------------------------- MODULE MCTargetRendering --------------------------
(* Instances of TargetRendering for TLC. *)
EXTENDS TargetRendering

CONSTANTS ca, jks, p12

Cert(p, r) == [prefix |-> p, rest |-> r, subject |-> 1]
Store(key, password) == [on |-> TRUE, key |-> key, password |-> password]
StoreP(key, password, profile) ==
    [on |-> TRUE, key |-> key, password |-> password, profile |-> profile]

\* Bytes: 1 and 2 are used in passwords, 3 to 5 in metadata.
NamesAB == << <<3>>, <<3, 4>> >>
NoMeta == <<>>
Meta(name, value) == [n \in {name} |-> value]
MetaTwo == [n \in {<<3>>, <<3, 4>>} |-> <<5>>]

B(certs, kind, key, j, p, ann, lab) ==
    [certs |-> certs, kind |-> kind, key |-> key, jks |-> j, p12 |-> p,
     annotations |-> ann, labels |-> lab]

\* Two certificates of the second pool have the same alias.
Pools == {{Cert(1, 1)}, {Cert(1, 1), Cert(1, 2), Cert(2, 1)}}

\* Certificates, kinds, formats and metadata change.
AllInputs ==
    {B(c, kd, ca, j, p, a, l) :
        c \in Pools, kd \in {"ConfigMap", "Secret"},
        j \in {NoStore, Store(jks, <<1>>)},
        p \in {NoStore, StoreP(p12, <<>>, NoProfile), StoreP(p12, <<1, 2>>, "LegacyDES")},
        a \in {NoMeta, MetaTwo}, l \in {NoMeta, Meta(<<3>>, <<5>>)}}

\* The profile of the PKCS#12 store changes.
ProfileInputs ==
    {B({Cert(1, 1)}, "ConfigMap", ca, NoStore, StoreP(p12, <<1>>, pr), NoMeta,
       NoMeta) : pr \in {"LegacyRC2", "LegacyDES", "Modern2023"}}
==============================================================================
