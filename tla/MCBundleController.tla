------------------------- MODULE MCBundleController -------------------------
(* Instances of BundleController for TLC. *)
EXTENDS BundleController

CONSTANTS n1, n2, n3, s1, s2, cas, ca, jks

\* Bundles with the given sources, target kinds, data keys and selector.
B(sources, kinds, keys, selector) ==
    [sources |-> sources, kinds |-> kinds, keys |-> keys, selector |-> selector]

CM == {"ConfigMap"}

\* One fixed Bundle, to every namespace.
FixedSpec == {B(<<s1>>, CM, {ca}, "all")}

\* The selector changes.
SelectorSpecs == {B(<<s1>>, CM, {ca}, sel) : sel \in {"all", "labelled"}}

\* The list of sources changes; the Bundle wants Secret targets or has a selector
\* that the webhook would have refused.
SourceSpecs == {B(<<s1, s2>>, CM, {ca}, "all"), B(<<cas, s1>>, CM, {ca}, "labelled"),
                B(<<s1>>, {"ConfigMap", "Secret"}, {ca}, "all"),
                B(<<s1>>, CM, {ca}, "invalid")}

\* The target kind changes, and with it the selector.
KindSpecs == {B(<<s1>>, CM, {ca}, "labelled"), B(<<s1>>, {"Secret"}, {ca}, "all")}

\* The additional formats change, and with them the selector.
FormatSpecs == {B(<<s1>>, CM, {ca}, "all"), B(<<s1>>, CM, {ca, jks}, "labelled")}
=============================================================================
