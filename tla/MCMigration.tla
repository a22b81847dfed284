---------------------------- MODULE MCMigration ----------------------------
(* Instances of Migration for TLC. *)
EXTENDS Migration

Cas(n) == [len |-> 1, newline |-> TRUE, blocks |-> <<n>>]
Ref(name) == [configMap |-> [name |-> name, key |-> "ca"]]
CM == [configMap |-> [key |-> "ca"]]

\* The first has a reference and inline CAs, the second inline CAs, the default
\* CAs and a JKS store.
TwoSpecs ==
    <<[sources |-> <<Ref("a"), [inLine |-> Cas(1)]>>, target |-> CM],
      [sources |-> <<[inLine |-> Cas(1)], [useDefaultCAs |-> TRUE], [inLine |-> Cas(2)]>>,
      target |-> CM ++ [additionalFormats |->
                            [jks |-> [key |-> "jks", password |-> "changeit"]]]]>>

\* The annotation alone; with the value that the first spec has; and a value of
\* the user's own without the annotation.
SomeManifests ==
    {Field("migrated", TRUE),
     [migrated |-> TRUE, inLineCAs |-> Cas(1)],
     Field("inLineCAs", Cas(3))}

\* The user's own value also with the annotation.
MoreManifests == SomeManifests \cup {[migrated |-> TRUE, inLineCAs |-> Cas(3)]}
=============================================================================
