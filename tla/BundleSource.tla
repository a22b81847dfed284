---------------------------- MODULE BundleSource ----------------------------
(***************************************************************************)
(* BuildBundle (pkg/bundle/internal/source), run for a Bundle that the      *)
(* webhook admits, with AddCertsFromPEM                                     *)
(* (pkg/util), ParseCertificate (pkg/compat) and the loading of the default *)
(* CA package (pkg/fspkg): what comes out of a list of sources, one PEM     *)
(* block at a time.                                                         *)
(*                                                                          *)
(* The objects are those of the source cache, which holds the trust         *)
(* namespace only.  A List returns them, and a Go map its keys, in any      *)
(* order.  PEM data is the sequence of its blocks; text between blocks is   *)
(* skipped by pem.Decode.  Data of API objects is never nil.  A source has  *)
(* just the fields that are set (see Conversion).                           *)
(***************************************************************************)
EXTENDS Webhook

CONSTANTS
    Inputs,             \* a Bundle, objects and package on disk
    FilterExpiredCerts, \* flag --filter-expired-certificates
    FilterNonCACerts    \* flag --filter-non-ca-certs

ASSUME FlagsAssumption ==
    FilterExpiredCerts \in BOOLEAN /\ FilterNonCACerts \in BOOLEAN

VARIABLES
    in,         \* the input: [bundle, objs, pkg]
    pc,         \* "admit", "load", "source", "object", "entry", "block" or "done"
    i,          \* index of the current source
    todo,       \* objects of this source still to be read
    obj,        \* the object being read
    entries,    \* entries <<field, key>> of obj still to be read
    blocks,     \* PEM blocks of the entry still to be read
    pool,       \* the certificates added so far
    caID,       \* DefaultCAPackageStringID is set
    result      \* "ok" or the class of the error; "none" before the end

vars == <<in, pc, i, todo, obj, entries, blocks, pool, caID, result>>
reading == <<todo, obj, entries, blocks>>

NoObject == [kind |-> "none"]

-----------------------------------------------------------------------------
(* Certificates *)

\* ParseCertificate: the one known certificate with a negative serial number is
\* skipped, any other error is an error.
ParseCertificate(b) ==
    IF b.parse = "ok" THEN "ok"
    ELSE IF b.known /\ b.parse = "negative serial number" THEN "skip"
    ELSE "error"

\* AddCertsFromPEM gives up on such a block.
BadBlock(b) ==
    \/ b.type # "CERTIFICATE"
    \/ b.headers
    \/ ParseCertificate(b) = "error"

\* The filters that AddCert asks.
Filtered(c) ==
    \/ FilterExpiredCerts /\ c.expired
    \/ FilterNonCACerts /\ ~c.ca

\* Validate: the bundle is parsed without filters.
Validate(pkg) ==
    /\ \A n \in DOMAIN pkg.data : ~BadBlock(pkg.data[n])
    /\ pkg.name # "" /\ pkg.version # ""

-----------------------------------------------------------------------------
(* Objects *)

\* The objects are listed by kind as the source names it: configMap or secret.
Get(kind, name) == {o \in in.objs : o.kind = kind /\ o.name = name}
List(kind, selector) == {o \in in.objs : o.kind = kind
                                      /\ selector.labels \subseteq o.labels}

AllEntries(o) == ({"data"} \X DOMAIN o.data) \cup
                 ({"binaryData"} \X DOMAIN o.binaryData)

\* Mutant: without BinaryData.
EntriesAtDataOnly(o, key) ==
    IF key \in DOMAIN o.data THEN {<<"data", key>>} ELSE {}

\* The entry at a key: Data is preferred, then BinaryData.
EntriesAt(o, key) ==
    IF key \in DOMAIN o.data THEN {<<"data", key>>}
    ELSE IF key \in DOMAIN o.binaryData THEN {<<"binaryData", key>>}
    ELSE {}

Content(o, e) == IF e[1] = "data" THEN o.data[e[2]] ELSE o.binaryData[e[2]]

-----------------------------------------------------------------------------
(* Inputs have the types of the API and of the package's JSON. *)

\* A ConfigMap has no type that could be that of a TLS Secret.
IsObject(o) ==
    /\ o.kind \in {"configMap", "secret"}
    /\ o.kind = "configMap" => ~o.tls
    /\ \A e \in AllEntries(o) : IsSequence(Content(o, e))

ASSUME InputsAssumption ==
    \A x \in Inputs :
        /\ IsBundle(x.bundle)
        /\ \A o \in x.objs : IsObject(o)
        /\ x.pkg.given => IsSequence(x.pkg.data)

-----------------------------------------------------------------------------
(* Steps *)

Init ==
    /\ in \in Inputs
    /\ pc = "admit"
    /\ i = 1
    /\ todo = {} /\ obj = NoObject /\ entries = {} /\ blocks = <<>>
    /\ pool = {}
    /\ caID = FALSE
    /\ result = "none"

Return(r) == pc' = "done" /\ result' = r
Goto(p) == pc' = p /\ UNCHANGED result

\* The switch in BuildBundle.
SourceType(s) ==
    CASE Has(s, "configMap") -> "configMap"
      [] Has(s, "secret") /\ ~Has(s, "configMap") -> "secret"
      [] Has(s, "inLine") /\ ~Has(s, "configMap") /\ ~Has(s, "secret") -> "inLine"
      [] DOMAIN s = {"useDefaultCAs"} -> "useDefaultCAs"
      [] OTHER -> "unknown"

Sources == in.bundle.spec.sources
Source == Sources[i]
Ref(s) == s[SourceType(s)]
Key(s) == IF Has(Ref(s), "key") THEN Ref(s).key ELSE NoKey
HasSource(types) == pc = "source" /\ i <= Len(Sources) /\ SourceType(Source) \in types

\* A user creates the Bundle.
Admit ==
    /\ pc = "admit"
    /\ IF ValidateBundle(in.bundle) THEN Goto("load") ELSE Return("Refused")
    /\ UNCHANGED <<in, i, reading, pool, caID>>

\* Mutant: the package is not validated.
LoadPackageUnchecked ==
    /\ pc = "load"
    /\ Goto("source")
    /\ UNCHANGED <<in, i, reading, pool, caID>>

\* The process loads the default CA package, if one is configured, and does not
\* start with an invalid one.
LoadPackage ==
    /\ pc = "load"
    /\ IF in.pkg.given /\ ~Validate(in.pkg) THEN Return("NoStart")
                                            ELSE Goto("source")
    /\ UNCHANGED <<in, i, reading, pool, caID>>

\* All sources have been read.
Finish ==
    /\ pc = "source"
    /\ i > Len(Sources)
    /\ Return(IF pool = {} THEN "NotFound" ELSE "ok")
    /\ UNCHANGED <<in, i, reading, pool, caID>>

\* inlineBundleSource.  A source of none of the types is the default of the
\* switch, a panic.
ReadInline ==
    /\ HasSource({"inLine", "unknown"})
    /\ IF SourceType(Source) = "unknown"
       THEN Return("panic") /\ UNCHANGED blocks
       ELSE blocks' = Source.inLine.blocks /\ Goto("block")
    /\ UNCHANGED <<in, i, todo, obj, entries, pool, caID>>

\* Mutant: the package is reported although it is not used.
SkipDefaultCAsReported ==
    /\ HasSource({"useDefaultCAs"}) /\ ~Source.useDefaultCAs
    /\ i' = i + 1
    /\ caID' = in.pkg.given
    /\ UNCHANGED <<in, pc, reading, pool, result>>

\* useDefaultCAs: false
SkipDefaultCAs ==
    /\ HasSource({"useDefaultCAs"}) /\ ~Source.useDefaultCAs
    /\ i' = i + 1
    /\ UNCHANGED <<in, pc, reading, pool, caID, result>>

\* defaultCAsBundleSource
ReadDefaultCAs ==
    /\ HasSource({"useDefaultCAs"}) /\ Source.useDefaultCAs
    /\ \/ /\ ~in.pkg.given
          /\ Return("NotFound")
          /\ UNCHANGED <<blocks, caID>>
       \/ /\ in.pkg.given
          /\ caID' = TRUE
          /\ blocks' = in.pkg.data
          /\ Goto("block")
    /\ UNCHANGED <<in, i, todo, obj, entries, pool>>

\* Mutant: a selector must select something.
ListedNone(objs) == IF objs = {} THEN Return("NotFound") ELSE Goto("object")

\* A selector may select nothing.
Listed(objs) == Goto("object")

\* configMapBundleSource and secretBundleSource get one object by name or list
\* objects by label.
GetObjects ==
    /\ HasSource({"configMap", "secret"})
    /\ LET r == Ref(Source) IN
       \/ /\ Has(r, "name")
          /\ todo' = Get(SourceType(Source), r.name)
          /\ IF todo' = {} THEN Return("NotFound") ELSE Goto("object")
       \/ /\ ~Has(r, "name")
          /\ IF r.selector.valid
             THEN todo' = List(SourceType(Source), r.selector) /\ Listed(todo')
             ELSE Return("InvalidSelector") /\ UNCHANGED todo
    /\ UNCHANGED <<in, i, obj, entries, blocks, pool, caID>>

\* The next object of the source, or the next source.
NextObject ==
    /\ pc = "object"
    /\ \/ /\ todo = {}
          /\ i' = i + 1
          /\ obj' = NoObject
          /\ Goto("source")
          /\ UNCHANGED <<todo, entries>>
       \/ \E o \in todo :
          /\ todo' = todo \ {o}
          /\ obj' = o
          /\ UNCHANGED i
          /\ \/ /\ Key(Source) # NoKey
                /\ entries' = EntriesAt(o, Key(Source))
                /\ IF entries' = {} THEN Return("NotFound") ELSE Goto("entry")
             \/ /\ Key(Source) = NoKey /\ IncludesAllKeys(Ref(Source)) /\ o.tls
                /\ Return("InvalidSecret")
                /\ UNCHANGED entries
             \/ /\ Key(Source) = NoKey /\ IncludesAllKeys(Ref(Source)) /\ ~o.tls
                /\ entries' = AllEntries(o)
                /\ Goto("entry")
    /\ UNCHANGED <<in, blocks, pool, caID>>

\* The next entry of the object (those of Data come first), or the next object.
NextEntry ==
    /\ pc = "entry"
    /\ \/ /\ entries = {}
          /\ Goto("object")
          /\ UNCHANGED <<entries, blocks>>
       \/ \E e \in entries :
          /\ e[1] = "binaryData" => \A f \in entries : f[1] = "binaryData"
          /\ entries' = entries \ {e}
          /\ blocks' = Content(obj, e)
          /\ Goto("block")
    /\ UNCHANGED <<in, i, todo, obj, pool, caID>>

\* AddCertsFromPEM: the next block, or the end of the data.
NextBlock ==
    /\ pc = "block"
    /\ \/ /\ blocks = <<>>
          /\ Goto("entry")
          /\ UNCHANGED <<blocks, pool>>
       \/ /\ blocks # <<>>
          /\ blocks' = Tail(blocks)
          /\ LET b == Head(blocks) IN
             IF BadBlock(b)
             THEN Return("InvalidPEM") /\ UNCHANGED pool
             ELSE /\ pool' = IF ParseCertificate(b) = "skip" \/ Filtered(b.cert)
                             THEN pool ELSE pool \cup {b.cert}
                  /\ UNCHANGED <<pc, result>>
    /\ UNCHANGED <<in, i, todo, obj, entries, caID>>

Next ==
    \/ Admit \/ LoadPackage \/ Finish \/ ReadInline \/ SkipDefaultCAs
    \/ ReadDefaultCAs \/ GetObjects \/ NextObject \/ NextEntry \/ NextBlock

Spec == Init /\ [][Next]_vars

-----------------------------------------------------------------------------
(* Properties *)

\* What a source refers to, seen as a whole.
Refers(s) == SourceType(s) \in {"configMap", "secret"}
UsesDefaultCAs(s) == SourceType(s) = "useDefaultCAs" /\ s.useDefaultCAs
Objects(s) == IF Has(Ref(s), "name") THEN Get(SourceType(s), Ref(s).name)
                                     ELSE List(SourceType(s), Ref(s).selector)
UsedEntries(s, o) == IF Key(s) = NoKey THEN AllEntries(o) ELSE EntriesAt(o, Key(s))
Used(s) ==
    IF Refers(s)
    THEN UNION {{Content(o, e) : e \in UsedEntries(s, o)} : o \in Objects(s)}
    ELSE (IF Has(s, "inLine") THEN {s.inLine.blocks} ELSE {})
         \cup (IF UsesDefaultCAs(s) /\ in.pkg.given THEN {in.pkg.data} ELSE {})

\* What can be wrong with a source.
HasBadSelector(s) ==
    Refers(s) /\ ~Has(Ref(s), "name") /\ ~Ref(s).selector.valid
IsMissing(s) ==
    \/ UsesDefaultCAs(s) /\ ~in.pkg.given
    \/ /\ Refers(s) /\ ~HasBadSelector(s)
       /\ \/ Has(Ref(s), "name") /\ Objects(s) = {}
          \/ \E o \in Objects(s) : /\ Key(s) # NoKey
                                   /\ Key(s) \notin DOMAIN o.data
                                   /\ Key(s) \notin DOMAIN o.binaryData
IsTLS(s) ==
    /\ SourceType(s) = "secret" /\ Key(s) = NoKey /\ ~HasBadSelector(s)
    /\ \E o \in Objects(s) : o.tls
IsInvalid(s) ==
    /\ ~HasBadSelector(s)
    /\ \E d \in Used(s) : \E n \in DOMAIN d : BadBlock(d[n])
IsFaulty(s) == IsMissing(s) \/ HasBadSelector(s) \/ IsTLS(s) \/ IsInvalid(s)

CertsIn(d) == {b.cert : b \in {x \in Range(d) : ParseCertificate(x) = "ok"}}
\* The bundle that a list of sources stands for, if none is at fault.
Wanted(ss) == {c \in UNION {CertsIn(d) : d \in UNION {Used(s) : s \in Range(ss)}} :
                 ~Filtered(c)}
Faulty(ss) == \E s \in Range(ss) : IsFaulty(s)
Built == pc = "done" /\ result \notin {"NoStart", "Refused"}

\* BuildBundle succeeds just if no source is at fault and something is left
\* after filtering, and then returns every certificate of every source, once.
\* It does not depend on the order of objects and of keys in maps.
IsUnionOfSources ==
    Built => /\ result = "ok" <=> ~Faulty(Sources) /\ (~Faulty(Sources) => Wanted(Sources) # {})
             /\ result = "ok" => pool = Wanted(Sources)

\* The class of the error, which decides on the reason shown in the Bundle's
\* status, names a fault that one of the sources has.
BlamesARealFault ==
    LET ss == Range(Sources) IN
    /\ result = "NotFound" =>
         \/ \E s \in ss : IsMissing(s)
         \/ ~(\E s \in ss : HasBadSelector(s) \/ IsInvalid(s)) /\ Wanted(Sources) = {}
    /\ result = "InvalidSelector" => \E s \in ss : HasBadSelector(s)
    /\ result = "InvalidSecret" => \E s \in ss : IsTLS(s)
    /\ result = "InvalidPEM" => \E s \in ss : IsInvalid(s)

\* DefaultCAPackageStringID, which becomes the version in the status, is set just
\* for bundles that the default CA package went into.
ReportsDefaultCAs ==
    result = "ok" => (caID <=> \E s \in Range(Sources) : UsesDefaultCAs(s))

\* A package that was accepted at the start never makes a bundle fail.
AcceptedPackageIsValid ==
    result = "InvalidPEM" => SourceType(Source) # "useDefaultCAs"

\* BuildBundle never panics on a source that it does not know and never fails on
\* a selector that it cannot parse: the webhook lets neither pass.
AdmittedIsUnderstood == result \notin {"panic", "InvalidSelector"}

-----------------------------------------------------------------------------
(* Conversion of the Bundle that was admitted *)

\* The conversion is exact for Bundles whose keys can be keys of data ("*" would
\* become a wildcard), whose inline sources fit into one and on which nobody has
\* set the controller's own annotation.
HasDataKeys(b) ==
    /\ \A s \in Range(b.spec.sources) : Refers(s) => Key(s) \in DataKeys \cup {NoKey}
    /\ \A k \in KindsOf(b.spec.target) :
        b.spec.target[k].key \in DataKeys
    /\ \A f \in DOMAIN Formats(b.spec.target) : Formats(b.spec.target)[f].key \in DataKeys
InLineFits(b) ==
    LET c == ToInLineCAs(b.spec.sources)
    IN Has(c, "inLineCAs") => c.inLineCAs.len <= MaxInLine
Convertible(b) == HasDataKeys(b) /\ InLineFits(b) /\ ~Has(b.annotations, "jksKey")

Admitted == pc = "load" /\ Convertible(in.bundle)

\* What a target asks for: its files with their formats and parameters, its
\* metadata and the namespaces.  No selector and an empty one select all of them.
Output(t) ==
    LET kinds == KindsOf(t)
        f == IF kinds = {} THEN <<>> ELSE Formats(t)
    IN [pem |-> [k \in kinds |-> t[k]],
        jks |-> Fields(f, {"jks"}),
        pkcs12 |-> IF Has(f, "pkcs12") THEN f.pkcs12 ++ Field("profile", "LegacyRC2") ELSE <<>>,
        labels |-> IF Has(t, "namespaceSelector") THEN t.namespaceSelector.labels ELSE {}]

\* A Bundle that is converted to a ClusterBundle and back gives the same bundle
\* in the same targets, although it is not the same Bundle: inline sources are
\* joined, sources change places, defaults are spelt out.
RoundTripIsEquivalent ==
    Admitted =>
        LET b == in.bundle
            back == ConvertFrom(ConvertTo(b))
        IN /\ Faulty(back.spec.sources) <=> Faulty(b.spec.sources)
           /\ ~Faulty(b.spec.sources) => Wanted(back.spec.sources) = Wanted(b.spec.sources)
           /\ Output(back.spec.target) = Output(b.spec.target)
           /\ back.annotations = b.annotations

\* The API server takes the ClusterBundle that the migration makes of a Bundle.
ConvertsToAdmissible ==
    Admitted => ValidateClusterBundle(ConvertTo(in.bundle))
=============================================================================
