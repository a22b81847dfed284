------------------------- MODULE BundleSourceProofs -------------------------
(***************************************************************************)
(* Proofs about BundleSource, for every Bundle, every set of objects, every *)
(* package and both filters.                                                *)
(***************************************************************************)
EXTENDS BundleSource, FiniteSetTheorems, SequenceTheorems, TLAPS

Reading == {"object", "entry", "block"}

-----------------------------------------------------------------------------
(* The inductive invariant *)

Shape ==
    /\ in \in Inputs
    /\ pc \in {"admit", "load", "source", "done"} \cup Reading
    /\ i \in Nat \ {0}
    /\ pc \in {"admit", "load"} => i = 1
    /\ pc \in Reading => i \in 1..Len(Sources)
    /\ pc = "block" => IsSequence(blocks)

\* What has passed the webhook and the start of the process.
Checked ==
    /\ pc \in {"load", "source"} \cup Reading => ValidateBundle(in.bundle)
    /\ pc \in {"source"} \cup Reading => (in.pkg.given => Validate(in.pkg))

\* What is left to be read belongs to the source at hand.
BelongsToSource ==
    /\ pc \in {"admit", "load", "source"} => todo = {} /\ entries = {}
    /\ pc = "object" => entries = {}
    /\ pc \in Reading =>
         \/ Refers(Source) /\ todo \subseteq Objects(Source)
         \/ todo = {} /\ entries = {}
    /\ pc \in Reading /\ entries # {} =>
         obj \in Objects(Source) /\ entries \subseteq UsedEntries(Source, obj)
    /\ pc = "block" =>
         \A b \in Range(blocks) : \E d \in Used(Source) : b \in Range(d)

\* The certificate of a block is in the pool, unless it is filtered out.
IsAdded(b) ==
    /\ ~BadBlock(b)
    /\ ParseCertificate(b) = "ok" /\ ~Filtered(b.cert) => b.cert \in pool
\* Data all of whose blocks have been added, or still are to be.
IsRead(d) == \A b \in Range(d) : IsAdded(b) \/ (pc = "block" /\ b \in Range(blocks))
IsObjectRead(s, o) ==
    /\ Key(s) # NoKey => EntriesAt(o, Key(s)) # {}
    /\ ~(SourceType(s) = "secret" /\ Key(s) = NoKey /\ o.tls)
    /\ \A e \in UsedEntries(s, o) : (o = obj /\ e \in entries) \/ IsRead(Content(o, e))

\* A source whose fields are in order, apart from the objects it selects.
IsFound(s) ==
    /\ ~HasBadSelector(s)
    /\ Refers(s) /\ Has(Ref(s), "name") => Objects(s) # {}
    /\ UsesDefaultCAs(s) => in.pkg.given

\* The sources before the one at hand have been read.
EarlierAreRead ==
    \A n \in 1..Len(Sources) : n < i =>
        /\ ~IsFaulty(Sources[n])
        /\ \A d \in Used(Sources[n]) : \A b \in Range(d) : IsAdded(b)

\* Of the one at hand, each object has been read, or is still to be read.
CurrentIsRead ==
    /\ IsFound(Source)
    /\ Refers(Source) => \A o \in Objects(Source) : o \in todo \/ IsObjectRead(Source, o)
    /\ ~Refers(Source) => \A d \in Used(Source) : IsRead(d)

ReadSoFar ==
    /\ pc \in {"source"} \cup Reading => EarlierAreRead
    /\ pc \in Reading => CurrentIsRead

\* Nothing is in the pool that does not belong there.
PoolIsWanted == pool \subseteq Wanted(Sources)

\* The package is reported once a source that uses it has been reached.
CAsReported ==
    pc # "done" \/ result = "ok" =>
        (caID <=> \E n \in 1..Len(Sources) :
                    (n < i \/ (n = i /\ pc \in Reading)) /\ UsesDefaultCAs(Sources[n]))

\* How it ends.
Outcome ==
    /\ pc = "done" <=> result # "none"
    /\ result \in {"none", "Refused", "NoStart", "ok", "NotFound", "InvalidSecret", "InvalidPEM"}
    /\ result = "ok" =>
         i > Len(Sources) /\ ~Faulty(Sources) /\ pool = Wanted(Sources) /\ pool # {}
    /\ result = "NotFound" =>
         \/ \E s \in Range(Sources) : IsMissing(s)
         \/ ~Faulty(Sources) /\ Wanted(Sources) = {}
    /\ result = "InvalidSecret" => \E s \in Range(Sources) : IsTLS(s)
    /\ result = "InvalidPEM" =>
         /\ \E s \in Range(Sources) : IsInvalid(s)
         /\ SourceType(Source) # "useDefaultCAs"

Building ==
    /\ Shape /\ Checked /\ BelongsToSource
    /\ ReadSoFar /\ PoolIsWanted /\ CAsReported /\ Outcome

-----------------------------------------------------------------------------
(* The input does not change, nor what is said of it. *)

LEMMA InputFixed ==
    ASSUME in' = in
    PROVE  /\ Sources' = Sources
           /\ \A s : Objects(s)' = Objects(s)
           /\ \A s : Used(s)' = Used(s)
           /\ \A s : IsMissing(s)' <=> IsMissing(s)
           /\ \A s : IsTLS(s)' <=> IsTLS(s)
           /\ \A s : IsInvalid(s)' <=> IsInvalid(s)
           /\ \A s : IsFaulty(s)' <=> IsFaulty(s)
           /\ \A ss : Faulty(ss)' <=> Faulty(ss)
           /\ \A ss : Wanted(ss)' = Wanted(ss)
<1>1. Sources' = Sources
  BY DEF Sources
<1>2. \A s : Objects(s)' = Objects(s)
  BY DEF Objects, Get, List
<1>3. \A s : Used(s)' = Used(s)
  BY <1>2 DEF Used
<1>4. \A s : IsMissing(s)' <=> IsMissing(s)
  BY <1>2 DEF IsMissing
<1>5. \A s : IsTLS(s)' <=> IsTLS(s)
  BY <1>2 DEF IsTLS
<1>6. \A s : IsInvalid(s)' <=> IsInvalid(s)
  BY <1>3 DEF IsInvalid
<1>7. \A s : IsFaulty(s)' <=> IsFaulty(s)
  BY <1>4, <1>5, <1>6 DEF IsFaulty
<1>8. \A ss : Faulty(ss)' <=> Faulty(ss)
  BY <1>7 DEF Faulty
<1>9. \A ss : Wanted(ss)' = Wanted(ss)
  BY <1>3 DEF Wanted
<1> QED BY <1>1, <1>2, <1>3, <1>4, <1>5, <1>6, <1>7, <1>8, <1>9

-----------------------------------------------------------------------------
(* Sequences *)

\* The first of some blocks and the others are all of them.
LEMMA RangeOfBlocks ==
    ASSUME NEW q, IsSequence(q), q # <<>>
    PROVE  /\ IsSequence(Tail(q))
           /\ Range(q) = {Head(q)} \cup Range(Tail(q))
<1> DEFINE R == Range(q)
<1>1. q \in Seq(R)
  BY DEF IsSequence
<1>2. R = {q[n] : n \in 1..Len(q)}
  BY <1>1 DEF Range
<1> HIDE DEF R
<1>3. Tail(q) \in Seq(R) /\ Len(Tail(q)) = Len(q) - 1 /\ Len(q) \in Nat \ {0}
  BY <1>1
<1>4. \A n \in 1..Len(Tail(q)) : Tail(q)[n] = q[n + 1]
  BY <1>1, <1>3
<1>5. Head(q) = q[1]
  BY <1>1
<1>6. Range(Tail(q)) = {Tail(q)[n] : n \in 1..Len(Tail(q))}
  BY <1>3, RangeEquality
<1>7. R \subseteq {Head(q)} \cup Range(Tail(q))
  <2> SUFFICES ASSUME NEW n \in 1..Len(q)
               PROVE  q[n] \in {Head(q)} \cup Range(Tail(q))
    BY <1>2
  <2>1. CASE n = 1
    BY <2>1, <1>5
  <2>2. CASE n # 1
    <3>1. n - 1 \in 1..Len(Tail(q)) /\ n = (n - 1) + 1
      BY <2>2, <1>3
    <3> QED BY <3>1, <1>4, <1>6
  <2> QED BY <2>1, <2>2
<1>8. {Head(q)} \cup Range(Tail(q)) \subseteq R
  <2>1. \A n \in 1..Len(Tail(q)) : n + 1 \in 1..Len(q)
    BY <1>3
  <2> QED BY <2>1, <1>2, <1>3, <1>4, <1>5, <1>6
<1>9. IsSequence(Tail(q))
  BY <1>3, SeqOfRange DEF IsSequence
<1> QED BY <1>7, <1>8, <1>9 DEF R

-----------------------------------------------------------------------------
(* Sources *)

\* What the assumption on inputs says of the input at hand.
LEMMA InputTypes ==
    ASSUME in \in Inputs
    PROVE  /\ Len(Sources) \in Nat
           /\ \A n \in 1..Len(Sources) : Sources[n] \in Range(Sources)
           /\ \A s \in Range(Sources) : \E n \in 1..Len(Sources) : s = Sources[n]
           /\ \A s \in Range(Sources) : IsBundleSource(s)
           /\ \A o \in in.objs : IsObject(o)
           /\ in.pkg.given => IsSequence(in.pkg.data)
<1>1. /\ IsSequence(Sources)
      /\ \A s \in Range(Sources) : IsBundleSource(s)
      /\ \A o \in in.objs : IsObject(o)
      /\ in.pkg.given => IsSequence(in.pkg.data)
  BY InputsAssumption DEF Sources, IsBundle
<1>2. Len(Sources) \in Nat /\ Range(Sources) = {Sources[n] : n \in 1..Len(Sources)}
  BY <1>1, RangeEquality DEF IsSequence
<1> QED BY <1>1, <1>2

\* The type of a source is that of a field it has.
LEMMA TypeOfSource ==
    ASSUME NEW s
    PROVE  /\ SourceType(s) \in {"configMap", "secret", "inLine", "useDefaultCAs", "unknown"}
           /\ SourceType(s) # "unknown" => SourceType(s) \in DOMAIN s
           /\ "inLine" \in DOMAIN s /\ ~Refers(s) => SourceType(s) = "inLine"
           /\ SourceType(s) = "useDefaultCAs" => DOMAIN s = {"useDefaultCAs"}
BY DEF SourceType, Has, Refers

\* What the webhook admits has one field.
LEMMA SourceHasOneField ==
    ASSUME NEW s, IsBundleSource(s), SourceOK(s)
    PROVE  \E t \in {"configMap", "secret", "inLine", "useDefaultCAs"} : DOMAIN s = {t}
<1> DEFINE types == {"configMap", "secret", "inLine", "useDefaultCAs"}
<1>1. IsFiniteSet(types)
  <2>1. types = (({"configMap"} \cup {"secret"}) \cup {"inLine"}) \cup {"useDefaultCAs"}
    OBVIOUS
  <2>2. IsFiniteSet({"configMap"})
    BY FS_Singleton
  <2>3. IsFiniteSet({"configMap"} \cup {"secret"})
    BY <2>2, FS_AddElement
  <2>4. IsFiniteSet(({"configMap"} \cup {"secret"}) \cup {"inLine"})
    BY <2>3, FS_AddElement
  <2> QED BY <2>1, <2>4, FS_AddElement
<1>2. DOMAIN s \subseteq types
  BY DEF IsBundleSource, IsObjectOf
<1>3. IsFiniteSet(DOMAIN s)
  BY <1>1, <1>2, FS_Subset
<1> QED BY <1>2, <1>3, FS_Singleton DEF SourceOK

\* It has a type, and a selector that can be parsed.
LEMMA AdmittedSource ==
    ASSUME ValidateBundle(in.bundle), NEW s \in Range(Sources), IsBundleSource(s)
    PROVE  SourceType(s) # "unknown" /\ ~HasBadSelector(s)
<1>1. SourceOK(s)
  BY DEF ValidateBundle, Sources
<1>2. PICK t \in {"configMap", "secret", "inLine", "useDefaultCAs"} : DOMAIN s = {t}
  BY <1>1, SourceHasOneField
<1>4. SourceType(s) # "unknown"
  BY <1>2 DEF SourceType, Has
<1>5. ~HasBadSelector(s)
  <2> SUFFICES ASSUME Refers(s), ~Has(Ref(s), "name") PROVE Ref(s).selector.valid
    BY DEF HasBadSelector
  <2>1. SourceType(s) \in {"configMap", "secret"} \cap DOMAIN s
    BY TypeOfSource DEF Refers
  <2>2. RefOK(Ref(s))
    BY <2>1, <1>1 DEF SourceOK, Ref, KindsOf
  <2> QED BY <2>2 DEF RefOK, SelectorOK, Has
<1> QED BY <1>4, <1>5

\* Objects of a source have its kind, and their entries are texts.
LEMMA ObjectsOfSource ==
    ASSUME in \in Inputs, NEW s, NEW o \in Objects(s)
    PROVE  /\ o \in in.objs
           /\ o.kind = SourceType(s)
           /\ \A e \in UsedEntries(s, o) : IsSequence(Content(o, e))
           /\ o.tls => SourceType(s) # "configMap"
<1>1. o \in in.objs /\ o.kind = SourceType(s)
  BY DEF Objects, Get, List
<1>2. IsObject(o)
  BY <1>1, InputTypes
<1>3. UsedEntries(s, o) \subseteq AllEntries(o)
  <2>1. ASSUME NEW f \in {"data", "binaryData"}, NEW k, NEW D, NEW E,
               (f = "data" /\ k \in D) \/ (f = "binaryData" /\ k \in E)
        PROVE  <<f, k>> \in ({"data"} \X D) \cup ({"binaryData"} \X E)
    BY <2>1
  <2>2. \A k : EntriesAt(o, k) \subseteq AllEntries(o)
    BY <2>1 DEF EntriesAt, AllEntries
  <2> QED BY <2>2 DEF UsedEntries
<1> QED BY <1>1, <1>2, <1>3 DEF IsObject

\* The data of a source without objects.
LEMMA UsedWithoutObjects ==
    ASSUME NEW s, ~Refers(s)
    PROVE  /\ SourceType(s) = "inLine" => Used(s) = {s.inLine.blocks}
           /\ UsesDefaultCAs(s) /\ in.pkg.given => Used(s) = {in.pkg.data}
           /\ SourceType(s) = "useDefaultCAs" /\ ~s.useDefaultCAs => Used(s) = {}
<1>1. /\ SourceType(s) = "inLine" => Has(s, "inLine")
      /\ SourceType(s) = "useDefaultCAs" => ~Has(s, "inLine")
  BY TypeOfSource DEF Has
<1> QED BY <1>1 DEF Used, UsesDefaultCAs

\* A source with objects uses the entries of its objects.
LEMMA UsedOfObjects ==
    ASSUME NEW s, Refers(s)
    PROVE  \A d : d \in Used(s) <=>
              \E o \in Objects(s) : \E e \in UsedEntries(s, o) : d = Content(o, e)
BY DEF Used

\* A certificate is wanted if a block of data that is used holds it and the
\* filters let it pass.
LEMMA WantedCertificate ==
    ASSUME in \in Inputs
    PROVE  \A c : c \in Wanted(Sources) <=>
              /\ ~Filtered(c)
              /\ \E n \in 1..Len(Sources) : \E d \in Used(Sources[n]) : \E b \in Range(d) :
                    ParseCertificate(b) = "ok" /\ c = b.cert
<1>1. \A d, c : c \in CertsIn(d) <=>
                \E b \in Range(d) : ParseCertificate(b) = "ok" /\ c = b.cert
  BY DEF CertsIn
<1>2. \A c : c \in Wanted(Sources) <=>
              /\ ~Filtered(c)
              /\ \E s \in Range(Sources) : \E d \in Used(s) : c \in CertsIn(d)
  BY DEF Wanted
<1> QED BY <1>1, <1>2, InputTypes

-----------------------------------------------------------------------------
(* The steps *)

LEMMA BuildingInit == Init => Building
<1> SUFFICES ASSUME Init PROVE Building
  OBVIOUS
<1>1. /\ in \in Inputs /\ pc = "admit" /\ i = 1 /\ todo = {} /\ entries = {}
      /\ pool = {} /\ caID = FALSE /\ result = "none"
  BY DEF Init
<1>2. Shape /\ Checked /\ BelongsToSource
  BY <1>1 DEF Shape, Checked, BelongsToSource, Reading
<1>3. ReadSoFar /\ PoolIsWanted /\ Outcome
  BY <1>1 DEF ReadSoFar, PoolIsWanted, Outcome, Reading
<1>4. CAsReported
  <2>1. \A n \in 1..Len(Sources) : ~(n < i) /\ ~(n = i /\ pc \in Reading)
    BY <1>1, InputTypes DEF Reading
  <2> QED BY <1>1, <2>1 DEF CAsReported
<1> QED BY <1>2, <1>3, <1>4 DEF Building

\* A step that does not end it needs nothing of the outcome.
LEMMA NoOutcomeYet ==
    ASSUME Building, pc' # "done", pc # "done", UNCHANGED result
    PROVE  Outcome'
BY DEF Building, Outcome

LEMMA SamePool ==
    ASSUME Building, UNCHANGED <<in, pool>>
    PROVE  PoolIsWanted'
BY InputFixed DEF Building, PoolIsWanted

\* An early return.
LEMMA Failing ==
    ASSUME Building, UNCHANGED <<in, i, pool>>, pc' = "done", result' # "ok", Outcome'
    PROVE  Building'
<1> USE DEF Reading
<1>1. Shape' /\ Checked' /\ BelongsToSource' /\ ReadSoFar' /\ CAsReported'
  BY DEF Building, Shape, Checked, BelongsToSource, ReadSoFar, CAsReported
<1> QED BY <1>1, SamePool DEF Building

\* Nothing is asked of a source of the right type that is refused or of a
\* package that does not let the process start.
LEMMA AdmitStep ==
    ASSUME Building, Admit
    PROVE  Building'
<1> USE DEF Reading
<1>1. CASE ValidateBundle(in.bundle)
  <2>1. /\ pc = "admit" /\ pc' = "load"
        /\ UNCHANGED <<in, i, todo, obj, entries, blocks, pool, caID, result>>
    BY <1>1 DEF Admit, Goto, reading
  <2>2. Shape' /\ Checked' /\ BelongsToSource' /\ ReadSoFar'
    BY <1>1, <2>1 DEF Building, Shape, Checked, BelongsToSource, ReadSoFar
  <2>3. CAsReported'
    BY <2>1, InputFixed DEF Building, CAsReported
  <2> QED BY <2>1, <2>2, <2>3, NoOutcomeYet, SamePool DEF Building
<1>2. CASE ~ValidateBundle(in.bundle)
  <2>1. Outcome'
    BY <1>2 DEF Admit, Return, Outcome
  <2> QED BY <1>2, <2>1, Failing DEF Admit, Return
<1> QED BY <1>1, <1>2

LEMMA LoadPackageStep ==
    ASSUME Building, LoadPackage
    PROVE  Building'
<1> USE DEF Reading
<1>1. CASE in.pkg.given /\ ~Validate(in.pkg)
  <2>1. Outcome'
    BY <1>1 DEF LoadPackage, Return, Outcome
  <2> QED BY <1>1, <2>1, Failing DEF LoadPackage, Return
<1>2. CASE ~(in.pkg.given /\ ~Validate(in.pkg))
  <2>1. /\ pc = "load" /\ pc' = "source"
        /\ UNCHANGED <<in, i, todo, obj, entries, blocks, pool, caID, result>>
    BY <1>2 DEF LoadPackage, Goto, reading
  <2>2. Shape' /\ Checked' /\ BelongsToSource'
    BY <1>2, <2>1 DEF Building, Shape, Checked, BelongsToSource
  <2>3. ReadSoFar'
    BY <2>1, InputTypes, InputFixed DEF Building, Shape, ReadSoFar, EarlierAreRead
  <2>4. CAsReported'
    BY <2>1, InputFixed DEF Building, CAsReported
  <2> QED BY <2>1, <2>2, <2>3, <2>4, NoOutcomeYet, SamePool DEF Building
<1> QED BY <1>1, <1>2

\* What has been added stays in the pool.
LEMMA AddedStays ==
    ASSUME pool \subseteq pool'
    PROVE  \A b : IsAdded(b) => IsAdded(b)'
BY DEF IsAdded

LEMMA EarlierStayRead ==
    ASSUME Building, UNCHANGED <<in, i>>, pool \subseteq pool', EarlierAreRead
    PROVE  EarlierAreRead'
BY InputFixed, AddedStays DEF EarlierAreRead

\* The first step into a source.
LEMMA StartsReading ==
    ASSUME Building, pc = "source", i <= Len(Sources), pc' \in Reading,
           UNCHANGED <<in, i, pool, result>>,
           pc' = "block" => IsSequence(blocks'), BelongsToSource', CurrentIsRead',
           caID' <=> caID \/ UsesDefaultCAs(Source)
    PROVE  Building'
<1>1. i \in 1..Len(Sources) /\ pc' # "done" /\ pc # "done"
  BY InputTypes DEF Building, Shape, Reading
<1>2. Shape'
  BY <1>1, InputFixed DEF Building, Shape, Reading
<1>3. Checked'
  BY DEF Building, Checked, Reading
<1>4. ReadSoFar'
  BY EarlierStayRead DEF Building, ReadSoFar, Reading
<1>5. CAsReported'
  <2>1. caID <=> \E n \in 1..Len(Sources) : n < i /\ UsesDefaultCAs(Sources[n])
    BY <1>1 DEF Building, CAsReported, Reading
  <2>2. caID' <=> \E n \in 1..Len(Sources) : (n < i \/ n = i) /\ UsesDefaultCAs(Sources[n])
    BY <1>1, <2>1 DEF Source
  <2> QED BY <2>2, InputFixed DEF CAsReported
<1> QED BY <1>1, <1>2, <1>3, <1>4, <1>5, SamePool, NoOutcomeYet DEF Building

\* A step within a source.
LEMMA KeepsReading ==
    ASSUME Building, pc \in Reading, pc' \in Reading,
           UNCHANGED <<in, i, caID, result>>,
           pool \subseteq pool', pool' \subseteq Wanted(Sources),
           pc' = "block" => IsSequence(blocks'), BelongsToSource', CurrentIsRead'
    PROVE  Building'
<1>1. i \in 1..Len(Sources) /\ pc' # "done" /\ pc # "done"
  BY DEF Building, Shape, Reading
<1>2. Shape'
  BY <1>1, InputFixed DEF Building, Shape, Reading
<1>3. Checked'
  BY DEF Building, Checked, Reading
<1>4. ReadSoFar'
  BY EarlierStayRead DEF Building, ReadSoFar, Reading
<1>5. CAsReported'
  BY <1>1, InputFixed DEF Building, CAsReported
<1>6. PoolIsWanted'
  BY InputFixed DEF PoolIsWanted
<1> QED BY <1>1, <1>2, <1>3, <1>4, <1>5, <1>6, NoOutcomeYet DEF Building

\* The step from a source to the next.
LEMMA GoesToNextSource ==
    ASSUME Building, pc \in {"source"} \cup Reading, i <= Len(Sources),
           pc' = "source", i' = i + 1, todo' = {}, entries' = {},
           UNCHANGED <<in, pool, caID, result>>,
           ~IsFaulty(Source),
           \A d \in Used(Source) : \A b \in Range(d) : IsAdded(b),
           pc = "source" => ~UsesDefaultCAs(Source)
    PROVE  Building'
<1>1. /\ i \in 1..Len(Sources) /\ i' \in Nat \ {0}
      /\ \A n \in 1..Len(Sources) : n < i' <=> n < i \/ n = i
  BY InputTypes DEF Building, Shape, Reading
<1>2. Shape' /\ Checked'
  BY <1>1 DEF Building, Shape, Checked, Reading
<1>3. BelongsToSource'
  BY DEF BelongsToSource, Reading
<1>4. ReadSoFar'
  <2>1. EarlierAreRead
    BY DEF Building, ReadSoFar
  <2>2. \A n \in 1..Len(Sources) : n < i' =>
           /\ ~IsFaulty(Sources[n])
           /\ \A d \in Used(Sources[n]) : \A b \in Range(d) : IsAdded(b)
    BY <1>1, <2>1 DEF EarlierAreRead, Source
  <2>3. EarlierAreRead'
    BY <2>2, InputFixed, AddedStays DEF EarlierAreRead
  <2> QED BY <2>3 DEF ReadSoFar, Reading
<1>5. CAsReported'
  <2>1. caID <=> \E n \in 1..Len(Sources) :
                   (n < i \/ (n = i /\ pc \in Reading)) /\ UsesDefaultCAs(Sources[n])
    BY DEF Building, CAsReported, Reading
  <2>2. caID <=> \E n \in 1..Len(Sources) : n < i' /\ UsesDefaultCAs(Sources[n])
    BY <1>1, <2>1 DEF Source, Reading
  <2> QED BY <2>2, InputFixed DEF CAsReported, Reading
<1>6. pc # "done" /\ pc' # "done"
  BY DEF Reading
<1> QED BY <1>2, <1>3, <1>4, <1>5, <1>6, SamePool, NoOutcomeYet DEF Building

\* The source at hand, before it is read.
LEMMA CurrentSource ==
    ASSUME Building, pc = "source", i <= Len(Sources)
    PROVE  /\ Source \in Range(Sources)
           /\ IsBundleSource(Source)
           /\ SourceType(Source) # "unknown"
           /\ ~HasBadSelector(Source)
<1>1. Source \in Range(Sources) /\ IsBundleSource(Source)
  BY InputTypes DEF Building, Shape, Source
<1>2. ValidateBundle(in.bundle)
  BY DEF Building, Checked
<1> QED BY <1>1, <1>2, AdmittedSource

\* The end: nothing was at fault, and all that is wanted is in the pool.
LEMMA FinishStep ==
    ASSUME Building, Finish
    PROVE  Building'
<1>1. /\ pc = "source" /\ i > Len(Sources) /\ pc' = "done"
      /\ UNCHANGED <<in, i, todo, obj, entries, blocks, pool, caID>>
      /\ result' = IF pool = {} THEN "NotFound" ELSE "ok"
  BY DEF Finish, Return, reading
<1>2. /\ \A n \in 1..Len(Sources) : ~IsFaulty(Sources[n])
      /\ \A n \in 1..Len(Sources) : \A d \in Used(Sources[n]) : \A b \in Range(d) : IsAdded(b)
  BY <1>1, InputTypes DEF Building, Shape, ReadSoFar, EarlierAreRead
<1>3. ~Faulty(Sources)
  BY <1>2, InputTypes DEF Faulty, Building, Shape
<1>4. Wanted(Sources) \subseteq pool
  BY <1>2, WantedCertificate DEF Building, Shape, IsAdded
<1>5. pool = Wanted(Sources)
  BY <1>4 DEF Building, PoolIsWanted
<1>6. Outcome'
  BY <1>1, <1>3, <1>5, InputFixed DEF Outcome
<1>7. Shape' /\ Checked' /\ BelongsToSource' /\ ReadSoFar'
  BY <1>1 DEF Building, Shape, Checked, BelongsToSource, ReadSoFar, Reading
<1>8. CAsReported'
  BY <1>1, InputFixed DEF Building, CAsReported, Reading
<1> QED BY <1>1, <1>6, <1>7, <1>8, SamePool DEF Building

LEMMA ReadInlineStep ==
    ASSUME Building, ReadInline
    PROVE  Building'
<1>1. /\ pc = "source" /\ i <= Len(Sources) /\ SourceType(Source) = "inLine"
      /\ blocks' = Source.inLine.blocks /\ pc' = "block"
      /\ UNCHANGED <<in, i, todo, obj, entries, pool, caID, result>>
  BY CurrentSource DEF ReadInline, HasSource, Goto
<1>2. ~Refers(Source) /\ ~UsesDefaultCAs(Source) /\ Has(Source, "inLine")
  BY <1>1, TypeOfSource DEF Refers, UsesDefaultCAs, Has
<1>3. Source' = Source /\ Used(Source) = {blocks'}
  BY <1>1, <1>2, InputFixed, UsedWithoutObjects DEF Source
<1>4. IsSequence(blocks')
  BY <1>1, <1>2, CurrentSource DEF IsBundleSource, IsText
<1>5. BelongsToSource'
  BY <1>1, <1>3, InputFixed DEF Building, BelongsToSource
<1>6. CurrentIsRead'
  <2>1. IsFound(Source)'
    BY <1>1, <1>2, <1>3, CurrentSource DEF IsFound
  <2>2. \A d \in Used(Source)' : IsRead(d)'
    BY <1>1, <1>3, InputFixed DEF IsRead
  <2> QED BY <1>2, <1>3, <2>1, <2>2 DEF CurrentIsRead
<1> QED BY <1>1, <1>2, <1>4, <1>5, <1>6, StartsReading DEF Reading

LEMMA SkipDefaultCAsStep ==
    ASSUME Building, SkipDefaultCAs
    PROVE  Building'
<1>1. /\ pc = "source" /\ i <= Len(Sources) /\ SourceType(Source) = "useDefaultCAs"
      /\ ~Source.useDefaultCAs /\ i' = i + 1
      /\ UNCHANGED <<in, pc, todo, obj, entries, blocks, pool, caID, result>>
  BY DEF SkipDefaultCAs, HasSource, reading
<1>2. ~Refers(Source) /\ ~UsesDefaultCAs(Source)
  BY <1>1 DEF Refers, UsesDefaultCAs
<1>3. Used(Source) = {}
  BY <1>1, <1>2, UsedWithoutObjects
<1>4. ~IsFaulty(Source)
  BY <1>1, <1>2, <1>3, CurrentSource DEF IsFaulty, IsMissing, IsTLS, IsInvalid
<1>5. todo' = {} /\ entries' = {}
  BY <1>1 DEF Building, BelongsToSource
<1> QED BY <1>1, <1>2, <1>3, <1>4, <1>5, GoesToNextSource

LEMMA ReadDefaultCAsStep ==
    ASSUME Building, ReadDefaultCAs
    PROVE  Building'
<1>1. /\ pc = "source" /\ i <= Len(Sources) /\ SourceType(Source) = "useDefaultCAs"
      /\ Source.useDefaultCAs
      /\ UNCHANGED <<in, i, todo, obj, entries, pool>>
  BY DEF ReadDefaultCAs, HasSource
<1>2. ~Refers(Source) /\ UsesDefaultCAs(Source)
  BY <1>1 DEF Refers, UsesDefaultCAs
<1>3. Source' = Source
  BY <1>1, InputFixed DEF Source
<1>4. CASE ~in.pkg.given
  <2>1. pc' = "done" /\ result' = "NotFound"
    BY <1>4 DEF ReadDefaultCAs, Return
  <2>2. IsMissing(Source)'
    BY <1>1, <1>2, <1>3, <1>4, InputFixed DEF IsMissing
  <2>3. Outcome'
    BY <1>1, <1>3, <2>1, <2>2, InputFixed, CurrentSource DEF Outcome
  <2> QED BY <1>1, <2>1, <2>3, Failing
<1>5. CASE in.pkg.given
  <2>1. caID' = TRUE /\ blocks' = in.pkg.data /\ pc' = "block" /\ UNCHANGED result
    BY <1>5 DEF ReadDefaultCAs, Goto
  <2>2. Used(Source) = {blocks'}
    BY <1>2, <1>5, <2>1, UsedWithoutObjects
  <2>3. IsSequence(blocks')
    BY <1>5, <2>1, InputTypes DEF Building, Shape
  <2>4. BelongsToSource'
    BY <1>1, <1>3, <2>1, <2>2, InputFixed DEF Building, BelongsToSource
  <2>5. CurrentIsRead'
    <3>1. IsFound(Source)'
      BY <1>1, <1>2, <1>3, <1>5, CurrentSource DEF IsFound
    <3>2. \A d \in Used(Source)' : IsRead(d)'
      BY <1>1, <1>3, <2>1, <2>2, InputFixed DEF IsRead
    <3> QED BY <1>2, <1>3, <3>1, <3>2 DEF CurrentIsRead
  <2> QED BY <1>1, <1>2, <2>1, <2>3, <2>4, <2>5, StartsReading DEF Reading
<1> QED BY <1>4, <1>5

LEMMA GetObjectsStep ==
    ASSUME Building, GetObjects
    PROVE  Building'
<1>1. /\ pc = "source" /\ i <= Len(Sources)
      /\ SourceType(Source) \in {"configMap", "secret"}
      /\ UNCHANGED <<in, i, obj, entries, blocks, pool, caID>>
  BY DEF GetObjects, HasSource
<1>2. Refers(Source) /\ ~UsesDefaultCAs(Source) /\ ~HasBadSelector(Source)
  BY <1>1, CurrentSource DEF Refers, UsesDefaultCAs
<1>3. Source' = Source
  BY <1>1, InputFixed DEF Source
<1>4. /\ todo' = Objects(Source)
      /\ IF Has(Ref(Source), "name") /\ Objects(Source) = {}
         THEN Return("NotFound") ELSE Goto("object")
  BY <1>1, <1>2 DEF GetObjects, Listed, Objects, HasBadSelector
<1>5. CASE Has(Ref(Source), "name") /\ Objects(Source) = {}
  <2>1. pc' = "done" /\ result' = "NotFound"
    BY <1>4, <1>5 DEF Return
  <2>2. IsMissing(Source)'
    BY <1>1, <1>2, <1>3, <1>5, InputFixed DEF IsMissing
  <2>3. Outcome'
    BY <1>1, <1>3, <2>1, <2>2, InputFixed, CurrentSource DEF Outcome
  <2> QED BY <1>1, <2>1, <2>3, Failing
<1>6. CASE ~(Has(Ref(Source), "name") /\ Objects(Source) = {})
  <2>1. pc' = "object" /\ UNCHANGED result
    BY <1>4, <1>6 DEF Goto
  <2>2. entries = {}
    BY <1>1 DEF Building, BelongsToSource
  <2>3. BelongsToSource'
    BY <1>1, <1>2, <1>3, <1>4, <2>1, <2>2, InputFixed DEF BelongsToSource, Reading
  <2>4. IsFound(Source)'
    BY <1>1, <1>2, <1>3, <1>6, InputFixed DEF IsFound
  <2>5. CurrentIsRead'
    BY <1>1, <1>2, <1>3, <1>4, <2>4, InputFixed DEF CurrentIsRead
  <2> QED BY <1>1, <1>2, <2>1, <2>3, <2>5, StartsReading DEF Reading
<1> QED BY <1>5, <1>6

\* What has been read of a source stays read, if what was to be read still is, or
\* has been read by now.
LEMMA CurrentStaysRead ==
    ASSUME CurrentIsRead, UNCHANGED <<in, i>>,
           \A d : IsRead(d) => IsRead(d)',
           \A o \in todo : o \in todo' \/ IsObjectRead(Source, o)',
           \A o, e : o = obj /\ e \in entries =>
              (o = obj' /\ e \in entries') \/ IsRead(Content(o, e))'
    PROVE  CurrentIsRead'
<1>1. Source' = Source
  BY InputFixed DEF Source
<1>2. IsFound(Source)'
  BY <1>1, InputFixed DEF CurrentIsRead, IsFound
<1>3. ASSUME NEW o, IsObjectRead(Source, o)
      PROVE  IsObjectRead(Source, o)'
  BY <1>1, <1>3 DEF IsObjectRead
<1>4. Refers(Source) => \A o \in Objects(Source)' : o \in todo' \/ IsObjectRead(Source, o)'
  BY <1>1, <1>3, InputFixed DEF CurrentIsRead
<1>5. ~Refers(Source) => \A d \in Used(Source)' : IsRead(d)'
  BY <1>1, InputFixed DEF CurrentIsRead
<1> QED BY <1>1, <1>2, <1>4, <1>5 DEF CurrentIsRead

\* When no object is left, the source has been read and is not at fault.
LEMMA SourceIsRead ==
    ASSUME Building, pc = "object", todo = {}
    PROVE  /\ ~IsFaulty(Source)
           /\ \A d \in Used(Source) : \A b \in Range(d) : IsAdded(b)
<1>1. entries = {} /\ CurrentIsRead
  BY DEF Building, BelongsToSource, ReadSoFar, Reading
<1>2. \A d \in Used(Source) : \A b \in Range(d) : IsAdded(b)
  <2>1. CASE Refers(Source)
    <3>1. \A o \in Objects(Source) : \A e \in UsedEntries(Source, o) : IsRead(Content(o, e))
      BY <1>1, <2>1 DEF CurrentIsRead, IsObjectRead
    <3> QED BY <2>1, <3>1, UsedOfObjects DEF IsRead
  <2>2. CASE ~Refers(Source)
    BY <1>1, <2>2 DEF CurrentIsRead, IsRead
  <2> QED BY <2>1, <2>2
<1>3. ~HasBadSelector(Source)
  BY <1>1 DEF CurrentIsRead, IsFound
<1>4. ~IsInvalid(Source)
  <2>1. ASSUME NEW d \in Used(Source), NEW n \in DOMAIN d PROVE ~BadBlock(d[n])
    <3>1. d[n] \in Range(d)
      BY DEF Range
    <3> QED BY <3>1, <1>2 DEF IsAdded
  <2> QED BY <2>1 DEF IsInvalid
<1>5. ~IsMissing(Source)
  <2>1. ASSUME NEW o \in Objects(Source), Refers(Source), Key(Source) # NoKey
        PROVE  Key(Source) \in DOMAIN o.data \/ Key(Source) \in DOMAIN o.binaryData
    <3>1. EntriesAt(o, Key(Source)) # {}
      BY <1>1, <2>1 DEF CurrentIsRead, IsObjectRead
    <3> QED BY <3>1 DEF EntriesAt
  <2> QED BY <1>1, <2>1 DEF IsMissing, CurrentIsRead, IsFound
<1>6. ~IsTLS(Source)
  BY <1>1 DEF IsTLS, CurrentIsRead, IsObjectRead, Refers
<1> QED BY <1>2, <1>3, <1>4, <1>5, <1>6 DEF IsFaulty

LEMMA NextObjectStep ==
    ASSUME Building, NextObject
    PROVE  Building'
<1>1. /\ pc = "object" /\ entries = {} /\ CurrentIsRead
      /\ UNCHANGED <<in, blocks, pool, caID>>
  BY DEF NextObject, Building, BelongsToSource, ReadSoFar, Reading
<1>2. i \in 1..Len(Sources) /\ Len(Sources) \in Nat /\ Source \in Range(Sources)
  BY <1>1, InputTypes DEF Building, Shape, Reading, Source
<1>3. CASE /\ todo = {} /\ i' = i + 1 /\ obj' = NoObject
           /\ Goto("source") /\ UNCHANGED <<todo, entries>>
  <2>1. pc' = "source" /\ todo' = {} /\ entries' = {} /\ UNCHANGED result /\ i <= Len(Sources)
    BY <1>1, <1>2, <1>3 DEF Goto
  <2> QED BY <1>1, <1>3, <2>1, SourceIsRead, GoesToNextSource DEF Reading
<1>4. ASSUME NEW o \in todo, todo' = todo \ {o}, obj' = o, UNCHANGED i,
             \/ /\ Key(Source) # NoKey
                /\ entries' = EntriesAt(o, Key(Source))
                /\ IF entries' = {} THEN Return("NotFound") ELSE Goto("entry")
             \/ /\ Key(Source) = NoKey /\ IncludesAllKeys(Ref(Source)) /\ o.tls
                /\ Return("InvalidSecret")
                /\ UNCHANGED entries
             \/ /\ Key(Source) = NoKey /\ IncludesAllKeys(Ref(Source)) /\ ~o.tls
                /\ entries' = AllEntries(o)
                /\ Goto("entry")
      PROVE  Building'
  <2>1. Refers(Source) /\ todo \subseteq Objects(Source) /\ o \in Objects(Source)
    BY <1>1, <1>4 DEF Building, BelongsToSource, Reading
  <2>2. Source' = Source
    BY <1>1, <1>4, InputFixed DEF Source
  <2>3. ~HasBadSelector(Source)
    BY <1>1 DEF CurrentIsRead, IsFound
  <2>4. CASE Key(Source) # NoKey /\ EntriesAt(o, Key(Source)) = {}
    <3>1. pc' = "done" /\ result' = "NotFound"
      BY <1>4, <2>4 DEF Return
    <3>2. Key(Source) \notin DOMAIN o.data /\ Key(Source) \notin DOMAIN o.binaryData
      BY <2>4 DEF EntriesAt
    <3>3. IsMissing(Source)
      BY <2>1, <2>3, <2>4, <3>2 DEF IsMissing
    <3>4. Outcome'
      BY <1>1, <1>2, <2>2, <3>1, <3>3, InputFixed DEF Outcome
    <3> QED BY <1>1, <1>4, <3>1, <3>4, Failing
  <2>5. CASE Key(Source) = NoKey /\ o.tls
    <3>1. pc' = "done" /\ result' = "InvalidSecret"
      BY <1>4, <2>5 DEF Return
    <3>2. SourceType(Source) = "secret"
      BY <2>1, <2>5, ObjectsOfSource DEF Refers, Building, Shape
    <3>3. IsTLS(Source)
      BY <2>1, <2>3, <2>5, <3>2 DEF IsTLS
    <3>4. Outcome'
      BY <1>1, <1>2, <2>2, <3>1, <3>3, InputFixed DEF Outcome
    <3> QED BY <1>1, <1>4, <3>1, <3>4, Failing
  <2>6. CASE /\ Key(Source) # NoKey => EntriesAt(o, Key(Source)) # {}
             /\ ~(Key(Source) = NoKey /\ o.tls)
    <3>1. entries' = UsedEntries(Source, o) /\ pc' = "entry" /\ UNCHANGED result
      BY <1>4, <2>6 DEF UsedEntries, Goto
    <3>2. BelongsToSource'
      BY <1>4, <2>1, <2>2, <3>1, <1>1, InputFixed DEF BelongsToSource, Reading
    <3>3. IsObjectRead(Source, o)'
      BY <1>4, <2>2, <2>6, <3>1 DEF IsObjectRead
    <3>4. \A d : IsRead(d) => IsRead(d)'
      BY <1>1, AddedStays DEF IsRead
    <3>5. CurrentIsRead'
      BY <1>1, <1>4, <3>3, <3>4, CurrentStaysRead
    <3>6. pool \subseteq pool' /\ pool' \subseteq Wanted(Sources)
      BY <1>1 DEF Building, PoolIsWanted
    <3> QED BY <1>1, <1>4, <3>1, <3>2, <3>5, <3>6, KeepsReading DEF Reading
  <2> QED BY <2>4, <2>5, <2>6
<1> QED BY <1>3, <1>4 DEF NextObject

LEMMA NextEntryStep ==
    ASSUME Building, NextEntry
    PROVE  Building'
<1>1. /\ pc = "entry" /\ CurrentIsRead
      /\ UNCHANGED <<in, i, todo, obj, pool, caID>>
  BY DEF NextEntry, Building, ReadSoFar, Reading
<1>2. Source' = Source
  BY <1>1, InputFixed DEF Source
<1>3. pool \subseteq pool' /\ pool' \subseteq Wanted(Sources)
  BY <1>1 DEF Building, PoolIsWanted
<1>4. \A d : IsRead(d) => IsRead(d)'
  BY <1>1, AddedStays DEF IsRead
<1>5. CASE entries = {} /\ Goto("object") /\ UNCHANGED <<entries, blocks>>
  <2>1. pc' = "object" /\ entries' = {} /\ UNCHANGED result
    BY <1>5 DEF Goto
  <2>2. BelongsToSource'
    BY <1>1, <1>2, <2>1, InputFixed DEF Building, BelongsToSource, Reading
  <2>3. CurrentIsRead'
    BY <1>1, <1>4, <1>5, CurrentStaysRead
  <2> QED BY <1>1, <1>3, <2>1, <2>2, <2>3, KeepsReading DEF Reading
<1>6. ASSUME NEW e \in entries, entries' = entries \ {e}, blocks' = Content(obj, e),
             Goto("block")
      PROVE  Building'
  <2>1. pc' = "block" /\ UNCHANGED result
    BY <1>6 DEF Goto
  <2>2. /\ Refers(Source) /\ todo \subseteq Objects(Source)
        /\ obj \in Objects(Source) /\ entries \subseteq UsedEntries(Source, obj)
    BY <1>1, <1>6 DEF Building, BelongsToSource, Reading
  <2>3. Content(obj, e) \in Used(Source) /\ IsSequence(blocks')
    BY <1>6, <2>2, UsedOfObjects, ObjectsOfSource DEF Building, Shape
  <2>4. BelongsToSource'
    BY <1>1, <1>2, <1>6, <2>1, <2>2, <2>3, InputFixed DEF BelongsToSource, Reading
  <2>5. \A o, f : o = obj /\ f \in entries =>
           (o = obj' /\ f \in entries') \/ IsRead(Content(o, f))'
    BY <1>1, <1>6, <2>1 DEF IsRead
  <2>6. CurrentIsRead'
    BY <1>1, <1>4, <2>5, CurrentStaysRead
  <2> QED BY <1>1, <1>3, <2>1, <2>3, <2>4, <2>6, KeepsReading DEF Reading
<1> QED BY <1>5, <1>6 DEF NextEntry

LEMMA NextBlockStep ==
    ASSUME Building, NextBlock
    PROVE  Building'
<1>1. /\ pc = "block" /\ CurrentIsRead /\ IsSequence(blocks)
      /\ UNCHANGED <<in, i, todo, obj, entries, caID>>
  BY DEF NextBlock, Building, Shape, ReadSoFar, Reading
<1>2. i \in 1..Len(Sources) /\ Source \in Range(Sources)
  BY <1>1, InputTypes DEF Building, Shape, Reading, Source
<1>3. Source' = Source
  BY <1>1, InputFixed DEF Source
<1>4. CASE blocks = <<>> /\ Goto("entry") /\ UNCHANGED <<blocks, pool>>
  <2>1. pc' = "entry" /\ UNCHANGED result
    BY <1>4 DEF Goto
  <2>2. Range(blocks) = {}
    BY <1>4 DEF Range
  <2>3. \A d : IsRead(d) => IsRead(d)'
    BY <1>4, <2>2, AddedStays DEF IsRead
  <2>4. CurrentIsRead'
    BY <1>1, <2>3, CurrentStaysRead
  <2>5. BelongsToSource'
    BY <1>1, <1>3, <2>1, InputFixed DEF Building, BelongsToSource, Reading
  <2>6. pool \subseteq pool' /\ pool' \subseteq Wanted(Sources)
    BY <1>4 DEF Building, PoolIsWanted
  <2> QED BY <1>1, <2>1, <2>4, <2>5, <2>6, KeepsReading DEF Reading
<1>5. CASE blocks # <<>>
  <2>0. PICK b : b = Head(blocks)
    OBVIOUS
  <2>1. /\ blocks' = Tail(blocks)
        /\ IF BadBlock(b) THEN Return("InvalidPEM") /\ UNCHANGED pool
           ELSE /\ pool' = IF ParseCertificate(b) = "skip" \/ Filtered(b.cert)
                           THEN pool ELSE pool \cup {b.cert}
                /\ UNCHANGED <<pc, result>>
    BY <1>5, <2>0 DEF NextBlock
  <2>2. Range(blocks) = {b} \cup Range(blocks') /\ IsSequence(blocks')
    BY <1>1, <1>5, <2>0, <2>1, RangeOfBlocks
  <2>3. PICK d \in Used(Source) : b \in Range(d)
    BY <1>1, <2>2 DEF Building, BelongsToSource
  <2>4. CASE BadBlock(b)
    <3>1. pc' = "done" /\ result' = "InvalidPEM" /\ UNCHANGED pool
      BY <2>1, <2>4 DEF Return
    <3>2. PICK n \in DOMAIN d : b = d[n]
      BY <2>3 DEF Range
    <3>3. IsInvalid(Source)
      BY <1>1, <2>3, <2>4, <3>2 DEF IsInvalid, CurrentIsRead, IsFound
    <3>4. SourceType(Source) # "useDefaultCAs"
      <4> SUFFICES ASSUME SourceType(Source) = "useDefaultCAs" PROVE FALSE
        OBVIOUS
      <4>1. ~Refers(Source)
        BY DEF Refers
      <4>2. UsesDefaultCAs(Source) /\ in.pkg.given
        BY <1>1, <2>3, <4>1, UsedWithoutObjects DEF UsesDefaultCAs, CurrentIsRead, IsFound
      <4>3. d = in.pkg.data
        BY <2>3, <4>1, <4>2, UsedWithoutObjects
      <4>4. Validate(in.pkg)
        BY <1>1, <4>2 DEF Building, Checked, Reading
      <4> QED BY <2>4, <3>2, <4>3, <4>4 DEF Validate
    <3>5. Outcome'
      BY <1>1, <1>2, <1>3, <3>1, <3>3, <3>4, InputFixed DEF Outcome
    <3> QED BY <1>1, <3>1, <3>5, Failing
  <2>5. CASE ~BadBlock(b)
    <3>1. pc' = "block" /\ UNCHANGED result /\ pool \subseteq pool'
      BY <1>1, <2>1, <2>5
    <3>2. IsAdded(b)'
      BY <2>1, <2>5 DEF IsAdded, ParseCertificate
    <3>3. pool' \subseteq Wanted(Sources)
      <4>1. ParseCertificate(b) # "skip" => ParseCertificate(b) = "ok"
        BY <2>5 DEF ParseCertificate, BadBlock
      <4>2. ParseCertificate(b) = "ok" /\ ~Filtered(b.cert) => b.cert \in Wanted(Sources)
        BY <1>2, <2>3, WantedCertificate DEF Building, Shape, Source
      <4>3. pool \subseteq Wanted(Sources)
        BY DEF Building, PoolIsWanted
      <4> QED BY <2>1, <2>5, <4>1, <4>2, <4>3
    <3>4. \A x : IsRead(x) => IsRead(x)'
      BY <1>1, <2>2, <3>1, <3>2, AddedStays DEF IsRead
    <3>5. CurrentIsRead'
      BY <1>1, <3>4, CurrentStaysRead
    <3>6. BelongsToSource'
      BY <1>1, <1>3, <2>2, <3>1, InputFixed DEF Building, BelongsToSource, Reading
    <3> QED BY <1>1, <2>2, <3>1, <3>3, <3>5, <3>6, KeepsReading DEF Reading
  <2> QED BY <2>4, <2>5
<1> QED BY <1>4, <1>5 DEF NextBlock

LEMMA BuildingNext == Building /\ [Next]_vars => Building'
<1> SUFFICES ASSUME Building, [Next]_vars PROVE Building'
  OBVIOUS
<1>1. CASE UNCHANGED vars
  <2>1. UNCHANGED <<in, pc, i, todo, obj, entries, blocks, pool, caID, result>>
    BY <1>1 DEF vars
  <2>2. Shape' /\ Checked' /\ Outcome'
    BY <2>1, InputFixed DEF Building, Shape, Checked, Outcome, Source
  <2>3. BelongsToSource' /\ CAsReported'
    BY <2>1, InputFixed DEF Building, BelongsToSource, CAsReported, Source
  <2>4. \A d : IsRead(d) => IsRead(d)'
    BY <2>1, AddedStays DEF IsRead
  <2>5. ReadSoFar'
    BY <2>1, <2>4, EarlierStayRead, CurrentStaysRead DEF Building, ReadSoFar
  <2> QED BY <2>1, <2>2, <2>3, <2>5, SamePool DEF Building
<1>2. CASE Next
  BY <1>2, AdmitStep, LoadPackageStep, FinishStep, ReadInlineStep, SkipDefaultCAsStep,
     ReadDefaultCAsStep, GetObjectsStep, NextObjectStep, NextEntryStep, NextBlockStep DEF Next
<1> QED BY <1>1, <1>2

LEMMA AlwaysBuilding == Spec => []Building
BY BuildingInit, BuildingNext, PTL DEF Spec

-----------------------------------------------------------------------------
(* Theorems *)

\* BuildBundle succeeds just if no source is at fault and a certificate is left
\* after filtering, and then returns just the certificates of the sources, for
\* every Bundle that is admitted and in whatever order objects and keys come.
THEOREM BuildsTheUnion == Spec => []IsUnionOfSources
<1>1. Building => IsUnionOfSources
  BY DEF Building, Outcome, IsUnionOfSources, Built, Faulty, IsFaulty
<1> QED BY <1>1, AlwaysBuilding, PTL

\* Whatever the order in which sources, objects, keys and blocks are met, the class
\* of the error is that of a fault that is there.
THEOREM NeverBlamesWrongly == Spec => []BlamesARealFault
<1>1. Building => BlamesARealFault
  BY DEF Building, Outcome, BlamesARealFault, Faulty, IsFaulty
<1> QED BY <1>1, AlwaysBuilding, PTL

\* The version of the default CA package is reported for just the bundles that it
\* went into.
THEOREM ReportsThePackage == Spec => []ReportsDefaultCAs
<1>1. Building => ReportsDefaultCAs
  <2> SUFFICES ASSUME Building, result = "ok"
               PROVE  caID <=> \E s \in Range(Sources) : UsesDefaultCAs(s)
    BY DEF ReportsDefaultCAs
  <2>1. pc = "done" /\ i > Len(Sources)
    BY DEF Building, Outcome
  <2>2. caID <=> \E n \in 1..Len(Sources) : UsesDefaultCAs(Sources[n])
    BY <2>1, InputTypes DEF Building, Shape, CAsReported, Reading
  <2> QED BY <2>2, InputTypes DEF Building, Shape
<1> QED BY <1>1, AlwaysBuilding, PTL

\* The check of the package at the start is enough: no bundle fails on it.
THEOREM PackageNeverFails == Spec => []AcceptedPackageIsValid
<1>1. Building => AcceptedPackageIsValid
  BY DEF Building, Outcome, AcceptedPackageIsValid
<1> QED BY <1>1, AlwaysBuilding, PTL

\* The webhook keeps every Bundle away on which BuildBundle would panic or fail to
\* parse a selector.
THEOREM WebhookSuffices == Spec => []AdmittedIsUnderstood
<1>1. Building => AdmittedIsUnderstood
  BY DEF Building, Outcome, AdmittedIsUnderstood
<1> QED BY <1>1, AlwaysBuilding, PTL
=============================================================================
