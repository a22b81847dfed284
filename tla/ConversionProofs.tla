-------------------------- MODULE ConversionProofs --------------------------
(***************************************************************************)
(* Proofs about the conversion of admitted Bundles, for lists of sources of *)
(* any length and every target.                                             *)
(***************************************************************************)
EXTENDS BundleSourceProofs, SelectionProofs

-----------------------------------------------------------------------------
(* References *)

\* The reference that an admitted source becomes.
LEMMA ReferenceMade ==
    ASSUME NEW s, IsBundleSource(s), SourceOK(s), Refers(s)
    PROVE  LET r == Ref(s)
               ref == ToSourceRef(s)
           IN /\ RefOK(r) /\ IsSourceObjectKeySelector(r)
              /\ DOMAIN s = {SourceType(s)}
              /\ DOMAIN ref = {"kind", "key"} \cup ({"name", "selector"} \cap DOMAIN r)
              /\ ref.kind = IF SourceType(s) = "secret" THEN "Secret" ELSE "ConfigMap"
              /\ ref.key = IF IncludesAllKeys(r) THEN "*" ELSE r.key
              /\ Has(r, "name") => ref.name = r.name
              /\ Has(r, "selector") => ref.selector = r.selector
<1> DEFINE r == Ref(s)
           ref == ToSourceRef(s)
           k == IF Has(s, "secret") THEN "Secret" ELSE "ConfigMap"
<1>1. PICK t \in {"configMap", "secret", "inLine", "useDefaultCAs"} : DOMAIN s = {t}
  BY SourceHasOneField
<1>2. /\ SourceType(s) = t /\ t \in {"configMap", "secret"}
      /\ r = s[t] /\ t \in KindsOf(s)
  <2>1. SourceType(s) \in DOMAIN s /\ SourceType(s) \in {"configMap", "secret"}
    BY TypeOfSource DEF Refers
  <2> QED BY <1>1, <2>1 DEF Ref, KindsOf
<1>3. RefOK(r) /\ IsSourceObjectKeySelector(r)
  BY <1>2 DEF SourceOK, IsBundleSource
<1>4. (Has(s, "configMap") \/ Has(s, "secret")) /\ (Has(s, "secret") <=> t = "secret")
  BY <1>1, <1>2 DEF Has
<1>5. r = IF Has(s, "secret") THEN s.secret ELSE s.configMap
  BY <1>2, <1>4
<1>6. ref = Field("kind", k) ++ Fields(r, {"name", "selector"})
            ++ IF IncludesAllKeys(r) THEN Field("key", "*") ELSE Fields(r, {"key"})
  BY <1>4, <1>5 DEF ToSourceRef
<1> HIDE DEF ref, r, k
<1>7. Has(r, "key") <=> ~IncludesAllKeys(r)
  BY <1>3 DEF RefOK, IncludesAllKeys, Has, IsSourceObjectKeySelector
<1>8. DOMAIN ref = {"kind", "key"} \cup ({"name", "selector"} \cap DOMAIN r)
  BY <1>6, <1>7 DEF Has, Field, Fields, ++
<1>9. /\ ref.kind = k
      /\ ref.key = IF IncludesAllKeys(r) THEN "*" ELSE r.key
      /\ Has(r, "name") => ref.name = r.name
      /\ Has(r, "selector") => ref.selector = r.selector
  BY <1>6, <1>7 DEF Has, Field, Fields, ++
<1> QED BY <1>1, <1>2, <1>3, <1>4, <1>8, <1>9 DEF ref, r, k

\* Sources that refer to the same objects and keys.
SameReference(s, t) ==
    /\ Refers(s) /\ SourceType(t) = SourceType(s)
    /\ Key(t) = Key(s)
    /\ Has(Ref(t), "name") <=> Has(Ref(s), "name")
    /\ Has(Ref(s), "name") => Ref(t).name = Ref(s).name
    /\ ~Has(Ref(s), "name") => Ref(t).selector = Ref(s).selector

LEMMA ReferenceKept ==
    ASSUME NEW s, IsBundleSource(s), SourceOK(s), Refers(s),
           Key(s) \in DataKeys \cup {NoKey}
    PROVE  SameReference(s, FromSourceRef(ToSourceRef(s)))
<1> DEFINE r == Ref(s)
           ref == ToSourceRef(s)
           back == FromSourceRef(ref)
           type == IF ref.kind = "Secret" THEN "secret" ELSE "configMap"
           q == Fields(ref, {"name", "selector"}) ++
                IF ref.key = "*" THEN Field("includeAllKeys", TRUE) ELSE Field("key", ref.key)
<1>1. /\ RefOK(r) /\ IsSourceObjectKeySelector(r)
      /\ DOMAIN ref = {"kind", "key"} \cup ({"name", "selector"} \cap DOMAIN r)
      /\ ref.kind = IF SourceType(s) = "secret" THEN "Secret" ELSE "ConfigMap"
      /\ ref.key = IF IncludesAllKeys(r) THEN "*" ELSE r.key
      /\ Has(r, "name") => ref.name = r.name
      /\ Has(r, "selector") => ref.selector = r.selector
  BY ReferenceMade
<1>2. back = Field(type, q)
  BY DEF FromSourceRef
<1>3. type = SourceType(s) /\ type \in {"configMap", "secret"}
  BY <1>1 DEF Refers
<1> HIDE DEF ref, back, q, type
<1>4. SourceType(back) = type /\ back[type] = q
  BY <1>2, <1>3 DEF Field, SourceType, Has
<1>5. Ref(back) = q
  BY <1>4 DEF Ref
<1>6. Key(s) = IF IncludesAllKeys(r) THEN NoKey ELSE r.key
  <2>1. Has(r, "key") <=> ~IncludesAllKeys(r)
    BY <1>1 DEF RefOK, IncludesAllKeys, Has, IsSourceObjectKeySelector
  <2> QED BY <2>1 DEF Key, r
<1>7. ref.key = "*" <=> IncludesAllKeys(r)
  <2>1. ~IncludesAllKeys(r) => r.key # "*"
    <3>1. "*" \notin DataKeys \cup {NoKey}
      BY SchemaAssumption DEF NoKey
    <3> QED BY <1>6, <3>1
  <2> QED BY <1>1, <2>1
<1>8. /\ Has(q, "key") <=> ~IncludesAllKeys(r)
      /\ Has(q, "key") => q.key = ref.key
      /\ Has(q, "name") <=> Has(r, "name")
      /\ Has(r, "name") => q.name = r.name
      /\ Has(r, "selector") => q.selector = r.selector
  BY <1>1, <1>7 DEF q, Has, Field, Fields, ++
<1>9. Key(back) = Key(s)
  BY <1>1, <1>5, <1>6, <1>8 DEF Key
<1>10. ~Has(r, "name") => Has(r, "selector")
  BY <1>1 DEF RefOK, Has
<1> QED BY <1>3, <1>4, <1>5, <1>8, <1>9, <1>10 DEF SameReference, r, back, ref

\* They are read alike.
LEMMA ReferenceReadAlike ==
    ASSUME NEW s, NEW t, SameReference(s, t)
    PROVE  /\ Refers(t) /\ Used(t) = Used(s)
           /\ IsFaulty(t) <=> IsFaulty(s)
<1>1. /\ SourceType(t) = SourceType(s) /\ Key(t) = Key(s)
      /\ Refers(s) /\ Refers(t)
      /\ Has(Ref(t), "name") <=> Has(Ref(s), "name")
      /\ Has(Ref(s), "name") => Ref(t).name = Ref(s).name
      /\ ~Has(Ref(s), "name") => Ref(t).selector = Ref(s).selector
  BY DEF SameReference, Refers
<1>2. Objects(t) = Objects(s)
  BY <1>1 DEF Objects
<1>3. \A o : UsedEntries(t, o) = UsedEntries(s, o)
  BY <1>1 DEF UsedEntries
<1>4. Used(t) = Used(s)
  BY <1>1, <1>2, <1>3 DEF Used
<1>5. HasBadSelector(t) <=> HasBadSelector(s)
  BY <1>1 DEF HasBadSelector
<1>6. ~UsesDefaultCAs(s) /\ ~UsesDefaultCAs(t)
  BY <1>1 DEF UsesDefaultCAs, Refers
<1>7. IsMissing(t) <=> IsMissing(s)
  BY <1>1, <1>2, <1>5, <1>6 DEF IsMissing
<1>8. IsTLS(t) <=> IsTLS(s)
  BY <1>1, <1>2, <1>5 DEF IsTLS
<1>9. IsInvalid(t) <=> IsInvalid(s)
  BY <1>4, <1>5 DEF IsInvalid
<1> QED BY <1>1, <1>4, <1>5, <1>7, <1>8, <1>9 DEF IsFaulty

-----------------------------------------------------------------------------
(* Lists of sources that stand for the same bundle *)

HasOneField(s) == \E t \in {"configMap", "secret", "inLine", "useDefaultCAs"} : DOMAIN s = {t}
InLineBlocks(ss) == UNION {Range(s.inLine.blocks) : s \in {x \in Range(ss) : Has(x, "inLine")}}
UsePackage(ss) == \E s \in Range(ss) : UsesDefaultCAs(s)

\* What is used: references one by one, the inline sources and the package as a
\* whole.
LEMMA SourcesInParts ==
    ASSUME NEW ss, \A s \in Range(ss) : HasOneField(s)
    PROVE  /\ Faulty(ss) <=>
                \/ \E s \in Range(ss) : Refers(s) /\ IsFaulty(s)
                \/ \E b \in InLineBlocks(ss) : BadBlock(b)
                \/ UsePackage(ss) /\ (in.pkg.given => \E b \in Range(in.pkg.data) : BadBlock(b))
           /\ \A c : c \in Wanted(ss) <=>
                /\ ~Filtered(c)
                /\ \/ \E s \in Range(ss) : Refers(s) /\ \E d \in Used(s) : c \in CertsIn(d)
                   \/ \E b \in InLineBlocks(ss) : ParseCertificate(b) = "ok" /\ c = b.cert
                   \/ UsePackage(ss) /\ in.pkg.given /\ c \in CertsIn(in.pkg.data)
<1>1. ASSUME NEW s \in Range(ss)
      PROVE  \/ Refers(s) /\ ~Has(s, "inLine") /\ ~UsesDefaultCAs(s)
             \/ ~Refers(s) /\ Has(s, "inLine") /\ ~UsesDefaultCAs(s)
             \/ ~Refers(s) /\ ~Has(s, "inLine")
  BY TypeOfSource DEF HasOneField, Refers, UsesDefaultCAs, SourceType, Has
<1>2. \A b : b \in InLineBlocks(ss) <=>
             \E s \in Range(ss) : Has(s, "inLine") /\ b \in Range(s.inLine.blocks)
  BY DEF InLineBlocks
<1>3. ASSUME NEW s \in Range(ss), ~Refers(s)
      PROVE  Used(s) = (IF Has(s, "inLine") THEN {s.inLine.blocks} ELSE {})
                 \cup (IF UsesDefaultCAs(s) /\ in.pkg.given THEN {in.pkg.data} ELSE {})
  BY <1>3 DEF Used
<1>4. \A d : (\E n \in DOMAIN d : BadBlock(d[n])) <=> \E b \in Range(d) : BadBlock(b)
  BY DEF Range
<1>5. ASSUME NEW s \in Range(ss), Has(s, "inLine"), ~Refers(s), ~UsesDefaultCAs(s)
      PROVE  /\ Used(s) = {s.inLine.blocks}
             /\ IsFaulty(s) <=> \E b \in Range(s.inLine.blocks) : BadBlock(b)
  <2>1. Used(s) = {s.inLine.blocks}
    BY <1>3, <1>5
  <2>2. ~IsMissing(s) /\ ~IsTLS(s) /\ ~HasBadSelector(s)
    BY <1>5 DEF IsMissing, IsTLS, HasBadSelector, Refers
  <2> QED BY <1>4, <2>1, <2>2 DEF IsFaulty, IsInvalid
<1>6. ASSUME NEW s \in Range(ss), ~Has(s, "inLine"), ~Refers(s)
      PROVE  /\ Used(s) = IF UsesDefaultCAs(s) /\ in.pkg.given THEN {in.pkg.data} ELSE {}
             /\ IsFaulty(s) <=> UsesDefaultCAs(s) /\
                    (in.pkg.given => \E b \in Range(in.pkg.data) : BadBlock(b))
  <2>1. Used(s) = IF UsesDefaultCAs(s) /\ in.pkg.given THEN {in.pkg.data} ELSE {}
    BY <1>3, <1>6
  <2>2. /\ ~IsTLS(s) /\ ~HasBadSelector(s)
        /\ IsMissing(s) <=> UsesDefaultCAs(s) /\ ~in.pkg.given
    BY <1>6 DEF IsMissing, IsTLS, HasBadSelector, Refers
  <2> QED BY <1>4, <2>1, <2>2 DEF IsFaulty, IsInvalid
<1>7. \A d, c : c \in CertsIn(d) <=>
                \E b \in Range(d) : ParseCertificate(b) = "ok" /\ c = b.cert
  BY DEF CertsIn
<1>8. \A c : c \in Wanted(ss) <=>
             ~Filtered(c) /\ \E s \in Range(ss) : \E d \in Used(s) : c \in CertsIn(d)
  BY DEF Wanted
<1>9. ASSUME NEW s \in Range(ss)
      PROVE  IsFaulty(s) <=>
               \/ Refers(s) /\ IsFaulty(s)
               \/ Has(s, "inLine") /\ \E b \in Range(s.inLine.blocks) : BadBlock(b)
               \/ UsesDefaultCAs(s) /\
                    (in.pkg.given => \E b \in Range(in.pkg.data) : BadBlock(b))
  BY <1>1, <1>5, <1>6
<1>10. ASSUME NEW s \in Range(ss), NEW c
       PROVE  (\E d \in Used(s) : c \in CertsIn(d)) <=>
               \/ Refers(s) /\ \E d \in Used(s) : c \in CertsIn(d)
               \/ Has(s, "inLine") /\ c \in CertsIn(s.inLine.blocks)
               \/ UsesDefaultCAs(s) /\ in.pkg.given /\ c \in CertsIn(in.pkg.data)
  BY <1>1, <1>5, <1>6
<1>11. Faulty(ss) <=>
                \/ \E s \in Range(ss) : Refers(s) /\ IsFaulty(s)
                \/ \E b \in InLineBlocks(ss) : BadBlock(b)
                \/ UsePackage(ss) /\ (in.pkg.given => \E b \in Range(in.pkg.data) : BadBlock(b))
  BY <1>2, <1>9 DEF Faulty, UsePackage
<1>12. ASSUME NEW c
       PROVE  c \in Wanted(ss) <=>
                /\ ~Filtered(c)
                /\ \/ \E s \in Range(ss) : Refers(s) /\ \E d \in Used(s) : c \in CertsIn(d)
                   \/ \E b \in InLineBlocks(ss) : ParseCertificate(b) = "ok" /\ c = b.cert
                   \/ UsePackage(ss) /\ in.pkg.given /\ c \in CertsIn(in.pkg.data)
  <2>1. (\E s \in Range(ss) : \E d \in Used(s) : c \in CertsIn(d)) <=>
           \/ \E s \in Range(ss) : Refers(s) /\ \E d \in Used(s) : c \in CertsIn(d)
           \/ \E s \in Range(ss) : Has(s, "inLine") /\ c \in CertsIn(s.inLine.blocks)
           \/ UsePackage(ss) /\ in.pkg.given /\ c \in CertsIn(in.pkg.data)
    BY <1>10 DEF UsePackage
  <2>2. (\E s \in Range(ss) : Has(s, "inLine") /\ c \in CertsIn(s.inLine.blocks)) <=>
        \E b \in InLineBlocks(ss) : ParseCertificate(b) = "ok" /\ c = b.cert
    BY <1>2, <1>7
  <2> QED BY <1>8, <2>1, <2>2
<1> QED BY <1>11, <1>12

LEMMA SameBundle ==
    ASSUME NEW ss, NEW tt,
           \A s \in Range(ss) : HasOneField(s),
           \A t \in Range(tt) : HasOneField(t),
           \A s \in Range(ss) : Refers(s) => \E t \in Range(tt) : SameReference(s, t),
           \A t \in Range(tt) : Refers(t) => \E s \in Range(ss) : SameReference(s, t),
           InLineBlocks(tt) = InLineBlocks(ss),
           UsePackage(tt) <=> UsePackage(ss)
    PROVE  (Faulty(tt) <=> Faulty(ss)) /\ Wanted(tt) = Wanted(ss)
<1>1. \A s, t : SameReference(s, t) => Refers(s)
  BY DEF SameReference
<1>2. (\E s \in Range(ss) : Refers(s) /\ IsFaulty(s)) <=>
      (\E t \in Range(tt) : Refers(t) /\ IsFaulty(t))
  BY <1>1, ReferenceReadAlike
<1>3. \A c : (\E s \in Range(ss) : Refers(s) /\ \E d \in Used(s) : c \in CertsIn(d)) <=>
             (\E t \in Range(tt) : Refers(t) /\ \E d \in Used(t) : c \in CertsIn(d))
  BY <1>1, ReferenceReadAlike
<1>4. Faulty(tt) <=> Faulty(ss)
  BY <1>2, SourcesInParts
<1>5. \A c : c \in Wanted(tt) <=> c \in Wanted(ss)
  BY <1>3, SourcesInParts
<1>6. Wanted(tt) \subseteq Wanted(ss) /\ Wanted(ss) \subseteq Wanted(tt)
  BY <1>5
<1> QED BY <1>4, <1>6
-----------------------------------------------------------------------------
(* Inline sources *)

JoinedUpTo(f, q, n) ==
    IF n = 1 THEN q[1].inLine ELSE JoinText(f[n - 1], q[n].inLine)

LEMMA JoiningExists ==
    ASSUME NEW q, NEW N \in Nat
    PROVE  \E f : f = [k \in 1..N |-> JoinedUpTo(f, q, k)]
<1> DEFINE Join(n, f) == f = [k \in 1..n |-> JoinedUpTo(f, q, k)]
           bad == {n \in Nat : ~\E f : Join(n, f)}
<1> SUFFICES ASSUME N \in bad PROVE FALSE
  OBVIOUS
<1>1. PICK n \in bad : \A m \in bad : n <= m
  <2>1. bad \subseteq Nat
    OBVIOUS
  <2> HIDE DEF bad
  <2> QED BY <2>1, LeastNatural
<1>2. n # 0
  <2> DEFINE f == [k \in 1..0 |-> <<>>]
  <2>1. Join(0, f)
    OBVIOUS
  <2> QED BY <1>1, <2>1
<1>3. n - 1 \in Nat \ bad
  <2>1. n \in Nat /\ n - 1 \in Nat /\ ~(n <= n - 1)
    BY <1>1, <1>2
  <2> HIDE DEF bad
  <2> QED BY <1>1, <2>1
<1>4. PICK f : Join(n - 1, f)
  BY <1>3
<1> DEFINE g == [k \in 1..n |-> IF k = n THEN JoinedUpTo(f, q, n) ELSE f[k]]
<1>5. ASSUME NEW k \in 1..n PROVE g[k] = JoinedUpTo(g, q, k)
  <2>1. n \in Nat
    BY <1>1
  <2>2. CASE k = n
    <3>1. k # 1 => g[k - 1] = f[k - 1]
      BY <2>1, <2>2
    <3> QED BY <2>2, <2>1, <3>1 DEF JoinedUpTo
  <2>3. CASE k # n
    <3>1. k \in 1..n - 1 /\ (k # 1 => k - 1 \in 1..n /\ k - 1 # n)
      BY <2>1, <2>3
    <3>2. g[k] = f[k] /\ (k # 1 => g[k - 1] = f[k - 1])
      BY <3>1, <2>3
    <3>3. f[k] = JoinedUpTo(f, q, k)
      BY <1>4, <3>1
    <3> QED BY <3>2, <3>3 DEF JoinedUpTo
  <2> QED BY <2>2, <2>3
<1>6. Join(n, g)
  BY <1>5
<1> QED BY <1>1, <1>6

LEMMA JoiningUnfolds ==
    ASSUME NEW q, Len(q) \in Nat
    PROVE  \E f : /\ f = [k \in 1..Len(q) |-> JoinedUpTo(f, q, k)]
                  /\ JoinTexts(q) = f[Len(q)]
<1> DEFINE f == CHOOSE f : f = [k \in 1..Len(q) |-> JoinedUpTo(f, q, k)]
<1>1. f = [k \in 1..Len(q) |-> JoinedUpTo(f, q, k)]
  <2>1. \E g : g = [k \in 1..Len(q) |-> JoinedUpTo(g, q, k)]
    BY JoiningExists
  <2> QED BY <2>1
<1>2. JoinTexts(q) = f[Len(q)]
  BY DEF JoinTexts, JoinedUpTo
<1> QED BY <1>1, <1>2

\* Two texts joined have the blocks of both.
LEMMA TextsJoin ==
    ASSUME NEW a, NEW b, IsText(a), IsText(b)
    PROVE  /\ IsText(JoinText(a, b))
           /\ Range(JoinText(a, b).blocks) = Range(a.blocks) \cup Range(b.blocks)
<1> DEFINE R == Range(a.blocks) \cup Range(b.blocks)
           q == a.blocks \o b.blocks
<1>1. JoinText(a, b).blocks = q /\ JoinText(a, b).newline = b.newline
      /\ JoinText(a, b).len = a.len + b.len + IF a.newline THEN 0 ELSE 1
  BY DEF JoinText
<1>2. a.blocks \in Seq(R) /\ b.blocks \in Seq(R)
  BY DEF IsText, IsSequence
<1>3. Range(q) = R
  BY <1>2, RangeConcatenation
<1>4. q \in Seq(R)
  BY <1>2
<1> QED BY <1>1, <1>3, <1>4 DEF IsText, IsSequence

\* So have any number of them.
LEMMA JoinedText ==
    ASSUME NEW q, IsSequence(q), q # <<>>,
           \A s \in Range(q) : Has(s, "inLine") /\ IsText(s.inLine)
    PROVE  IsText(JoinTexts(q)) /\ Range(JoinTexts(q).blocks) = InLineBlocks(q)
<1> DEFINE N == Len(q)
           B(m) == Range(q[m].inLine.blocks)
<1>1. N \in Nat \ {0} /\ Range(q) = {q[m] : m \in 1..N}
  BY RangeEquality DEF IsSequence
<1>2. PICK f : f = [k \in 1..N |-> JoinedUpTo(f, q, k)] /\ JoinTexts(q) = f[N]
  BY <1>1, JoiningUnfolds
<1> DEFINE Good(n) == IsText(f[n]) /\ Range(f[n].blocks) = UNION {B(m) : m \in 1..n}
           bad == {n \in 1..N : ~Good(n)}
<1> HIDE DEF N
<1>3. bad = {}
  <2> SUFFICES ASSUME bad # {} PROVE FALSE
    OBVIOUS
  <2>1. PICK n \in bad : \A m \in bad : n <= m
    <3>1. bad \subseteq Nat
      BY <1>1
    <3> HIDE DEF bad
    <3> QED BY <3>1, LeastNatural
  <2>2. n \in 1..N /\ f[n] = JoinedUpTo(f, q, n)
    BY <1>2, <2>1
  <2>3. IsText(q[n].inLine)
    BY <1>1, <2>2
  <2>4. n # 1
    <3> SUFFICES ASSUME n = 1 PROVE Good(n)
      BY <2>1
    <3>1. f[n] = q[n].inLine
      BY <2>2 DEF JoinedUpTo
    <3>2. 1..n = {n}
      OBVIOUS
    <3>3. UNION {B(m) : m \in 1..n} = B(n)
      BY <3>2
    <3> QED BY <2>3, <3>1, <3>3
  <2>5. n - 1 \in 1..N /\ Good(n - 1)
    <3>1. n - 1 \in 1..N /\ ~(n <= n - 1)
      BY <1>1, <2>2, <2>4
    <3>2. n - 1 \notin bad
      <4> HIDE DEF bad
      <4> QED BY <2>1, <3>1
    <3> QED BY <3>1, <3>2
  <2>6. UNION {B(m) : m \in 1..n} = (UNION {B(m) : m \in 1..n - 1}) \cup B(n)
    <3>1. 1..n = (1..n - 1) \cup {n}
      BY <1>1, <2>2, <2>4
    <3> HIDE DEF B
    <3> QED BY <3>1
  <2>7. f[n] = JoinText(f[n - 1], q[n].inLine)
    BY <2>2, <2>4 DEF JoinedUpTo
  <2>8. Good(n)
    <3> HIDE DEF bad
    <3> QED BY <2>3, <2>5, <2>6, <2>7, TextsJoin
  <2> QED BY <2>1, <2>8
<1>4. Good(N)
  <2>1. N \in 1..N
    BY <1>1
  <2> QED BY <1>3, <2>1
<1>5. InLineBlocks(q) = UNION {B(m) : m \in 1..N}
  <2>1. {x \in Range(q) : Has(x, "inLine")} = Range(q)
    OBVIOUS
  <2>2. {Range(s.inLine.blocks) : s \in Range(q)} = {B(m) : m \in 1..N}
    BY <1>1
  <2> QED BY <2>1, <2>2 DEF InLineBlocks
<1> QED BY <1>2, <1>4, <1>5

\* The one inline text of a ClusterBundle has the blocks of all inline sources.
LEMMA InLineConverted ==
    ASSUME NEW ss, IsSequence(ss), \A s \in Range(ss) : IsBundleSource(s)
    PROVE  LET c == ToInLineCAs(ss)
           IN /\ c = <<>> \/ DOMAIN c = {"inLineCAs"}
              /\ Has(c, "inLineCAs") => /\ IsText(c.inLineCAs)
                                        /\ Range(c.inLineCAs.blocks) = InLineBlocks(ss)
              /\ ~Has(c, "inLineCAs") => InLineBlocks(ss) = {}
              /\ Has(c, "inLineCAs") <=> \E s \in Range(ss) : Has(s, "inLine")
<1> DEFINE S == {s \in Range(ss) : Has(s, "inLine")}
           inline == SelectIn(ss, S)
           c == ToInLineCAs(ss)
<1>1. inline \in Seq(Range(ss)) /\ Range(inline) = S
  <2>1. ss \in Seq(Range(ss))
    BY DEF IsSequence
  <2>2. inline \in Seq(Range(ss)) /\ Range(inline) = Range(ss) \cap S
    BY <2>1, SelectionProperties
  <2> QED BY <2>2
<1>2. IsSequence(inline)
  BY <1>1, SeqOfRange DEF IsSequence
<1>3. c = IF inline = <<>> THEN <<>> ELSE Field("inLineCAs", JoinTexts(inline))
  BY DEF ToInLineCAs
<1> HIDE DEF inline, c
<1>4. InLineBlocks(inline) = InLineBlocks(ss)
  <2>1. {x \in Range(inline) : Has(x, "inLine")} = S
    BY <1>1
  <2> QED BY <2>1 DEF InLineBlocks
<1>5. inline = <<>> <=> S = {}
  BY <1>1, <1>2, RangeEquality DEF IsSequence
<1>6. CASE inline = <<>>
  <2>1. InLineBlocks(ss) = {}
    BY <1>5, <1>6 DEF InLineBlocks
  <2>2. c = <<>> /\ ~Has(c, "inLineCAs")
    BY <1>3, <1>6 DEF Has
  <2> QED BY <1>5, <1>6, <2>1, <2>2 DEF c
<1>7. CASE inline # <<>>
  <2>1. \A s \in Range(inline) : Has(s, "inLine") /\ IsText(s.inLine)
    BY <1>1 DEF IsBundleSource
  <2>2. IsText(JoinTexts(inline)) /\ Range(JoinTexts(inline).blocks) = InLineBlocks(ss)
    BY <1>2, <1>4, <1>7, <2>1, JoinedText
  <2>3. DOMAIN c = {"inLineCAs"} /\ c.inLineCAs = JoinTexts(inline)
    BY <1>3, <1>7 DEF Field
  <2>4. \E s \in Range(ss) : Has(s, "inLine")
    BY <1>5, <1>7
  <2> QED BY <2>2, <2>3, <2>4 DEF Has, c
<1> QED BY <1>6, <1>7
-----------------------------------------------------------------------------
(* References and default CAs *)

\* The references of a ClusterBundle are those of the Bundle.
LEMMA RefsConverted ==
    ASSUME NEW ss, IsSequence(ss),
           \A s \in Range(ss) : IsBundleSource(s) /\ SourceOK(s)
    PROVE  LET c == ToSourceRefs(ss)
               refs == IF Has(c, "sourceRefs") THEN c.sourceRefs ELSE <<>>
           IN /\ c = <<>> \/ DOMAIN c = {"sourceRefs"}
              /\ IsSequence(refs) /\ Len(refs) <= Len(ss)
              /\ Range(refs) = {ToSourceRef(s) : s \in {x \in Range(ss) : Refers(x)}}
              /\ (\E s \in Range(ss) : Refers(s)) => Has(c, "sourceRefs")
<1> DEFINE all == [n \in DOMAIN ss |-> ToSourceRef(ss[n])]
           S == Range(all) \ {<<>>}
           refs == SelectIn(all, S)
           c == ToSourceRefs(ss)
           made == {ToSourceRef(s) : s \in {x \in Range(ss) : Refers(x)}}
<1>1. ss \in Seq(Range(ss)) /\ DOMAIN ss = 1..Len(ss) /\ Len(ss) \in Nat
  BY DEF IsSequence
<1>2. all \in Seq(Range(all)) /\ Len(all) = Len(ss)
  <2>1. DOMAIN all = 1..Len(ss)
    BY <1>1
  <2>2. \A n \in 1..Len(ss) : all[n] \in Range(all)
    BY <2>1 DEF Range
  <2>3. all = [n \in 1..Len(ss) |-> all[n]]
    BY <2>1
  <2> HIDE DEF all
  <2>4. all \in Seq(Range(all))
    BY <1>1, <2>2, <2>3
  <2> QED BY <1>1, <2>1, <2>4
<1>3. Range(all) = {ToSourceRef(s) : s \in Range(ss)}
  <2>1. Range(all) = {ToSourceRef(ss[n]) : n \in DOMAIN ss}
    BY DEF Range
  <2>2. Range(ss) = {ss[n] : n \in DOMAIN ss}
    BY DEF Range
  <2> HIDE DEF all
  <2> QED BY <2>1, <2>2
<1>4. ASSUME NEW s \in Range(ss) PROVE ToSourceRef(s) # <<>> <=> Refers(s)
  <2>1. HasOneField(s)
    BY SourceHasOneField DEF HasOneField
  <2>2. CASE Refers(s)
    <3>1. "kind" \in DOMAIN ToSourceRef(s)
      BY <2>2, ReferenceMade
    <3>2. DOMAIN <<>> = {}
      OBVIOUS
    <3> QED BY <2>2, <3>1, <3>2
  <2>3. CASE ~Refers(s)
    <3>1. ~Has(s, "configMap") /\ ~Has(s, "secret")
      BY <2>1, <2>3 DEF HasOneField, Refers, SourceType, Has
    <3> QED BY <2>3, <3>1 DEF ToSourceRef
  <2> QED BY <2>2, <2>3
<1>5. Range(all) \cap S = made
  <2> HIDE DEF all
  <2> QED BY <1>3, <1>4
<1>6. refs \in Seq(Range(all)) /\ Range(refs) = made /\ Len(refs) <= Len(ss)
  <2> HIDE DEF all, made, S
  <2> QED BY <1>2, <1>5, SelectionProperties
<1>7. c = FieldIf(refs # <<>>, "sourceRefs", refs)
  BY DEF ToSourceRefs
<1> HIDE DEF all, refs, c, made
<1>8. IsSequence(refs)
  BY <1>6, SeqOfRange DEF IsSequence
<1>9. refs = <<>> <=> made = {}
  BY <1>6, <1>8, RangeEquality DEF IsSequence
<1>10. /\ refs = <<>> => c = <<>>
       /\ refs # <<>> => DOMAIN c = {"sourceRefs"} /\ c.sourceRefs = refs
  BY <1>7 DEF FieldIf, Field
<1>11. refs = IF Has(c, "sourceRefs") THEN c.sourceRefs ELSE <<>>
  BY <1>10 DEF Has
<1>12. (\E s \in Range(ss) : Refers(s)) => Has(c, "sourceRefs")
  BY <1>9, <1>10 DEF Has, made
<1> QED BY <1>6, <1>8, <1>10, <1>11, <1>12 DEF c, made

\* The provider of a ClusterBundle is that of the only source with useDefaultCAs.
LEMMA DefaultsConverted ==
    ASSUME NEW ss, IsSequence(ss),
           \A s \in Range(ss) : IsBundleSource(s) /\ SourceOK(s),
           Cardinality({n \in DOMAIN ss : Has(ss[n], "useDefaultCAs")}) <= 1
    PROVE  LET c == ToDefaultCAs(ss)
           IN /\ c = <<>> \/ DOMAIN c = {"defaultCAs"}
              /\ Has(c, "defaultCAs") => c.defaultCAs \in {"System", "Disabled"}
              /\ Has(c, "defaultCAs") /\ c.defaultCAs = "System" <=> UsePackage(ss)
<1> DEFINE S == {s \in Range(ss) : Has(s, "useDefaultCAs")}
           D == {n \in DOMAIN ss : Has(ss[n], "useDefaultCAs")}
           defaults == SelectIn(ss, S)
           c == ToDefaultCAs(ss)
<1>1. defaults \in Seq(Range(ss)) /\ Range(defaults) = S
  <2>1. ss \in Seq(Range(ss))
    BY DEF IsSequence
  <2>2. defaults \in Seq(Range(ss)) /\ Range(defaults) = Range(ss) \cap S
    BY <2>1, SelectionProperties
  <2> QED BY <2>2
<1>2. c = IF defaults = <<>> THEN <<>>
          ELSE Field("defaultCAs", IF Last(defaults).useDefaultCAs THEN "System" ELSE "Disabled")
  BY DEF ToDefaultCAs
<1> HIDE DEF defaults, c
<1>3. \A s \in Range(ss) : UsesDefaultCAs(s) <=> s \in S /\ s.useDefaultCAs
  <2> SUFFICES ASSUME NEW s \in Range(ss)
               PROVE  UsesDefaultCAs(s) <=> s \in S /\ s.useDefaultCAs
    OBVIOUS
  <2>1. HasOneField(s)
    BY SourceHasOneField DEF HasOneField
  <2> QED BY <2>1 DEF HasOneField, UsesDefaultCAs, SourceType, Has
<1>4. CASE defaults = <<>>
  <2>1. S = {}
    <3>1. Range(defaults) = {}
      BY <1>4 DEF Range
    <3> HIDE DEF S
    <3> QED BY <1>1, <3>1
  <2>2. c = <<>> /\ ~Has(c, "defaultCAs")
    BY <1>2, <1>4 DEF Has
  <2> QED BY <1>3, <2>1, <2>2 DEF UsePackage, c
<1>5. CASE defaults # <<>>
  <2>1. Last(defaults) \in S
    <3>1. Last(defaults) = defaults[Len(defaults)]
      BY DEF Last
    <3>2. Len(defaults) \in 1..Len(defaults)
      BY <1>1, <1>5
    <3>3. Range(defaults) = {defaults[n] : n \in 1..Len(defaults)}
      BY <1>1, RangeEquality
    <3> QED BY <1>1, <3>1, <3>2, <3>3
  <2>2. \A s, t \in S : s = t
    <3>1. IsFiniteSet(D)
      <4>1. DOMAIN ss = 1..Len(ss) /\ Len(ss) \in Nat
        BY DEF IsSequence
      <4>2. IsFiniteSet(DOMAIN ss)
        BY <4>1, FS_Interval
      <4> QED BY <4>2, FS_Subset
    <3>2. \A m, n \in D : m = n
      <4> SUFFICES ASSUME NEW m \in D, NEW n \in D, m # n PROVE FALSE
        OBVIOUS
      <4>1. {m} \cup {n} \subseteq D
        OBVIOUS
      <4>2. Cardinality({m} \cup {n}) = 2 /\ IsFiniteSet({m} \cup {n})
        <5>1. IsFiniteSet({m}) /\ Cardinality({m}) = 1
          BY FS_Singleton
        <5>2. n \notin {m}
          OBVIOUS
        <5> HIDE DEF D
        <5> QED BY <5>1, <5>2, FS_AddElement
      <4>3. Cardinality({m} \cup {n}) <= Cardinality(D)
        BY <3>1, <4>1, FS_Subset
      <4> HIDE DEF D
      <4>4. Cardinality(D) \in Nat
        BY <3>1, FS_CardinalityType
      <4> QED BY <4>2, <4>3, <4>4 DEF D
    <3>3. \A s \in S : \E n \in D : s = ss[n]
      BY DEF Range
    <3> HIDE DEF D, S
    <3> QED BY <3>2, <3>3
  <2>3. Last(defaults).useDefaultCAs \in BOOLEAN
    BY <2>1 DEF IsBundleSource
  <2>4. UsePackage(ss) <=> Last(defaults).useDefaultCAs
    BY <1>3, <2>1, <2>2 DEF UsePackage
  <2>5. DOMAIN c = {"defaultCAs"}
        /\ c.defaultCAs = IF Last(defaults).useDefaultCAs THEN "System" ELSE "Disabled"
    BY <1>2, <1>5 DEF Field
  <2> QED BY <2>3, <2>4, <2>5 DEF Has, c
<1> QED BY <1>4, <1>5
-----------------------------------------------------------------------------
(* All sources *)

\* What the fields of a ClusterBundle are made of.
LEMMA SpecConverted ==
    ASSUME NEW b, IsBundle(b), ValidateBundle(b)
    PROVE  LET ss == b.spec.sources
               spec == ConvertTo(b).spec
               target == ToTarget(b.spec.target)
           IN /\ Has(spec, "sourceRefs") <=> Has(ToSourceRefs(ss), "sourceRefs")
              /\ Has(spec, "sourceRefs") => spec.sourceRefs = ToSourceRefs(ss).sourceRefs
              /\ Has(spec, "inLineCAs") <=> Has(ToInLineCAs(ss), "inLineCAs")
              /\ Has(spec, "inLineCAs") => spec.inLineCAs = ToInLineCAs(ss).inLineCAs
              /\ Has(spec, "defaultCAs") <=> Has(ToDefaultCAs(ss), "defaultCAs")
              /\ Has(spec, "defaultCAs") => spec.defaultCAs = ToDefaultCAs(ss).defaultCAs
              /\ Has(spec, "target") <=> target # <<>>
              /\ Has(spec, "target") => spec.target = target
<1> DEFINE ss == b.spec.sources
           spec == ConvertTo(b).spec
           target == ToTarget(b.spec.target)
           c1 == ToSourceRefs(ss)
           c2 == ToInLineCAs(ss)
           c3 == ToDefaultCAs(ss)
           c4 == FieldIf(target # <<>>, "target", target)
<1>1. spec = c1 ++ c2 ++ c3 ++ c4
  BY DEF ConvertTo
<1>2. IsSequence(ss) /\ \A s \in Range(ss) : IsBundleSource(s) /\ SourceOK(s)
  BY DEF IsBundle, ValidateBundle
<1>3. c1 = <<>> \/ DOMAIN c1 = {"sourceRefs"}
  BY <1>2, RefsConverted
<1>4. c2 = <<>> \/ DOMAIN c2 = {"inLineCAs"}
  BY <1>2, InLineConverted
<1>5. c3 = <<>> \/ DOMAIN c3 = {"defaultCAs"}
  <2>1. Cardinality({n \in DOMAIN ss : Has(ss[n], "useDefaultCAs")}) <= 1
    BY DEF ValidateBundle
  <2> QED BY <1>2, <2>1, DefaultsConverted
<1>6. IF target # <<>> THEN DOMAIN c4 = {"target"} /\ c4.target = target ELSE c4 = <<>>
  BY DEF FieldIf, Field
<1> HIDE DEF spec, c1, c2, c3, c4, target
<1>7. DOMAIN <<>> = {}
  OBVIOUS
<1>8. DOMAIN spec = DOMAIN c1 \cup DOMAIN c2 \cup DOMAIN c3 \cup DOMAIN c4
  BY <1>1 DEF ++
<1>9. /\ "sourceRefs" \in DOMAIN c1 => spec.sourceRefs = c1.sourceRefs
      /\ "inLineCAs" \in DOMAIN c2 => spec.inLineCAs = c2.inLineCAs
      /\ "defaultCAs" \in DOMAIN c3 => spec.defaultCAs = c3.defaultCAs
      /\ "target" \in DOMAIN c4 => spec.target = c4.target
  BY <1>1, <1>3, <1>4, <1>5, <1>6, <1>7 DEF ++
<1> QED BY <1>3, <1>4, <1>5, <1>6, <1>7, <1>8, <1>9 DEF Has, spec, c1, c2, c3, target

\* The converted sources, as a set.
LEMMA SourcesBack ==
    ASSUME NEW spec,
           Has(spec, "sourceRefs") => IsSequence(spec.sourceRefs)
    PROVE  LET refs == IF Has(spec, "sourceRefs") THEN spec.sourceRefs ELSE <<>>
           IN \A t : t \in Range(FromSources(spec)) <=>
                \/ \E r \in Range(refs) : t = FromSourceRef(r)
                \/ Has(spec, "inLineCAs") /\ t = [inLine |-> spec.inLineCAs]
                \/ Has(spec, "defaultCAs") /\ t = [useDefaultCAs |-> spec.defaultCAs = "System"]
<1> DEFINE refs == IF Has(spec, "sourceRefs") THEN spec.sourceRefs ELSE <<>>
           q1 == [n \in DOMAIN refs |-> FromSourceRef(refs[n])]
           q2 == IF Has(spec, "inLineCAs") THEN <<[inLine |-> spec.inLineCAs]>> ELSE <<>>
           q3 == IF Has(spec, "defaultCAs")
                 THEN <<[useDefaultCAs |-> spec.defaultCAs = "System"]>> ELSE <<>>
<1>1. FromSources(spec) = q1 \o q2 \o q3
  BY DEF FromSources
<1>2. DOMAIN refs = 1..Len(refs) /\ Len(refs) \in Nat
  BY DEF IsSequence
<1>3. \A t : t \in Range(q1) <=> \E r \in Range(refs) : t = FromSourceRef(r)
  <2>1. Range(q1) = {FromSourceRef(refs[n]) : n \in DOMAIN refs}
    BY DEF Range
  <2>2. Range(refs) = {refs[n] : n \in DOMAIN refs}
    BY DEF Range
  <2> HIDE DEF q1, refs
  <2> QED BY <2>1, <2>2
<1>4. \A t : t \in Range(q2) <=> Has(spec, "inLineCAs") /\ t = [inLine |-> spec.inLineCAs]
  BY DEF Range
<1>5. \A t : t \in Range(q3) <=>
            Has(spec, "defaultCAs") /\ t = [useDefaultCAs |-> spec.defaultCAs = "System"]
  BY DEF Range
<1> DEFINE X == Range(q1) \cup Range(q2) \cup Range(q3)
<1>6. q1 \in Seq(X)
  <2>1. q1 = [n \in 1..Len(refs) |-> q1[n]]
    BY <1>2
  <2>2. \A n \in 1..Len(refs) : q1[n] \in X
    BY <1>2 DEF Range
  <2> HIDE DEF q1, X
  <2> QED BY <1>2, <2>1, <2>2
<1>7. q2 \in Seq(X) /\ q3 \in Seq(X)
  <2>1. \A e \in X : <<e>> \in Seq(X)
    <3> HIDE DEF X
    <3> QED OBVIOUS
  <2>2. <<>> \in Seq(X)
    <3> HIDE DEF X
    <3> QED OBVIOUS
  <2>3. /\ Has(spec, "inLineCAs") => [inLine |-> spec.inLineCAs] \in X
        /\ Has(spec, "defaultCAs") => [useDefaultCAs |-> spec.defaultCAs = "System"] \in X
    <3> HIDE DEF q1, q2, q3
    <3> QED BY <1>4, <1>5
  <2> HIDE DEF X
  <2> QED BY <2>1, <2>2, <2>3
<1>8. Range(q1 \o q2 \o q3) = Range(q1) \cup Range(q2) \cup Range(q3)
  <2> HIDE DEF q1, q2, q3, X
  <2>1. q1 \o q2 \in Seq(X) /\ Range(q1 \o q2) = Range(q1) \cup Range(q2)
    BY <1>6, <1>7, RangeConcatenation
  <2>2. Range((q1 \o q2) \o q3) = Range(q1 \o q2) \cup Range(q3)
    <3> DEFINE p == q1 \o q2
    <3> HIDE DEF p
    <3>1. p \in Seq(X)
      BY <2>1 DEF p
    <3>2. Range(p \o q3) = Range(p) \cup Range(q3)
      BY <1>7, <3>1, RangeConcatenation
    <3> QED BY <3>2 DEF p
  <2> QED BY <2>1, <2>2
<1> HIDE DEF q1, q2, q3, refs
<1> QED BY <1>1, <1>3, <1>4, <1>5, <1>8 DEF refs

\* The Bundle that comes back stands for the same certificates.
LEMMA SameSources ==
    ASSUME NEW b, IsBundle(b), ValidateBundle(b), Convertible(b)
    PROVE  LET ss == b.spec.sources
               tt == ConvertFrom(ConvertTo(b)).spec.sources
           IN (Faulty(tt) <=> Faulty(ss)) /\ Wanted(tt) = Wanted(ss)
<1> DEFINE ss == b.spec.sources
           spec == ConvertTo(b).spec
           tt == ConvertFrom(ConvertTo(b)).spec.sources
           refs == IF Has(spec, "sourceRefs") THEN spec.sourceRefs ELSE <<>>
<1>1. tt = FromSources(spec)
  BY DEF ConvertFrom
<1>2. IsSequence(ss) /\ \A s \in Range(ss) : IsBundleSource(s) /\ SourceOK(s)
  BY DEF IsBundle, ValidateBundle
<1>3. Cardinality({n \in DOMAIN ss : Has(ss[n], "useDefaultCAs")}) <= 1
  BY DEF ValidateBundle
<1>4. IsSequence(refs) /\ Range(refs) = {ToSourceRef(s) : s \in {x \in Range(ss) : Refers(x)}}
  BY <1>2, SpecConverted, RefsConverted
<1>5. \A s \in Range(ss) : Refers(s) => SameReference(s, FromSourceRef(ToSourceRef(s)))
  BY <1>2, ReferenceKept DEF Convertible, HasDataKeys
<1>6. /\ Has(spec, "inLineCAs") => Range(spec.inLineCAs.blocks) = InLineBlocks(ss)
      /\ ~Has(spec, "inLineCAs") => InLineBlocks(ss) = {}
  BY <1>2, SpecConverted, InLineConverted
<1>7. Has(spec, "defaultCAs") /\ spec.defaultCAs = "System" <=> UsePackage(ss)
  BY <1>2, <1>3, SpecConverted, DefaultsConverted
<1>8. \A t : t \in Range(tt) <=>
            \/ \E r \in Range(refs) : t = FromSourceRef(r)
            \/ Has(spec, "inLineCAs") /\ t = [inLine |-> spec.inLineCAs]
            \/ Has(spec, "defaultCAs") /\ t = [useDefaultCAs |-> spec.defaultCAs = "System"]
  BY <1>1, <1>4, SourcesBack
<1> HIDE DEF ss, spec, tt, refs
<1>9. \A r : \E k \in {"secret", "configMap"} : DOMAIN FromSourceRef(r) = {k}
  BY DEF FromSourceRef, Field
<1>10. ASSUME NEW t \in Range(tt) PROVE HasOneField(t)
  <2>1. DOMAIN [inLine |-> spec.inLineCAs] = {"inLine"}
    OBVIOUS
  <2>2. DOMAIN [useDefaultCAs |-> spec.defaultCAs = "System"] = {"useDefaultCAs"}
    OBVIOUS
  <2> QED BY <1>8, <1>9, <2>1, <2>2 DEF HasOneField
<1>11. \A s \in Range(ss) : HasOneField(s)
  BY <1>2, SourceHasOneField DEF HasOneField
<1>12. ASSUME NEW t \in Range(tt)
       PROVE  Refers(t) <=> \E r \in Range(refs) : t = FromSourceRef(r)
  <2>1. ASSUME NEW r, t = FromSourceRef(r) PROVE Refers(t)
    BY <1>9, <2>1 DEF Refers, SourceType, Has
  <2>2. ~Refers([inLine |-> spec.inLineCAs])
    BY DEF Refers, SourceType, Has
  <2>3. ~Refers([useDefaultCAs |-> spec.defaultCAs = "System"])
    BY DEF Refers, SourceType, Has
  <2> QED BY <1>8, <2>1, <2>2, <2>3
<1>13. \A s \in Range(ss) : Refers(s) => \E t \in Range(tt) : SameReference(s, t)
  BY <1>4, <1>5, <1>8
<1>14. \A t \in Range(tt) : Refers(t) => \E s \in Range(ss) : SameReference(s, t)
  BY <1>4, <1>5, <1>12
<1>15. InLineBlocks(tt) = InLineBlocks(ss)
  <2>1. \A r : ~Has(FromSourceRef(r), "inLine")
    BY <1>9 DEF Has
  <2>2. ~Has([useDefaultCAs |-> spec.defaultCAs = "System"], "inLine")
    BY DEF Has
  <2>3. /\ Has([inLine |-> spec.inLineCAs], "inLine")
        /\ [inLine |-> spec.inLineCAs].inLine = spec.inLineCAs
    BY DEF Has
  <2>4. {t \in Range(tt) : Has(t, "inLine")} =
           IF Has(spec, "inLineCAs") THEN {[inLine |-> spec.inLineCAs]} ELSE {}
    BY <1>8, <2>1, <2>2, <2>3
  <2> QED BY <1>6, <2>3, <2>4 DEF InLineBlocks
<1>16. UsePackage(tt) <=> UsePackage(ss)
  <2>1. \A r : ~UsesDefaultCAs(FromSourceRef(r))
    BY <1>9 DEF UsesDefaultCAs, SourceType, Has
  <2>2. ~UsesDefaultCAs([inLine |-> spec.inLineCAs])
    BY DEF UsesDefaultCAs, SourceType, Has
  <2>3. UsesDefaultCAs([useDefaultCAs |-> spec.defaultCAs = "System"]) <=> spec.defaultCAs = "System"
    BY DEF UsesDefaultCAs, SourceType, Has
  <2> QED BY <1>7, <1>8, <2>1, <2>2, <2>3 DEF UsePackage
<1>17. (Faulty(tt) <=> Faulty(ss)) /\ Wanted(tt) = Wanted(ss)
  BY <1>10, <1>11, <1>13, <1>14, <1>15, <1>16, SameBundle
<1> QED BY <1>17 DEF ss, tt
-----------------------------------------------------------------------------
(* Objects *)

IsObjectRecord(o) == o = [f \in DOMAIN o |-> o[f]]

LEMMA SameObject ==
    ASSUME NEW o, NEW p, IsObjectRecord(o), IsObjectRecord(p),
           DOMAIN o = DOMAIN p, \A f \in DOMAIN o : o[f] = p[f]
    PROVE  o = p
BY DEF IsObjectRecord

\* What is made with ++ and Fields is an object.
LEMMA Assembled ==
    ASSUME NEW o, NEW p, NEW D
    PROVE  /\ IsObjectRecord(o ++ p)
           /\ DOMAIN (o ++ p) = DOMAIN o \cup DOMAIN p
           /\ \A f \in DOMAIN o : (o ++ p)[f] = o[f]
           /\ \A f \in DOMAIN p \ DOMAIN o : (o ++ p)[f] = p[f]
           /\ IsObjectRecord(Fields(o, D))
           /\ DOMAIN Fields(o, D) = D \cap DOMAIN o
           /\ \A f \in D \cap DOMAIN o : Fields(o, D)[f] = o[f]
BY DEF IsObjectRecord, ++, Fields

-----------------------------------------------------------------------------
(* Additional formats *)

IsJKSEntry(kv, jksKey) == ~IsPEM(kv) /\ kv.key \in jksKey
IsP12Entry(kv, jksKey) == ~IsPEM(kv) /\ kv.key \notin jksKey

\* The loop over the entries finds a store of each sort that there is.
LEMMA FormatsFound ==
    ASSUME NEW kvs, IsSequence(kvs), NEW jksKey
    PROVE  LET f == FromAdditionalFormats(kvs, jksKey)
           IN /\ f = <<>> <=> ~Has(f, "jks") /\ ~Has(f, "pkcs12")
              /\ Has(f, "jks") <=> \E kv \in Range(kvs) : IsJKSEntry(kv, jksKey)
              /\ Has(f, "jks") => \E kv \in Range(kvs) :
                    IsJKSEntry(kv, jksKey) /\ f.jks = [key |-> kv.key, password |-> kv.password]
              /\ Has(f, "pkcs12") <=> \E kv \in Range(kvs) : IsP12Entry(kv, jksKey)
              /\ Has(f, "pkcs12") => \E kv \in Range(kvs) :
                    /\ IsP12Entry(kv, jksKey)
                    /\ f.pkcs12 = Fields(kv, {"key"}) ++ CopyPKCS12(kv)
                                  ++ Field("profile", "LegacyDES")
<1> DEFINE f == FromAdditionalFormats(kvs, jksKey)
           N == Len(kvs)
           J(n) == IsJKSEntry(kvs[n], jksKey)
           P(n) == IsP12Entry(kvs[n], jksKey)
           Stops(n) == (\E m \in 1..n : J(m)) /\ (\E m \in 1..n : P(m))
           jks == {n \in DOMAIN kvs : J(n) /\ ~Stops(n - 1)}
           p12 == {n \in DOMAIN kvs : P(n) /\ ~Stops(n - 1)}
           f1 == FieldIf(jks # {}, "jks",
                         [key |-> kvs[Max(jks)].key, password |-> kvs[Max(jks)].password])
           f2 == FieldIf(p12 # {}, "pkcs12",
                         Fields(kvs[Max(p12)], {"key"}) ++ CopyPKCS12(kvs[Max(p12)])
                         ++ Field("profile", "LegacyDES"))
<1>1. f = f1 ++ f2
  BY DEF FromAdditionalFormats, IsJKSEntry, IsP12Entry
<1>2. N \in Nat /\ DOMAIN kvs = 1..N /\ Range(kvs) = {kvs[n] : n \in 1..N}
  BY RangeEquality DEF IsSequence
<1> HIDE DEF N
<1>3. ASSUME NEW T, T \subseteq 1..N, T # {} PROVE Max(T) \in T
  <2>1. T \subseteq 0..N
    BY <1>2, <1>3
  <2> QED BY <1>2, <1>3, <2>1, GreatestNatural DEF Max
<1>4. ASSUME NEW T, T \subseteq 1..N, T # {}
      PROVE  \E n \in T : \A m \in 1..n - 1 : m \notin T
  <2>1. T \subseteq Nat
    BY <1>2, <1>4
  <2>2. PICK n \in T : \A m \in T : n <= m
    BY <1>4, <2>1, LeastNatural
  <2>3. \A m \in 1..n - 1 : ~(n <= m)
    BY <1>2, <1>4, <2>1
  <2> QED BY <2>2, <2>3
<1>5. jks = {} <=> ~\E n \in 1..N : J(n)
  <2> DEFINE T == {n \in 1..N : J(n)}
  <2>1. ASSUME T # {} PROVE jks # {}
    <3>1. PICK n \in T : \A m \in 1..n - 1 : m \notin T
      <4> HIDE DEF T
      <4>1. T \subseteq 1..N
        BY DEF T
      <4> QED BY <1>4, <2>1, <4>1
    <3>2. \A m \in 1..n - 1 : m \in 1..N
      BY <1>2
    <3>3. ~Stops(n - 1)
      <4> HIDE DEF J, P
      <4> QED BY <3>1, <3>2
    <3> HIDE DEF J, P, Stops
    <3> QED BY <1>2, <3>1, <3>3
  <2> HIDE DEF J, P, Stops
  <2> QED BY <1>2, <2>1
<1>6. p12 = {} <=> ~\E n \in 1..N : P(n)
  <2> DEFINE T == {n \in 1..N : P(n)}
  <2>1. ASSUME T # {} PROVE p12 # {}
    <3>1. PICK n \in T : \A m \in 1..n - 1 : m \notin T
      <4> HIDE DEF T
      <4>1. T \subseteq 1..N
        BY DEF T
      <4> QED BY <1>4, <2>1, <4>1
    <3>2. \A m \in 1..n - 1 : m \in 1..N
      BY <1>2
    <3>3. ~Stops(n - 1)
      <4> HIDE DEF J, P
      <4> QED BY <3>1, <3>2
    <3> HIDE DEF J, P, Stops
    <3> QED BY <1>2, <3>1, <3>3
  <2> HIDE DEF J, P, Stops
  <2> QED BY <1>2, <2>1
<1>7. jks # {} => Max(jks) \in 1..N /\ J(Max(jks))
  <2>1. jks \subseteq 1..N
    BY <1>2
  <2>2. \A n \in jks : J(n)
    OBVIOUS
  <2> HIDE DEF J, jks
  <2> QED BY <1>3, <2>1, <2>2
<1>8. p12 # {} => Max(p12) \in 1..N /\ P(Max(p12))
  <2>1. p12 \subseteq 1..N
    BY <1>2
  <2>2. \A n \in p12 : P(n)
    OBVIOUS
  <2> HIDE DEF P, p12
  <2> QED BY <1>3, <2>1, <2>2
<1>9. /\ f = <<>> <=> ~Has(f, "jks") /\ ~Has(f, "pkcs12")
      /\ Has(f, "jks") <=> jks # {}
      /\ Has(f, "pkcs12") <=> p12 # {}
      /\ Has(f, "jks") =>
           f.jks = [key |-> kvs[Max(jks)].key, password |-> kvs[Max(jks)].password]
      /\ Has(f, "pkcs12") =>
           f.pkcs12 = Fields(kvs[Max(p12)], {"key"}) ++ CopyPKCS12(kvs[Max(p12)])
                         ++ Field("profile", "LegacyDES")
  <2> HIDE DEF jks, p12, f
  <2> DEFINE j == [key |-> kvs[Max(jks)].key, password |-> kvs[Max(jks)].password]
             p == Fields(kvs[Max(p12)], {"key"}) ++ CopyPKCS12(kvs[Max(p12)])
                         ++ Field("profile", "LegacyDES")
  <2> HIDE DEF j, p
  <2>1. f = FieldIf(jks # {}, "jks", j) ++ FieldIf(p12 # {}, "pkcs12", p)
    BY <1>1 DEF j, p
  <2>2. /\ DOMAIN f = (IF jks # {} THEN {"jks"} ELSE {}) \cup (IF p12 # {} THEN {"pkcs12"} ELSE {})
        /\ jks # {} => f.jks = j
        /\ p12 # {} => f.pkcs12 = p
    BY <2>1 DEF FieldIf, Field, ++
  <2>3. DOMAIN f = {} => f = <<>>
    BY <2>1 DEF FieldIf, Field, ++
  <2> QED BY <2>2, <2>3 DEF Has, j, p
<1> HIDE DEF f, jks, p12
<1>10. /\ (\E kv \in Range(kvs) : IsJKSEntry(kv, jksKey)) <=> \E n \in 1..N : J(n)
       /\ (\E kv \in Range(kvs) : IsP12Entry(kv, jksKey)) <=> \E n \in 1..N : P(n)
  BY <1>2
<1>11. \A n \in 1..N : kvs[n] \in Range(kvs)
  BY <1>2
<1> QED BY <1>5, <1>6, <1>7, <1>8, <1>9, <1>10, <1>11 DEF f
JKSEntry(f) == [key |-> f.jks.key, format |-> "PKCS12", password |-> f.jks.password]
P12Entry(f) == [key |-> f.pkcs12.key, format |-> "PKCS12"] ++ ToPKCS12(f.pkcs12)
PEMEntry(t, k) == [key |-> t[k].key]

\* What the entries of a target have.
LEMMA EntryFields ==
    ASSUME NEW t, NEW k, NEW f
    PROVE  /\ IsPEM(PEMEntry(t, k)) /\ DOMAIN PEMEntry(t, k) = {"key"}
           /\ PEMEntry(t, k).key = t[k].key
           /\ ~IsPEM(JKSEntry(f)) /\ DOMAIN JKSEntry(f) = {"key", "format", "password"}
           /\ JKSEntry(f).key = f.jks.key /\ JKSEntry(f).password = f.jks.password
           /\ JKSEntry(f).format = "PKCS12"
           /\ ~IsPEM(P12Entry(f)) /\ P12Entry(f).format = "PKCS12"
           /\ DOMAIN P12Entry(f) =
                 {"key", "format", "profile"} \cup ({"password"} \cap DOMAIN f.pkcs12)
           /\ P12Entry(f).key = f.pkcs12.key
           /\ Has(f.pkcs12, "password") => P12Entry(f).password = f.pkcs12.password
           /\ P12Entry(f).profile =
                 IF Has(f.pkcs12, "profile") THEN f.pkcs12.profile ELSE "LegacyRC2"
<1>1. /\ IsPEM(PEMEntry(t, k)) /\ DOMAIN PEMEntry(t, k) = {"key"}
      /\ PEMEntry(t, k).key = t[k].key
  BY DEF PEMEntry, IsPEM, Has
<1>2. /\ ~IsPEM(JKSEntry(f)) /\ DOMAIN JKSEntry(f) = {"key", "format", "password"}
      /\ JKSEntry(f).key = f.jks.key /\ JKSEntry(f).password = f.jks.password
      /\ JKSEntry(f).format = "PKCS12"
  BY DEF JKSEntry, IsPEM, Has
<1> DEFINE p == f.pkcs12
           e == [key |-> p.key, format |-> "PKCS12"]
           q == ToPKCS12(p)
<1>3. /\ DOMAIN q = {"profile"} \cup ({"password"} \cap DOMAIN p)
      /\ Has(p, "password") => q.password = p.password
      /\ q.profile = IF Has(p, "profile") THEN p.profile ELSE "LegacyRC2"
  <2> HIDE DEF p
  <2> QED BY DEF ToPKCS12, CopyPKCS12, Fields, Field, ++, Has
<1>4. DOMAIN e = {"key", "format"} /\ e.key = p.key /\ e.format = "PKCS12"
  OBVIOUS
<1>5. P12Entry(f) = e ++ q
  BY DEF P12Entry
<1> HIDE DEF p, e, q
<1>6. /\ DOMAIN P12Entry(f) = DOMAIN e \cup DOMAIN q
      /\ P12Entry(f).key = e.key /\ P12Entry(f).format = e.format
      /\ P12Entry(f).profile = q.profile
      /\ Has(p, "password") => P12Entry(f).password = q.password
  BY <1>3, <1>4, <1>5 DEF ++, Has
<1>7. ~IsPEM(P12Entry(f))
  BY <1>4, <1>6 DEF IsPEM, Has
<1> QED BY <1>1, <1>2, <1>3, <1>4, <1>6, <1>7 DEF p

\* Short lists.
LEMMA Concatenated ==
    ASSUME NEW x, NEW y, NEW z
    PROVE  /\ <<x>> \o <<>> = <<x>>
           /\ <<x>> \o <<y>> = <<x, y>>
           /\ <<x>> \o <<y, z>> = <<x, y, z>>
<1>1. <<x>> \o <<>> = <<x>>
  OBVIOUS
<1>2. <<x>> \o <<y>> = <<x, y>>
  <2> DEFINE p == <<x>> \o <<y>>
  <2>1. p \in Seq({x, y}) /\ Len(p) = 2 /\ p[1] = x /\ p[2] = y
    OBVIOUS
  <2> HIDE DEF p
  <2>2. p = <<x, y>>
    BY <2>1
  <2> QED BY <2>2 DEF p
<1>3. <<x>> \o <<y, z>> = <<x, y, z>>
  <2> DEFINE p == <<x>> \o <<y, z>>
  <2>1. p \in Seq({x, y, z}) /\ Len(p) = 3 /\ p[1] = x /\ p[2] = y /\ p[3] = z
    OBVIOUS
  <2> HIDE DEF p
  <2>2. p = <<x, y, z>>
    BY <2>1
  <2> QED BY <2>2 DEF p
<1> QED BY <1>1, <1>2, <1>3

\* The entries for a target.
LEMMA EntriesOfTarget ==
    ASSUME NEW t, NEW k
    PROVE  LET f == Formats(t)
               add == ToAdditionalData(t)
               data == <<PEMEntry(t, k)>> \o add
           IN /\ IsSequence(data) /\ Len(data) \in 1..3
              /\ \A kv : kv \in Range(data) <=>
                    \/ kv = PEMEntry(t, k)
                    \/ Has(f, "jks") /\ kv = JKSEntry(f)
                    \/ Has(f, "pkcs12") /\ kv = P12Entry(f)
              /\ \A m, n \in DOMAIN data : m # n /\ data[m] = data[n] =>
                    Has(f, "jks") /\ Has(f, "pkcs12") /\ JKSEntry(f) = P12Entry(f)
<1> DEFINE f == Formats(t)
           add == ToAdditionalData(t)
           x == PEMEntry(t, k)
           y == JKSEntry(f)
           z == P12Entry(f)
           data == <<x>> \o add
<1>1. add = (IF Has(f, "jks") THEN <<y>> ELSE <<>>)
            \o (IF Has(f, "pkcs12") THEN <<z>> ELSE <<>>)
  BY DEF ToAdditionalData, Formats, JKSEntry, P12Entry
<1>2. x # y /\ x # z
  <2>1. IsPEM(x) /\ ~IsPEM(y) /\ ~IsPEM(z)
    BY EntryFields
  <2> HIDE DEF x, y, z
  <2> QED BY <2>1
<1> HIDE DEF f, add, x, y, z
<1>3. data = IF Has(f, "jks") THEN IF Has(f, "pkcs12") THEN <<x, y, z>> ELSE <<x, y>>
             ELSE IF Has(f, "pkcs12") THEN <<x, z>> ELSE <<x>>
  <2>1. add = IF Has(f, "jks") THEN IF Has(f, "pkcs12") THEN <<y, z>> ELSE <<y>>
              ELSE IF Has(f, "pkcs12") THEN <<z>> ELSE <<>>
    <3>1. <<>> \o <<z>> = <<z>> /\ <<>> \o <<>> = <<>>
      OBVIOUS
    <3> QED BY <1>1, <3>1, Concatenated
  <2> QED BY <2>1, Concatenated
<1> DEFINE X == {x, y, z}
<1>4. data \in Seq(X) /\ Len(data) \in 1..3
  <2>1. /\ <<x, y, z>> \in Seq(X) /\ <<x, y>> \in Seq(X) /\ <<x, z>> \in Seq(X) /\ <<x>> \in Seq(X)
        /\ Len(<<x, y, z>>) = 3 /\ Len(<<x, y>>) = 2 /\ Len(<<x, z>>) = 2 /\ Len(<<x>>) = 1
    OBVIOUS
  <2> HIDE DEF data, X
  <2> QED BY <1>3, <2>1
<1> HIDE DEF data, X
<1>5. IsSequence(data) /\ DOMAIN data = 1..Len(data)
  BY <1>4, SeqOfRange DEF IsSequence
<1>6. ASSUME NEW kv
      PROVE  kv \in Range(data) <=>
                \/ kv = x
                \/ Has(f, "jks") /\ kv = y
                \/ Has(f, "pkcs12") /\ kv = z
  BY <1>3 DEF Range
<1>7. ASSUME NEW m \in DOMAIN data, NEW n \in DOMAIN data, m # n, data[m] = data[n]
      PROVE  Has(f, "jks") /\ Has(f, "pkcs12") /\ y = z
  BY <1>2, <1>3, <1>7
<1> QED BY <1>4, <1>5, <1>6, <1>7 DEF data, add, f, x, y, z
-----------------------------------------------------------------------------
(* Targets *)

\* A target in a ClusterBundle.
LEMMA TargetMade ==
    ASSUME NEW t, IsBundleTarget(t)
    PROVE  LET c == ToTarget(t)
               kinds == KindsOf(t)
           IN /\ kinds = {} => ~HasTarget(t) /\ DOMAIN t = {} /\ c = <<>>
              /\ kinds # {} =>
                   /\ HasTarget(t) /\ c # <<>>
                   /\ DOMAIN c = kinds \cup {"namespaceSelector"}
                   /\ \A k \in kinds :
                        /\ c[k].data = <<PEMEntry(t, k)>> \o ToAdditionalData(t)
                        /\ Has(c[k], "metadata") <=> Has(t[k], "metadata")
                        /\ Has(t[k], "metadata") => c[k].metadata = t[k].metadata
                   /\ c.namespaceSelector =
                        IF Has(t, "namespaceSelector") THEN t.namespaceSelector
                        ELSE [valid |-> TRUE, labels |-> {}]
<1> DEFINE c == ToTarget(t)
           kinds == KindsOf(t)
           add == ToAdditionalData(t)
<1>1. kinds = {} => ~HasTarget(t) /\ DOMAIN t = {} /\ c = <<>>
  <2>1. kinds = {} => DOMAIN t = {}
    BY DEF IsBundleTarget
  <2> QED BY <2>1 DEF HasTarget, Has, ToTarget
<1>2. ASSUME kinds # {}
      PROVE  /\ HasTarget(t) /\ c # <<>>
             /\ DOMAIN c = kinds \cup {"namespaceSelector"}
             /\ \A k \in kinds : c[k] = ToKeyValueTarget(t[k], add)
             /\ c.namespaceSelector =
                  IF Has(t, "namespaceSelector") THEN t.namespaceSelector
                  ELSE [valid |-> TRUE, labels |-> {}]
  <2>1. HasTarget(t)
    BY <1>2 DEF HasTarget, KindsOf, Has
  <2> DEFINE o1 == [k \in kinds |-> ToKeyValueTarget(t[k], add)]
             o2 == Fields(t, {"namespaceSelector"})
             none == [valid |-> TRUE, labels |-> {}]
  <2>2. c = o1 ++ o2 ++ Field("namespaceSelector", none)
    BY <2>1 DEF ToTarget
  <2>3. DOMAIN o1 = kinds /\ \A k \in kinds : o1[k] = ToKeyValueTarget(t[k], add)
    OBVIOUS
  <2>4. kinds \subseteq {"configMap", "secret"}
    BY DEF KindsOf
  <2> HIDE DEF c, o1, kinds, none
  <2>5. DOMAIN c = kinds \cup {"namespaceSelector"}
    BY <2>2, <2>3 DEF Fields, Field, ++
  <2>6. \A k \in kinds : c[k] = o1[k]
    BY <2>2, <2>3 DEF Fields, Field, ++
  <2>7. c.namespaceSelector = IF Has(t, "namespaceSelector") THEN t.namespaceSelector ELSE none
    BY <2>2, <2>3, <2>4 DEF Fields, Field, ++, Has
  <2>8. c # <<>>
    <3>1. DOMAIN <<>> = {}
      OBVIOUS
    <3> QED BY <2>5, <3>1
  <2> QED BY <2>1, <2>3, <2>5, <2>6, <2>7, <2>8 DEF none
<1>3. ASSUME NEW k
      PROVE  LET kv == ToKeyValueTarget(t[k], add)
             IN /\ kv.data = <<PEMEntry(t, k)>> \o add
                /\ Has(kv, "metadata") <=> Has(t[k], "metadata")
                /\ Has(t[k], "metadata") => kv.metadata = t[k].metadata
  <2> DEFINE kv == ToKeyValueTarget(t[k], add)
             q == <<PEMEntry(t, k)>> \o add
  <2>1. kv = [data |-> q] ++ Fields(t[k], {"metadata"})
    BY DEF ToKeyValueTarget, PEMEntry, CopyMetadata
  <2> HIDE DEF kv, q
  <2>2. /\ kv.data = q
        /\ Has(kv, "metadata") <=> Has(t[k], "metadata")
        /\ Has(t[k], "metadata") => kv.metadata = t[k].metadata
    BY <2>1 DEF ++, Fields, Has
  <2> QED BY <2>2 DEF kv, q
<1> QED BY <1>1, <1>2, <1>3

\* The file of a target comes back from the first entry that is PEM.
LEMMA FileBack ==
    ASSUME NEW t, NEW k, NEW c, IsObjectOf(t[k], {"key"}, {"metadata"}),
           c.data = <<PEMEntry(t, k)>> \o ToAdditionalData(t),
           Has(c, "metadata") <=> Has(t[k], "metadata"),
           Has(t[k], "metadata") => c.metadata = t[k].metadata
    PROVE  FromKeyValueTarget(c) = t[k]
<1> DEFINE S == {kv \in Range(c.data) : IsPEM(kv)}
           pem == SelectIn(c.data, S)
           back == FromKeyValueTarget(c)
<1>1. IsSequence(c.data) /\ PEMEntry(t, k) \in Range(c.data)
  BY EntriesOfTarget
<1>2. S = {PEMEntry(t, k)}
  <2>1. ASSUME NEW kv \in Range(c.data) PROVE IsPEM(kv) <=> kv = PEMEntry(t, k)
    <3> DEFINE f == Formats(t)
    <3>1. kv = PEMEntry(t, k) \/ kv = JKSEntry(f) \/ kv = P12Entry(f)
      BY EntriesOfTarget
    <3>2. IsPEM(PEMEntry(t, k)) /\ ~IsPEM(JKSEntry(f)) /\ ~IsPEM(P12Entry(f))
      BY EntryFields
    <3> HIDE DEF f
    <3> QED BY <3>1, <3>2
  <2> QED BY <1>1, <2>1
<1>3. pem \in Seq(Range(c.data)) /\ Range(pem) = S
  <2>1. c.data \in Seq(Range(c.data))
    BY <1>1 DEF IsSequence
  <2>2. pem \in Seq(Range(c.data)) /\ Range(pem) = Range(c.data) \cap S
    BY <2>1, SelectionProperties
  <2> QED BY <2>2
<1>4. back = FieldIf(pem # <<>>, "key", Head(pem).key) ++ Fields(c, {"metadata"})
  BY DEF FromKeyValueTarget, CopyMetadata
<1> HIDE DEF S, pem, back
<1>5. pem # <<>> /\ Head(pem) = PEMEntry(t, k)
  <2>1. Range(pem) = {pem[n] : n \in 1..Len(pem)}
    BY <1>3, RangeEquality
  <2>2. Len(pem) \in Nat \ {0}
    <3>1. Len(pem) \in Nat
      BY <1>3
    <3>2. Len(pem) = 0 => Range(pem) = {}
      BY <2>1
    <3> QED BY <1>2, <1>3, <3>1, <3>2
  <2>3. Head(pem) = pem[1] /\ pem[1] \in Range(pem)
    BY <1>3, <2>1, <2>2
  <2> QED BY <1>2, <1>3, <2>2, <2>3
<1>6. Head(pem).key = t[k].key
  <2>1. PEMEntry(t, k).key = t[k].key
    BY DEF PEMEntry
  <2> QED BY <1>5, <2>1
<1>7. back = Field("key", t[k].key) ++ Fields(c, {"metadata"})
  BY <1>4, <1>5, <1>6 DEF FieldIf
<1>8. DOMAIN back = DOMAIN t[k]
  <2>1. DOMAIN t[k] = {"key"} \cup ({"metadata"} \cap DOMAIN t[k])
    BY DEF IsObjectOf
  <2> QED BY <1>7, <2>1 DEF ++, Field, Fields, Has
<1>9. \A f \in DOMAIN t[k] : back[f] = t[k][f]
  <2>1. \A f \in DOMAIN t[k] : f = "key" \/ f = "metadata"
    BY DEF IsObjectOf
  <2> QED BY <1>7, <2>1 DEF ++, Field, Fields, Has
<1>10. back = t[k]
  <2>1. IsObjectRecord(back) /\ IsObjectRecord(t[k])
    <3>1. IsObjectRecord(t[k])
      BY DEF IsObjectOf, IsObjectRecord
    <3> QED BY <1>7, <3>1, Assembled
  <2> QED BY <1>8, <1>9, <2>1, SameObject
<1> QED BY <1>10 DEF back
\* The lists of entries that FromTarget looks through.
DataOf(c, k) == IF Has(c, k) THEN c[k].data ELSE <<>>
AllData(c) == DataOf(c, "secret") \o DataOf(c, "configMap")
JKSKeys(t) == IF Has(Formats(t), "jks") THEN {Formats(t).jks.key} ELSE {}

LEMMA AllEntriesOfTargets ==
    ASSUME NEW t, IsBundleTarget(t), KindsOf(t) # {}
    PROVE  LET kvs == AllData(ToTarget(t))
           IN /\ IsSequence(kvs)
              /\ \A kv : kv \in Range(kvs) <=>
                    \/ \E k \in KindsOf(t) : kv = PEMEntry(t, k)
                    \/ Has(Formats(t), "jks") /\ kv = JKSEntry(Formats(t))
                    \/ Has(Formats(t), "pkcs12") /\ kv = P12Entry(Formats(t))
<1> DEFINE c == ToTarget(t)
           f == Formats(t)
           data(k) == <<PEMEntry(t, k)>> \o ToAdditionalData(t)
           q1 == DataOf(c, "secret")
           q2 == DataOf(c, "configMap")
           kvs == AllData(c)
           R(k) == IF k \in KindsOf(t) THEN Range(data(k)) ELSE {}
<1>1. /\ DOMAIN c = KindsOf(t) \cup {"namespaceSelector"}
      /\ \A k \in KindsOf(t) : c[k].data = data(k)
  BY TargetMade
<1>2. ASSUME NEW k \in {"configMap", "secret"}
      PROVE  IsSequence(DataOf(c, k)) /\ Range(DataOf(c, k)) = R(k)
  <2>1. CASE k \in KindsOf(t)
    <3>1. Has(c, k) /\ c[k].data = data(k)
      <4> HIDE DEF c, data
      <4> QED BY <2>1, <1>1 DEF Has
    <3>2. IsSequence(data(k))
      BY EntriesOfTarget
    <3> HIDE DEF data
    <3> QED BY <2>1, <3>1, <3>2 DEF DataOf
  <2>2. CASE k \notin KindsOf(t)
    <3>1. ~Has(c, k)
      <4> HIDE DEF c, data
      <4> QED BY <2>2, <1>1 DEF Has
    <3>2. DataOf(c, k) = <<>>
      BY <3>1 DEF DataOf
    <3>3. Range(<<>>) = {} /\ IsSequence(<<>>)
      BY DEF Range, IsSequence
    <3> QED BY <2>2, <3>2, <3>3
  <2> QED BY <2>1, <2>2
<1> HIDE DEF data
<1>3. IsSequence(kvs) /\ Range(kvs) = Range(q1) \cup Range(q2)
  <2> DEFINE X == Range(q1) \cup Range(q2)
  <2>1. q1 \in Seq(X) /\ q2 \in Seq(X)
    <3>1. q1 \in Seq(Range(q1)) /\ q2 \in Seq(Range(q2))
      BY <1>2 DEF IsSequence
    <3> HIDE DEF q1, q2
    <3> QED BY <3>1
  <2> HIDE DEF X, q1, q2
  <2>2. q1 \o q2 \in Seq(X) /\ Range(q1 \o q2) = X
    BY <2>1, RangeConcatenation DEF X
  <2> QED BY <2>2 DEF AllData, IsSequence, X, q1, q2
<1>4. ASSUME NEW kv
      PROVE  kv \in Range(kvs) <=>
                \/ \E k \in KindsOf(t) : kv = PEMEntry(t, k)
                \/ Has(f, "jks") /\ kv = JKSEntry(f)
                \/ Has(f, "pkcs12") /\ kv = P12Entry(f)
  <2>1. kv \in Range(kvs) <=> \E k \in KindsOf(t) : kv \in Range(data(k))
    <3>1. KindsOf(t) \subseteq {"configMap", "secret"}
      BY DEF KindsOf
    <3> HIDE DEF kvs, q1, q2, c
    <3>2. Range(kvs) = R("secret") \cup R("configMap")
      BY <1>2, <1>3 DEF q1, q2
    <3> QED BY <3>1, <3>2
  <2>2. \A k : kv \in Range(data(k)) <=>
                \/ kv = PEMEntry(t, k)
                \/ Has(f, "jks") /\ kv = JKSEntry(f)
                \/ Has(f, "pkcs12") /\ kv = P12Entry(f)
    BY EntriesOfTarget DEF data
  <2> HIDE DEF kvs, f
  <2> QED BY <2>1, <2>2
<1> QED BY <1>3, <1>4

\* The stores come back with their parameters; the profile is spelt out.
LEMMA FormatsBack ==
    ASSUME NEW t, IsBundleTarget(t), KindsOf(t) # {}, FormatKeysUnique(t)
    PROVE  LET f == Formats(t)
               r == FromAdditionalFormats(AllData(ToTarget(t)), JKSKeys(t))
           IN /\ r = <<>> <=> ~Has(r, "jks") /\ ~Has(r, "pkcs12")
              /\ Has(r, "jks") <=> Has(f, "jks")
              /\ Has(f, "jks") => r.jks = f.jks
              /\ Has(r, "pkcs12") <=> Has(f, "pkcs12")
              /\ Has(f, "pkcs12") => r.pkcs12 = f.pkcs12 ++ Field("profile", "LegacyRC2")
<1> DEFINE f == Formats(t)
           kvs == AllData(ToTarget(t))
           keys == JKSKeys(t)
           r == FromAdditionalFormats(kvs, keys)
           j == JKSEntry(f)
           z == P12Entry(f)
<1>1. /\ IsSequence(kvs)
      /\ \A kv : kv \in Range(kvs) <=>
                    \/ \E k \in KindsOf(t) : kv = PEMEntry(t, k)
                    \/ Has(f, "jks") /\ kv = j
                    \/ Has(f, "pkcs12") /\ kv = z
  BY AllEntriesOfTargets
<1>2. Has(f, "jks") /\ Has(f, "pkcs12") => f.jks.key # f.pkcs12.key
  BY DEF FormatKeysUnique, Has
<1>3. ASSUME NEW kv \in Range(kvs)
      PROVE  /\ IsJKSEntry(kv, keys) <=> Has(f, "jks") /\ kv = j
             /\ IsP12Entry(kv, keys) <=> Has(f, "pkcs12") /\ kv = z
  <2>1. \A k : IsPEM(PEMEntry(t, k))
    BY DEF IsPEM, PEMEntry, Has
  <2>2. /\ ~IsPEM(j) /\ j.key = f.jks.key
        /\ ~IsPEM(z) /\ z.key = f.pkcs12.key
    BY EntryFields
  <2>3. keys = IF Has(f, "jks") THEN {f.jks.key} ELSE {}
    BY DEF JKSKeys
  <2> HIDE DEF f, j, z, keys, kvs
  <2> QED BY <1>1, <1>2, <2>1, <2>2, <2>3 DEF IsJKSEntry, IsP12Entry
<1>4. /\ r = <<>> <=> ~Has(r, "jks") /\ ~Has(r, "pkcs12")
      /\ Has(r, "jks") <=> Has(f, "jks")
      /\ Has(f, "jks") => r.jks = [key |-> j.key, password |-> j.password]
      /\ Has(r, "pkcs12") <=> Has(f, "pkcs12")
      /\ Has(f, "pkcs12") =>
           r.pkcs12 = Fields(z, {"key"}) ++ CopyPKCS12(z) ++ Field("profile", "LegacyDES")
  <2>1. /\ r = <<>> <=> ~Has(r, "jks") /\ ~Has(r, "pkcs12")
        /\ Has(r, "jks") <=> \E kv \in Range(kvs) : IsJKSEntry(kv, keys)
        /\ Has(r, "jks") => \E kv \in Range(kvs) :
              IsJKSEntry(kv, keys) /\ r.jks = [key |-> kv.key, password |-> kv.password]
        /\ Has(r, "pkcs12") <=> \E kv \in Range(kvs) : IsP12Entry(kv, keys)
        /\ Has(r, "pkcs12") => \E kv \in Range(kvs) :
              /\ IsP12Entry(kv, keys)
              /\ r.pkcs12 = Fields(kv, {"key"}) ++ CopyPKCS12(kv) ++ Field("profile", "LegacyDES")
    <3> HIDE DEF kvs, keys
    <3> QED BY <1>1, FormatsFound
  <2> HIDE DEF f, j, z, keys, kvs, r
  <2> QED BY <1>1, <1>3, <2>1
<1>5. IsAdditionalFormats(f)
  <2>1. IsAdditionalFormats(<<>>)
    BY DEF IsAdditionalFormats, IsObjectOf, Has
  <2> QED BY <2>1 DEF IsBundleTarget, Formats
<1>6. ASSUME Has(f, "jks") PROVE r.jks = f.jks
  <2>1. j.key = f.jks.key /\ j.password = f.jks.password
    BY EntryFields
  <2>2. IsObjectOf(f.jks, {"key", "password"}, {})
    BY <1>5, <1>6 DEF IsAdditionalFormats
  <2> DEFINE o == [key |-> j.key, password |-> j.password]
             p == f.jks
  <2>3. DOMAIN p = {"key", "password"} /\ IsObjectRecord(p)
    BY <2>2 DEF IsObjectOf, IsObjectRecord
  <2>4. /\ DOMAIN o = {"key", "password"} /\ IsObjectRecord(o)
        /\ o.key = p.key /\ o.password = p.password
    BY <2>1 DEF IsObjectRecord
  <2> HIDE DEF o, p
  <2>5. o = p
    BY <2>3, <2>4, SameObject
  <2> QED BY <1>4, <1>6, <2>5 DEF o, p
<1>7. ASSUME Has(f, "pkcs12")
      PROVE  r.pkcs12 = f.pkcs12 ++ Field("profile", "LegacyRC2")
  <2> DEFINE p == f.pkcs12
             o == r.pkcs12
             x == p ++ Field("profile", "LegacyRC2")
  <2>1. IsObjectOf(p, {"key"}, {"password", "profile"})
    BY <1>5, <1>7 DEF IsAdditionalFormats
  <2>2. /\ DOMAIN z = {"key", "format", "profile"} \cup ({"password"} \cap DOMAIN p)
        /\ z.key = p.key
        /\ Has(p, "password") => z.password = p.password
        /\ z.profile = IF Has(p, "profile") THEN p.profile ELSE "LegacyRC2"
    BY EntryFields
  <2>3. o = Fields(z, {"key"}) ++ Fields(z, {"password", "profile"})
            ++ Field("profile", "LegacyDES")
    BY <1>4, <1>7 DEF CopyPKCS12
  <2> HIDE DEF p, o, z
  <2>4. /\ DOMAIN o = {"key", "profile"} \cup ({"password"} \cap DOMAIN p)
        /\ o.key = p.key
        /\ Has(p, "password") => o.password = p.password
        /\ o.profile = IF Has(p, "profile") THEN p.profile ELSE "LegacyRC2"
    BY <2>2, <2>3 DEF ++, Fields, Field, Has
  <2>5. /\ DOMAIN x = {"key", "profile"} \cup ({"password"} \cap DOMAIN p)
        /\ x.key = p.key
        /\ Has(p, "password") => x.password = p.password
        /\ x.profile = IF Has(p, "profile") THEN p.profile ELSE "LegacyRC2"
    BY <2>1 DEF ++, Field, Has, IsObjectOf
  <2>6. IsObjectRecord(o) /\ IsObjectRecord(x)
    BY <2>3, Assembled
  <2> HIDE DEF x
  <2>7. o = x
    BY <2>4, <2>5, <2>6, SameObject DEF Has
  <2> QED BY <2>7 DEF o, x, p
<1> QED BY <1>4, <1>6, <1>7
\* What marks the JKS key is set by the one conversion and removed by the other.
LEMMA AnnotationsBack ==
    ASSUME NEW b, IsBundle(b), ~Has(b.annotations, "jksKey")
    PROVE  LET c == ConvertTo(b)
           IN /\ ConvertFrom(c).annotations = b.annotations
              /\ KindsOf(b.spec.target) # {} =>
                    (IF Has(c.annotations, "jksKey") THEN {c.annotations.jksKey} ELSE {})
                       = JKSKeys(b.spec.target)
<1> DEFINE c == ConvertTo(b)
           t == b.spec.target
           a == b.annotations
           p == c.annotations
           q == ConvertFrom(c).annotations
<1>1. p = IF HasTarget(t) /\ Has(Formats(t), "jks")
          THEN Field("jksKey", Formats(t).jks.key) ++ a ELSE a
  <2>1. Has(Formats(t), "jks") <=>
            Has(t, "additionalFormats") /\ Has(t.additionalFormats, "jks")
    BY DEF Formats, Has
  <2>2. Has(t, "additionalFormats") => Formats(t) = t.additionalFormats
    BY DEF Formats
  <2>3. p = ToAnnotations(b)
    BY DEF ConvertTo
  <2> QED BY <2>1, <2>2, <2>3 DEF ToAnnotations
<1>2. q = Fields(p, DOMAIN p \ {"jksKey"})
  BY DEF ConvertFrom
<1>3. IsObjectRecord(a) /\ "jksKey" \notin DOMAIN a
  BY DEF IsBundle, IsObjectOf, IsObjectRecord, Has
<1>4. KindsOf(t) # {} => HasTarget(t)
  BY DEF KindsOf, HasTarget, Has
<1> HIDE DEF p, q, a, t
<1> DEFINE key == Formats(t).jks.key
<1> HIDE DEF key
<1>5. q = a
  <2>1. p = a \/ p = Field("jksKey", key) ++ a
    BY <1>1 DEF key
  <2>2. DOMAIN p \ {"jksKey"} = DOMAIN a
    BY <1>3, <2>1 DEF ++, Field
  <2>3. \A f \in DOMAIN a : p[f] = a[f]
    BY <1>3, <2>1 DEF ++, Field
  <2>4. q = [f \in DOMAIN a |-> p[f]]
    BY <1>2, <2>2 DEF Fields
  <2> QED BY <1>3, <2>3, <2>4 DEF IsObjectRecord
<1>6. KindsOf(t) # {} =>
        (IF Has(p, "jksKey") THEN {p.jksKey} ELSE {}) = JKSKeys(t)
  <2>1. Has(Field("jksKey", key) ++ a, "jksKey") /\ (Field("jksKey", key) ++ a).jksKey = key
    BY DEF ++, Field, Has
  <2> QED BY <1>1, <1>3, <1>4, <2>1 DEF JKSKeys, Has, key
<1> QED BY <1>5, <1>6 DEF p, q, a, t

\* The targets ask for the same.
LEMMA SameOutput ==
    ASSUME NEW b, IsBundle(b), ValidateBundle(b), Convertible(b)
    PROVE  Output(ConvertFrom(ConvertTo(b)).spec.target) = Output(b.spec.target)
<1> DEFINE cb == ConvertTo(b)
           t == b.spec.target
           f == Formats(t)
           c == ToTarget(t)
           back == ConvertFrom(cb).spec.target
           keys == IF Has(cb.annotations, "jksKey") THEN {cb.annotations.jksKey} ELSE {}
           r == FromAdditionalFormats(AllData(c), keys)
           kinds == KindsOf(t)
<1>1. IsBundleTarget(t) /\ FormatKeysUnique(t) /\ ~Has(b.annotations, "jksKey")
  BY DEF IsBundle, ValidateBundle, Convertible
<1>2. back = [k \in KindsOf(c) |-> FromKeyValueTarget(c[k])]
             ++ FieldIf(r # <<>>, "additionalFormats", r) ++ Fields(c, {"namespaceSelector"})
  <2>1. back = FromTarget(IF Has(cb.spec, "target") THEN cb.spec.target ELSE <<>>, keys)
    BY DEF ConvertFrom
  <2>2. (IF Has(cb.spec, "target") THEN cb.spec.target ELSE <<>>) = c
    BY SpecConverted
  <2>3. back = FromTarget(c, keys)
    BY <2>1, <2>2
  <2> HIDE DEF back, c, keys
  <2> QED BY <2>3 DEF FromTarget, AllData, DataOf
<1> HIDE DEF back, cb, c, keys, r, t
<1>3. KindsOf(c) \subseteq {"configMap", "secret"} /\ kinds \subseteq {"configMap", "secret"}
  BY DEF KindsOf
<1>4. DOMAIN back = KindsOf(c) \cup (IF r # <<>> THEN {"additionalFormats"} ELSE {})
                      \cup ({"namespaceSelector"} \cap DOMAIN c)
  BY <1>2, <1>3 DEF ++, FieldIf, Field, Fields
<1>5. KindsOf(back) = KindsOf(c)
  BY <1>3, <1>4 DEF KindsOf
<1>6. \A k \in KindsOf(c) : back[k] = FromKeyValueTarget(c[k])
  BY <1>2, <1>3 DEF ++, FieldIf, Field, Fields
<1>7. Formats(back) = r
  <2>1. r # <<>> => Has(back, "additionalFormats") /\ back.additionalFormats = r
    BY <1>2, <1>3 DEF ++, FieldIf, Field, Fields, Has
  <2>2. r = <<>> => ~Has(back, "additionalFormats")
    BY <1>3, <1>4 DEF Has
  <2> QED BY <2>1, <2>2 DEF Formats
<1>8. /\ Has(back, "namespaceSelector") <=> Has(c, "namespaceSelector")
      /\ Has(c, "namespaceSelector") => back.namespaceSelector = c.namespaceSelector
  <2>1. Has(back, "namespaceSelector") <=> Has(c, "namespaceSelector")
    BY <1>3, <1>4 DEF Has
  <2>2. Has(c, "namespaceSelector") => back.namespaceSelector = c.namespaceSelector
    <3> DEFINE x == [k \in KindsOf(c) |-> FromKeyValueTarget(c[k])]
                    ++ FieldIf(r # <<>>, "additionalFormats", r)
               y == Fields(c, {"namespaceSelector"})
    <3>1. back = x ++ y
      BY <1>2
    <3>2. "namespaceSelector" \notin DOMAIN x
      BY <1>3 DEF ++, FieldIf, Field
    <3>3. Has(c, "namespaceSelector") =>
             "namespaceSelector" \in DOMAIN y /\ y.namespaceSelector = c.namespaceSelector
      BY DEF Fields, Has
    <3> HIDE DEF x, y
    <3> QED BY <3>1, <3>2, <3>3 DEF ++
  <2> QED BY <2>1, <2>2
<1>9. CASE kinds = {}
  <2>1. c = <<>> /\ DOMAIN t = {}
    BY <1>1, <1>9, TargetMade DEF c
  <2>2. KindsOf(c) = {} /\ ~Has(c, "namespaceSelector") /\ ~Has(t, "namespaceSelector")
    BY <2>1 DEF KindsOf, Has
  <2>3. KindsOf(back) = KindsOf(t) /\ KindsOf(t) = {}
    BY <1>5, <1>9, <2>2
  <2>4. [k \in KindsOf(back) |-> back[k]] = [k \in KindsOf(t) |-> t[k]]
    BY <2>3
  <2>5. \A x : KindsOf(x) = {} /\ ~Has(x, "namespaceSelector") =>
             Output(x) = [pem |-> [k \in KindsOf(x) |-> x[k]], jks |-> Fields(<<>>, {"jks"}),
                          pkcs12 |-> IF Has(<<>>, "pkcs12")
                                     THEN <<>>.pkcs12 ++ Field("profile", "LegacyRC2") ELSE <<>>,
                          labels |-> {}]
    BY DEF Output
  <2>6. Output(back) = Output(t)
    BY <1>8, <2>2, <2>3, <2>4, <2>5
  <2> QED BY <2>6 DEF back, cb, t
<1>10. CASE kinds # {}
  <2>1. /\ DOMAIN c = kinds \cup {"namespaceSelector"}
        /\ \A k \in kinds :
             /\ c[k].data = <<PEMEntry(t, k)>> \o ToAdditionalData(t)
             /\ Has(c[k], "metadata") <=> Has(t[k], "metadata")
             /\ Has(t[k], "metadata") => c[k].metadata = t[k].metadata
        /\ c.namespaceSelector =
             IF Has(t, "namespaceSelector") THEN t.namespaceSelector
             ELSE [valid |-> TRUE, labels |-> {}]
    BY <1>1, <1>10, TargetMade DEF c
  <2>2. KindsOf(c) = kinds
    BY <2>1 DEF KindsOf
  <2>3. ASSUME NEW k \in kinds PROVE back[k] = t[k]
    <3>1. IsObjectOf(t[k], {"key"}, {"metadata"})
      BY <1>1 DEF IsBundleTarget
    <3>2. FromKeyValueTarget(c[k]) = t[k]
      BY <2>1, <3>1, FileBack
    <3> QED BY <1>6, <2>2, <3>2
  <2>4. keys = JKSKeys(t)
    BY <1>1, <1>10, AnnotationsBack DEF keys, cb, t
  <2>5. /\ Has(r, "jks") <=> Has(f, "jks")
        /\ Has(f, "jks") => r.jks = f.jks
        /\ Has(r, "pkcs12") <=> Has(f, "pkcs12")
        /\ Has(f, "pkcs12") => r.pkcs12 = f.pkcs12 ++ Field("profile", "LegacyRC2")
    BY <1>1, <1>10, <2>4, FormatsBack DEF r, c
  <2> HIDE DEF f
  <2> DEFINE P(x) == IF Has(x, "pkcs12") THEN x.pkcs12 ++ Field("profile", "LegacyRC2") ELSE <<>>
             L(x) == IF Has(x, "namespaceSelector") THEN x.namespaceSelector.labels ELSE {}
  <2>6. [k \in KindsOf(back) |-> back[k]] = [k \in KindsOf(t) |-> t[k]]
    BY <1>5, <2>2, <2>3
  <2>7. Fields(r, {"jks"}) = Fields(f, {"jks"})
    BY <2>5 DEF Fields, Has
  <2>8. P(r) = P(f)
    <3>1. ASSUME NEW p PROVE (p ++ Field("profile", "LegacyRC2")) ++ Field("profile", "LegacyRC2")
                              = p ++ Field("profile", "LegacyRC2")
      BY DEF ++, Field
    <3> QED BY <2>5, <3>1
  <2>9. L(back) = L(t)
    <3>1. Has(back, "namespaceSelector") /\ back.namespaceSelector = c.namespaceSelector
      BY <1>8, <2>1 DEF Has
    <3>2. [valid |-> TRUE, labels |-> {}].labels = {}
      OBVIOUS
    <3> QED BY <2>1, <3>1, <3>2
  <2>10. /\ Output(back) = [pem |-> [k \in KindsOf(back) |-> back[k]],
                            jks |-> Fields(r, {"jks"}), pkcs12 |-> P(r), labels |-> L(back)]
         /\ Output(t) = [pem |-> [k \in KindsOf(t) |-> t[k]],
                         jks |-> Fields(f, {"jks"}), pkcs12 |-> P(f), labels |-> L(t)]
    BY <1>5, <1>7, <1>10, <2>2 DEF Output, f
  <2> HIDE DEF P, L
  <2> QED BY <2>6, <2>7, <2>8, <2>9, <2>10 DEF t, back, cb
<1> QED BY <1>9, <1>10
-----------------------------------------------------------------------------
(* What the API server asks of a ClusterBundle *)

LEMMA RefAdmissible ==
    ASSUME NEW s, IsBundleSource(s), SourceOK(s), Refers(s),
           Key(s) \in DataKeys \cup {NoKey}
    PROVE  SourceRefOK(ToSourceRef(s))
<1> DEFINE r == Ref(s)
           ref == ToSourceRef(s)
<1>1. /\ RefOK(r) /\ IsSourceObjectKeySelector(r)
      /\ DOMAIN ref = {"kind", "key"} \cup ({"name", "selector"} \cap DOMAIN r)
      /\ ref.kind \in {"Secret", "ConfigMap"}
      /\ ref.key = IF IncludesAllKeys(r) THEN "*" ELSE r.key
      /\ Has(r, "selector") => ref.selector = r.selector
  BY ReferenceMade
<1>2. ~IncludesAllKeys(r) => r.key \in DataKeys
  <2>1. ~IncludesAllKeys(r) => Has(r, "key") /\ r.key # NoKey
    BY <1>1 DEF RefOK, IncludesAllKeys, Has, IsSourceObjectKeySelector
  <2>2. Has(r, "key") => Key(s) = r.key
    BY DEF Key
  <2> HIDE DEF r
  <2> QED BY <2>1, <2>2
<1> HIDE DEF r, ref
<1>3. SourceReferenceOK(ref)
  BY <1>1 DEF SourceReferenceOK, RefOK, Has
<1>4. SelectorOK(ref, "selector")
  BY <1>1 DEF SelectorOK, RefOK, Has
<1> QED BY <1>1, <1>2, <1>3, <1>4 DEF SourceRefOK, Has, ref

LEMMA TargetAdmissible ==
    ASSUME NEW b, IsBundle(b), ValidateBundle(b), Convertible(b),
           ToTarget(b.spec.target) # <<>>
    PROVE  ClusterTargetOK(ToTarget(b.spec.target))
<1> DEFINE t == b.spec.target
           f == Formats(t)
           c == ToTarget(t)
           kinds == KindsOf(t)
<1>1. /\ IsBundleTarget(t) /\ FormatKeysUnique(t) /\ SelectorOK(t, "namespaceSelector")
      /\ \A k \in kinds : t[k].key \in DataKeys
      /\ \A x \in DOMAIN f : f[x].key \in DataKeys
      /\ \A k \in kinds : Has(t[k], "metadata") => MetadataOK(t[k].metadata)
  BY DEF IsBundle, ValidateBundle, Convertible, HasDataKeys
<1>2. /\ kinds # {} /\ DOMAIN c = kinds \cup {"namespaceSelector"}
      /\ \A k \in kinds :
           /\ c[k].data = <<PEMEntry(t, k)>> \o ToAdditionalData(t)
           /\ Has(c[k], "metadata") <=> Has(t[k], "metadata")
           /\ Has(t[k], "metadata") => c[k].metadata = t[k].metadata
      /\ c.namespaceSelector =
           IF Has(t, "namespaceSelector") THEN t.namespaceSelector
           ELSE [valid |-> TRUE, labels |-> {}]
  <2>1. kinds # {}
    BY <1>1, TargetMade
  <2> QED BY <1>1, <2>1, TargetMade
<1>3. kinds = {"configMap", "secret"} \cap DOMAIN c
  BY <1>2 DEF KindsOf
<1>4. IsAdditionalFormats(f)
  <2>1. IsAdditionalFormats(<<>>)
    BY DEF IsAdditionalFormats, IsObjectOf, Has
  <2> QED BY <1>1, <2>1 DEF IsBundleTarget, Formats
<1> HIDE DEF c
<1>5. ASSUME NEW k \in kinds PROVE KeyValueOK(PEMEntry(t, k))
  <2> DEFINE e == PEMEntry(t, k)
  <2>1. e.key = t[k].key /\ DOMAIN e = {"key"}
    BY DEF PEMEntry
  <2> HIDE DEF e
  <2> QED BY <1>1, <2>1 DEF KeyValueOK, PKCS12OK, Has, e
<1>6. Has(f, "jks") => KeyValueOK(JKSEntry(f))
  <2> DEFINE e == JKSEntry(f)
  <2>1. /\ ~IsPEM(e) /\ DOMAIN e = {"key", "format", "password"}
        /\ e.key = f.jks.key /\ e.format = "PKCS12"
    BY EntryFields
  <2>2. Has(f, "jks") => f.jks.key \in DataKeys
    BY <1>1 DEF Has
  <2> HIDE DEF e, f
  <2> QED BY <2>1, <2>2 DEF KeyValueOK, PKCS12OK, Has, e
<1>7. Has(f, "pkcs12") => KeyValueOK(P12Entry(f))
  <2> DEFINE e == P12Entry(f)
  <2>1. /\ ~IsPEM(e)
        /\ e.key = f.pkcs12.key /\ e.format = "PKCS12"
        /\ e.profile = IF Has(f.pkcs12, "profile") THEN f.pkcs12.profile ELSE "LegacyRC2"
    BY EntryFields
  <2>2. Has(f, "pkcs12") => f.pkcs12.key \in DataKeys
    BY <1>1 DEF Has
  <2>3. Has(f, "pkcs12") => e.profile \in Profiles
    BY <1>4, <2>1 DEF IsAdditionalFormats, Profiles
  <2> HIDE DEF e, f
  <2> QED BY <2>1, <2>2, <2>3 DEF KeyValueOK, PKCS12OK, e
<1>8. ASSUME NEW k \in kinds PROVE KeyValueTargetOK(c[k])
  <2> DEFINE data == c[k].data
             keyOf(n) == data[n].key
  <2>1. data = <<PEMEntry(t, k)>> \o ToAdditionalData(t)
    BY <1>2
  <2>2. /\ IsSequence(data) /\ Len(data) \in 1..3
        /\ \A kv : kv \in Range(data) <=>
              \/ kv = PEMEntry(t, k)
              \/ Has(f, "jks") /\ kv = JKSEntry(f)
              \/ Has(f, "pkcs12") /\ kv = P12Entry(f)
        /\ \A m, n \in DOMAIN data : m # n /\ data[m] = data[n] =>
              Has(f, "jks") /\ Has(f, "pkcs12") /\ JKSEntry(f) = P12Entry(f)
    BY <2>1, EntriesOfTarget
  <2>3. /\ PEMEntry(t, k).key = t[k].key
        /\ JKSEntry(f).key = f.jks.key
        /\ P12Entry(f).key = f.pkcs12.key
    <3>1. PEMEntry(t, k).key = t[k].key
      BY DEF PEMEntry
    <3> QED BY <3>1, EntryFields
  <2>4. /\ Has(f, "jks") => f.jks.key # t[k].key
        /\ Has(f, "pkcs12") => f.pkcs12.key # t[k].key
        /\ Has(f, "jks") /\ Has(f, "pkcs12") => f.jks.key # f.pkcs12.key
    BY <1>1 DEF FormatKeysUnique, Has
  <2> HIDE DEF data, f
  <2>5. \A x, y \in Range(data) : x.key = y.key => x = y
    BY <2>2, <2>3, <2>4
  <2>6. \A n \in DOMAIN data : data[n] \in Range(data)
    BY DEF Range
  <2>7. \A m, n \in DOMAIN data : m # n => data[m] # data[n]
    BY <2>2, <2>3, <2>4
  <2>8. \A m \in DOMAIN data :
           KeyValueOK(data[m]) /\ \A n \in DOMAIN data \ {m} : data[m].key # data[n].key
    BY <1>5, <1>6, <1>7, <2>2, <2>5, <2>6, <2>7
  <2>9. Has(c[k], "metadata") => TargetMetadataOK(c[k].metadata)
    BY <1>1, <1>2 DEF MetadataOK, TargetMetadataOK
  <2>10. Len(data) \in 1..10
    BY <2>2
  <2> QED BY <2>8, <2>9, <2>10 DEF KeyValueTargetOK, data
<1>9. Has(c, "namespaceSelector") /\ SelectorOK(c, "namespaceSelector")
  <2>1. [valid |-> TRUE, labels |-> {}].valid
    OBVIOUS
  <2> QED BY <1>1, <1>2, <2>1 DEF SelectorOK, Has
<1>10. Has(c, "configMap") \/ Has(c, "secret")
  BY <1>2, <1>3 DEF Has
<1> QED BY <1>3, <1>8, <1>9, <1>10 DEF ClusterTargetOK, KindsOf, c

LEMMA Admissible ==
    ASSUME NEW b, IsBundle(b), ValidateBundle(b), Convertible(b)
    PROVE  ValidateClusterBundle(ConvertTo(b))
<1> DEFINE ss == b.spec.sources
           spec == ConvertTo(b).spec
           t == b.spec.target
<1>1. /\ IsSequence(ss) /\ Len(ss) \in 1..100
      /\ \A s \in Range(ss) : IsBundleSource(s) /\ SourceOK(s)
      /\ Cardinality({n \in DOMAIN ss : Has(ss[n], "useDefaultCAs")}) <= 1
      /\ \E s \in Range(ss) : CountsAsSource(s)
  BY DEF IsBundle, ValidateBundle
<1>2. /\ HasDataKeys(b) /\ InLineFits(b)
  BY DEF Convertible
<1>3. Has(spec, "sourceRefs") =>
        Len(spec.sourceRefs) <= 100 /\ \A r \in Range(spec.sourceRefs) : SourceRefOK(r)
  <2> SUFFICES ASSUME Has(spec, "sourceRefs")
               PROVE  /\ Len(spec.sourceRefs) <= 100
                      /\ \A r \in Range(spec.sourceRefs) : SourceRefOK(r)
    OBVIOUS
  <2> DEFINE refs == spec.sourceRefs
  <2>1. /\ IsSequence(refs) /\ Len(refs) <= Len(ss)
        /\ Range(refs) = {ToSourceRef(s) : s \in {x \in Range(ss) : Refers(x)}}
    BY <1>1, SpecConverted, RefsConverted
  <2>2. \A s \in Range(ss) : Refers(s) => SourceRefOK(ToSourceRef(s))
    BY <1>1, <1>2, RefAdmissible DEF HasDataKeys
  <2>3. Len(refs) \in Nat
    BY <2>1 DEF IsSequence
  <2> HIDE DEF refs, ss
  <2>4. Len(refs) <= 100
    <3>1. Len(ss) \in 1..100 /\ Len(refs) <= Len(ss) /\ Len(refs) \in Nat
      BY <1>1, <2>1, <2>3 DEF ss
    <3>2. \A m \in 1..100, n \in Nat : n <= m => n <= 100
      OBVIOUS
    <3> QED BY <3>1, <3>2
  <2>5. \A r \in Range(refs) : SourceRefOK(r)
    BY <2>1, <2>2
  <2> QED BY <2>4, <2>5 DEF refs
<1>4. Has(spec, "inLineCAs") => spec.inLineCAs.len \in 1..MaxInLine
  <2> SUFFICES ASSUME Has(spec, "inLineCAs") PROVE spec.inLineCAs.len \in 1..MaxInLine
    OBVIOUS
  <2>1. Has(ToInLineCAs(ss), "inLineCAs") /\ spec.inLineCAs = ToInLineCAs(ss).inLineCAs
    BY SpecConverted
  <2>2. IsText(spec.inLineCAs)
    BY <1>1, <2>1, InLineConverted
  <2>3. spec.inLineCAs.len <= MaxInLine
    BY <1>2, <2>1 DEF InLineFits
  <2> QED BY <2>2, <2>3, SchemaAssumption DEF IsText
<1>5. Has(spec, "defaultCAs") => DefaultCAsOK(spec.defaultCAs)
  BY <1>1, SpecConverted, DefaultsConverted DEF DefaultCAsOK
<1>6. Has(spec, "target") => ClusterTargetOK(spec.target)
  BY SpecConverted, TargetAdmissible
<1>7. DOMAIN spec # {}
  <2>1. PICK s \in Range(ss) : CountsAsSource(s)
    BY <1>1
  <2>2. HasOneField(s)
    BY <1>1, SourceHasOneField DEF HasOneField
  <2>3. CASE Refers(s)
    <3>1. Has(spec, "sourceRefs")
      BY <1>1, <2>3, SpecConverted, RefsConverted
    <3> QED BY <3>1 DEF Has
  <2>4. CASE Has(s, "inLine")
    <3>1. Has(spec, "inLineCAs")
      BY <1>1, <2>4, SpecConverted, InLineConverted
    <3> QED BY <3>1 DEF Has
  <2>5. CASE ~Refers(s) /\ ~Has(s, "inLine")
    <3>1. DOMAIN s = {"useDefaultCAs"}
      BY <2>2, <2>5 DEF HasOneField, Refers, SourceType, Has
    <3>2. UsesDefaultCAs(s)
      BY <2>1, <3>1 DEF CountsAsSource, UsesDefaultCAs, SourceType, Has
    <3>3. UsePackage(ss)
      BY <3>2 DEF UsePackage
    <3>4. Has(spec, "defaultCAs")
      BY <1>1, <3>3, SpecConverted, DefaultsConverted
    <3> QED BY <3>4 DEF Has
  <2> QED BY <2>3, <2>4, <2>5
<1> HIDE DEF spec
<1> QED BY <1>3, <1>4, <1>5, <1>6, <1>7 DEF ValidateClusterBundle, spec

-----------------------------------------------------------------------------

\* A Bundle that the webhook admits, with keys that can be keys of data, comes
\* back from its conversion to a ClusterBundle with the same certificates, the
\* same files in its targets and the same annotations: whatever its sources are
\* and in whatever order (ConvertTo and ConvertFrom).
THEOREM ConversionIsEquivalent == Spec => []RoundTripIsEquivalent
<1>1. Building => RoundTripIsEquivalent
  <2> SUFFICES ASSUME Building, Admitted PROVE RoundTripIsEquivalent
    BY DEF RoundTripIsEquivalent
  <2>1. IsBundle(in.bundle) /\ ValidateBundle(in.bundle) /\ Convertible(in.bundle)
    BY InputsAssumption DEF Building, Shape, Checked, Admitted
  <2>2. ~Has(in.bundle.annotations, "jksKey")
    BY <2>1 DEF Convertible
  <2> QED BY <2>1, <2>2, SameSources, SameOutput, AnnotationsBack DEF RoundTripIsEquivalent
<1> QED BY <1>1, AlwaysBuilding, PTL

\* The ClusterBundle that the migration makes of such a Bundle passes the schema
\* and the webhook of ClusterBundle (ConvertTo, ValidateClusterBundle).
THEOREM ConversionIsAdmissible == Spec => []ConvertsToAdmissible
<1>1. Building => ConvertsToAdmissible
  <2> SUFFICES ASSUME Building, Admitted PROVE ConvertsToAdmissible
    BY DEF ConvertsToAdmissible
  <2>1. IsBundle(in.bundle) /\ ValidateBundle(in.bundle) /\ Convertible(in.bundle)
    BY InputsAssumption DEF Building, Shape, Checked, Admitted
  <2> QED BY <2>1, Admissible DEF ConvertsToAdmissible
<1> QED BY <1>1, AlwaysBuilding, PTL
=============================================================================
