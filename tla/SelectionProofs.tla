--------------------------- MODULE SelectionProofs ---------------------------
(***************************************************************************)
(* What SelectIn selects.  A recursive function is proved to exist, and to  *)
(* have a property, by taking the smallest number at which it would not:    *)
(* the induction theorems of the library cannot be used.                    *)
(***************************************************************************)
EXTENDS Selection, SequenceTheorems, WellFoundedInduction, TLAPS

-----------------------------------------------------------------------------
(* Numbers *)

\* A set of natural numbers has a least element.
LEMMA LeastNatural ==
    ASSUME NEW T, T \subseteq Nat, T # {}
    PROVE  \E x \in T : \A y \in T : x <= y
<1>1. PICK x \in T : \A y \in T : ~(<<y, x>> \in OpToRel(<, Nat))
  BY NatLessThanWellFounded, WFMin
<1>2. \A y \in T : ~(y < x)
  BY <1>1 DEF OpToRel
<1> QED BY <1>2

\* A bounded one has a greatest element.
LEMMA GreatestNatural ==
    ASSUME NEW N \in Nat, NEW T, T \subseteq 0..N, T # {}
    PROVE  \E x \in T : \A y \in T : x >= y
<1> DEFINE below == {N - y : y \in T}
<1>1. below \subseteq Nat /\ below # {}
  <2>1. \A y \in 0..N : N - y \in Nat
    OBVIOUS
  <2> QED BY <2>1
<1>2. PICK m \in below : \A k \in below : m <= k
  <2> HIDE DEF below
  <2> QED BY <1>1, LeastNatural
<1>3. PICK x \in T : m = N - x
  BY <1>2
<1>4. ASSUME NEW y \in T PROVE x >= y
  <2>1. N - x <= N - y
    BY <1>2, <1>3
  <2> QED BY <2>1
<1> QED BY <1>4

-----------------------------------------------------------------------------
(* The recursion of SelectIn *)

Selected(f, q, S, n) ==
    IF n = 0 THEN <<>>
    ELSE IF q[n] \in S THEN Append(f[n - 1], q[n])
    ELSE f[n - 1]

LEMMA SelectionExists ==
    ASSUME NEW q, NEW S, NEW N \in Nat
    PROVE  \E f : f = [k \in 0..N |-> Selected(f, q, S, k)]
<1> DEFINE Sel(n, f) == f = [k \in 0..n |-> Selected(f, q, S, k)]
           bad == {n \in Nat : ~\E f : Sel(n, f)}
<1> SUFFICES ASSUME N \in bad PROVE FALSE
  OBVIOUS
<1>1. PICK n \in bad : \A m \in bad : n <= m
  <2>1. bad \subseteq Nat
    OBVIOUS
  <2> HIDE DEF bad
  <2> QED BY <2>1, LeastNatural
<1>2. n # 0
  <2> DEFINE f == [k \in 0..0 |-> <<>>]
  <2>1. Sel(0, f)
    BY DEF Selected
  <2> QED BY <1>1, <2>1
<1>3. n - 1 \in Nat \ bad
  <2>1. n \in Nat /\ n - 1 \in Nat /\ ~(n <= n - 1)
    BY <1>1, <1>2
  <2> HIDE DEF bad
  <2> QED BY <1>1, <2>1
<1>4. PICK f : Sel(n - 1, f)
  BY <1>3
<1> DEFINE g == [k \in 0..n |-> IF k = n THEN Selected(f, q, S, n) ELSE f[k]]
<1>5. \A k \in 0..n : g[k] = Selected(g, q, S, k)
  <2> SUFFICES ASSUME NEW k \in 0..n PROVE g[k] = Selected(g, q, S, k)
    OBVIOUS
  <2>1. n \in Nat
    BY <1>1
  <2>2. CASE k = n
    <3>1. g[k - 1] = f[k - 1]
      BY <1>2, <2>1, <2>2
    <3> QED BY <2>2, <2>1, <3>1, <1>2 DEF Selected
  <2>3. CASE k # n
    <3>1. k \in 0..n - 1 /\ (k # 0 => k - 1 \in 0..n /\ k - 1 # n)
      BY <2>1, <2>3
    <3>2. g[k] = f[k] /\ (k # 0 => g[k - 1] = f[k - 1])
      BY <3>1, <2>3
    <3>3. f[k] = Selected(f, q, S, k)
      BY <1>4, <3>1
    <3> QED BY <3>2, <3>3 DEF Selected
  <2> QED BY <2>2, <2>3
<1>6. Sel(n, g)
  BY <1>5
<1> QED BY <1>1, <1>6

LEMMA SelectionUnfolds ==
    ASSUME NEW q, NEW S, Len(q) \in Nat
    PROVE  \E f : /\ f = [k \in 0..Len(q) |-> Selected(f, q, S, k)]
                  /\ SelectIn(q, S) = f[Len(q)]
<1> DEFINE f == CHOOSE f : f = [k \in 0..Len(q) |-> Selected(f, q, S, k)]
<1>1. f = [k \in 0..Len(q) |-> Selected(f, q, S, k)]
  <2>1. \E g : g = [k \in 0..Len(q) |-> Selected(g, q, S, k)]
    BY SelectionExists
  <2> QED BY <2>1
<1>2. SelectIn(q, S) = f[Len(q)]
  BY DEF SelectIn, Selected
<1> QED BY <1>1, <1>2

-----------------------------------------------------------------------------

\* SelectIn gives a list of just the elements of the list that are in the set,
\* and not a longer one.
LEMMA SelectionProperties ==
    ASSUME NEW X, NEW q \in Seq(X), NEW S
    PROVE  /\ SelectIn(q, S) \in Seq(X)
           /\ Range(SelectIn(q, S)) = Range(q) \cap S
           /\ Len(SelectIn(q, S)) <= Len(q)
<1> DEFINE N == Len(q)
<1>1. N \in Nat
  OBVIOUS
<1>2. PICK f : /\ f = [k \in 0..N |-> Selected(f, q, S, k)]
               /\ SelectIn(q, S) = f[N]
  BY <1>1, SelectionUnfolds
<1> DEFINE Good(n) == /\ f[n] \in Seq(X) /\ Len(f[n]) <= n
                      /\ Range(f[n]) = {q[m] : m \in 1..n} \cap S
           bad == {n \in 0..N : ~Good(n)}
<1> HIDE DEF N
<1>3. bad = {}
  <2> SUFFICES ASSUME bad # {} PROVE FALSE
    OBVIOUS
  <2>1. PICK n \in bad : \A m \in bad : n <= m
    <3>1. bad \subseteq Nat
      BY <1>1
    <3> HIDE DEF bad
    <3> QED BY <3>1, LeastNatural
  <2>2. n \in 0..N /\ f[n] = Selected(f, q, S, n)
    BY <1>2, <2>1
  <2>3. n # 0
    <3> SUFFICES ASSUME n = 0 PROVE Good(n)
      BY <2>1
    <3>1. f[n] = <<>>
      BY <2>2 DEF Selected
    <3>2. Range(f[n]) = {}
      BY <3>1 DEF Range
    <3> QED BY <3>1, <3>2
  <2>4. n - 1 \in 0..N /\ Good(n - 1)
    <3>1. n - 1 \in 0..N /\ ~(n <= n - 1)
      BY <1>1, <2>2, <2>3
    <3>2. n - 1 \notin bad
      <4> HIDE DEF bad
      <4> QED BY <2>1, <3>1
    <3> QED BY <3>1, <3>2
  <2> DEFINE p == f[n - 1]
  <2>5. {q[m] : m \in 1..n} = {q[m] : m \in 1..n - 1} \cup {q[n]}
    <3>1. 1..n = (1..n - 1) \cup {n}
      BY <1>1, <2>2, <2>3
    <3> QED BY <3>1
  <2>6. q[n] \in X
    BY <1>1, <2>2, <2>3, ElementOfSeq DEF N
  <2> HIDE DEF bad
  <2>7. CASE q[n] \in S
    <3>1. f[n] = Append(p, q[n])
      BY <2>2, <2>3, <2>7 DEF Selected
    <3>2. f[n] \in Seq(X) /\ Len(f[n]) = Len(p) + 1 /\ Len(p) \in Nat
      BY <2>4, <2>6, <3>1
    <3>3. Range(f[n]) = Range(p) \cup {q[n]}
      <4>1. Range(f[n]) = {f[n][m] : m \in 1..Len(f[n])} /\ Range(p) = {p[m] : m \in 1..Len(p)}
        BY <2>4, <3>2, RangeEquality
      <4>2. /\ \A m \in 1..Len(p) : f[n][m] = p[m]
            /\ f[n][Len(p) + 1] = q[n]
        BY <2>4, <2>6, <3>1, AppendProperties
      <4>3. 1..Len(f[n]) = (1..Len(p)) \cup {Len(p) + 1}
        BY <3>2
      <4> HIDE DEF p
      <4> QED BY <4>1, <4>2, <4>3
    <3>4. Good(n)
      BY <2>2, <2>3, <2>4, <2>5, <2>7, <3>2, <3>3, <1>1
    <3> QED BY <3>4, <2>1 DEF bad
  <2>8. CASE q[n] \notin S
    <3>1. f[n] = p
      BY <2>2, <2>3, <2>8 DEF Selected
    <3>2. Good(n)
      BY <2>2, <2>3, <2>4, <2>5, <2>8, <3>1, <1>1
    <3> QED BY <3>2, <2>1 DEF bad
  <2> QED BY <2>7, <2>8
<1>4. Good(N)
  <2>1. N \in 0..N
    BY <1>1
  <2> QED BY <1>3, <2>1
<1>5. Range(q) = {q[m] : m \in 1..N}
  BY RangeEquality DEF N
<1> QED BY <1>2, <1>4, <1>5 DEF N
=============================================================================
