------------------------ MODULE Simplification_proofs ------------------------
(***************************************************************************)
(* Proofs about the simplification.                                        *)
(*                                                                         *)
(* simplify calls itself for lists with more of the cube cut away, so what *)
(* holds of it is shown by induction on what is left of the cube (Size):   *)
(* SimplifyEquation gives the recursive equation, SimplifyAnswers that     *)
(* every answer covers what the list covers.  No cube within another needs *)
(* more: the list is of different evaluations (Minterms), which cutting    *)
(* keeps and factoring keeps.  The printers build their text step by step  *)
(* (Iteration).  The invariant of the statements, IInv, ties the files and *)
(* what was read of them to the one answer for the accepted evaluations.   *)
(***************************************************************************)
EXTENDS Simplification, WellFoundedInduction, FiniteSetTheorems, TLAPS

-------------------------------------------------------------------------------
(* Numbers and finite orders                                               *)

LEMMA LeastNat ==
    ASSUME NEW T \in SUBSET Nat, T # {}
    PROVE  \E n \in T : \A m \in T : n <= m
<1> DEFINE R == OpToRel(<, Nat)
<1>1. IsWellFoundedOn(R, Nat)
  BY NatLessThanWellFounded
<1>2. \A x, y \in Nat : x < y => <<x, y>> \in R
  BY DEF OpToRel
<1> HIDE DEF R
<1>3. PICK n \in T : \A m \in T : ~ (<<m, n>> \in R)
  BY <1>1, WFMin
<1>4. ASSUME NEW m \in T
      PROVE  n <= m
  <2>1. m \in Nat /\ n \in Nat
    OBVIOUS
  <2>2. ~ (m < n)
    BY <1>2, <1>3, <2>1
  <2> QED BY <2>1, <2>2
<1> QED BY <1>4

LEMMA Induction ==
    ASSUME NEW T, 0 \in T, \A n \in Nat : n \in T => n + 1 \in T
    PROVE  Nat \subseteq T
<1> SUFFICES ASSUME Nat \ T # {} PROVE FALSE
  OBVIOUS
<1> DEFINE Out == Nat \ T
<1>1. Out \in SUBSET Nat /\ Out # {}
  OBVIOUS
<1> HIDE DEF Out
<1>2. PICK n \in Out : \A m \in Out : n <= m
  BY <1>1, LeastNat
<1>3. n \in Nat /\ n \notin T /\ n # 0
  BY <1>2 DEF Out
<1>4. n - 1 \in Nat /\ n - 1 \notin Out
  BY <1>1, <1>2, <1>3
<1>5. n - 1 \in T
  BY <1>4 DEF Out
<1> QED BY <1>3, <1>4, <1>5

(* A strict order on S that compares any two of its members.               *)
StrictOrder(S, R) ==
    /\ \A a \in S : <<a, a>> \notin R
    /\ \A a, b, c \in S : <<a, b>> \in R /\ <<b, c>> \in R => <<a, c>> \in R
    /\ \A a, b \in S : a # b => <<a, b>> \in R \/ <<b, a>> \in R

Below(S, R, a) == {b \in S : <<b, a>> \in R}

LEMMA BelowSmaller ==
    ASSUME NEW S, IsFiniteSet(S), NEW R, NEW a \in S, NEW b \in S, <<a, b>> \in R,
           <<a, a>> \notin R, \A c \in S : <<c, a>> \in R => <<c, b>> \in R
    PROVE  /\ Cardinality(Below(S, R, a)) \in Nat
           /\ Cardinality(Below(S, R, b)) \in Nat
           /\ Cardinality(Below(S, R, a)) < Cardinality(Below(S, R, b))
<1>1. Below(S, R, a) \subseteq Below(S, R, b) /\ Below(S, R, b) \subseteq S
  BY DEF Below
<1>2. a \in Below(S, R, b) /\ a \notin Below(S, R, a)
  BY DEF Below
<1>3. IsFiniteSet(Below(S, R, b))
  BY <1>1, FS_Subset
<1>4. /\ IsFiniteSet(Below(S, R, a))
      /\ Cardinality(Below(S, R, a)) <= Cardinality(Below(S, R, b))
      /\ Cardinality(Below(S, R, b)) # Cardinality(Below(S, R, a))
  BY <1>1, <1>2, <1>3, FS_Subset
<1>5. Cardinality(Below(S, R, a)) \in Nat /\ Cardinality(Below(S, R, b)) \in Nat
  BY <1>3, <1>4, FS_CardinalityType
<1> QED BY <1>4, <1>5

(* Some member has none before it, whether or not all are comparable.      *)
LEMMA First ==
    ASSUME NEW S, IsFiniteSet(S), S # {}, NEW R,
           \A a \in S : <<a, a>> \notin R,
           \A a, b, c \in S : <<a, b>> \in R /\ <<b, c>> \in R => <<a, c>> \in R
    PROVE  \E m \in S : \A w \in S : <<w, m>> \notin R
<1> DEFINE N == {Cardinality(Below(S, R, a)) : a \in S}
<1>1. \A a \in S : Cardinality(Below(S, R, a)) \in Nat
  <2>1. \A a \in S : Below(S, R, a) \subseteq S
    BY DEF Below
  <2> QED BY <2>1, FS_Subset, FS_CardinalityType
<1>2. N \in SUBSET Nat /\ N # {}
  BY <1>1
<1>3. PICK n \in N : \A m \in N : n <= m
  <2> HIDE DEF N
  <2> QED BY <1>2, LeastNat
<1>4. PICK m \in S : n = Cardinality(Below(S, R, m))
  OBVIOUS
<1>5. ASSUME NEW w \in S, <<w, m>> \in R
      PROVE  FALSE
  <2>1. /\ Cardinality(Below(S, R, w)) \in Nat
        /\ Cardinality(Below(S, R, m)) \in Nat
        /\ Cardinality(Below(S, R, w)) < Cardinality(Below(S, R, m))
    BY <1>5, BelowSmaller
  <2>2. Cardinality(Below(S, R, w)) \in N
    OBVIOUS
  <2> HIDE DEF N
  <2> QED BY <1>3, <1>4, <2>1, <2>2
<1> QED BY <1>5

(* The arrangement of a set: each member once, as many as there are.       *)
Ranked(S, R) == [k \in 1 .. Cardinality(S) |-> CHOOSE a \in S : Cardinality(Below(S, R, a)) = k - 1]

Injective(s) == \A i, j \in DOMAIN s : s[i] = s[j] => i = j

IsArrangement(s, S) ==
    /\ s \in Seq(S) /\ Len(s) = Cardinality(S)
    /\ ToSet(s) = S
    /\ Injective(s)

LEMMA Arrangement ==
    ASSUME NEW S, IsFiniteSet(S), NEW R, StrictOrder(S, R)
    PROVE  IsArrangement(Ranked(S, R), S)
<1> DEFINE n == Cardinality(S)
           rank(a) == Cardinality(Below(S, R, a))
           K == 0 .. n - 1
           f == [a \in S |-> rank(a)]
<1>1. n \in Nat
  BY FS_CardinalityType
<1>2. ASSUME NEW a \in S
      PROVE  rank(a) \in Nat /\ rank(a) < n
  <2>1. Below(S, R, a) \in SUBSET S /\ a \notin Below(S, R, a)
    BY DEF Below, StrictOrder
  <2>2. /\ IsFiniteSet(Below(S, R, a)) /\ rank(a) <= n /\ n # rank(a)
    BY <2>1, FS_Subset
  <2>3. rank(a) \in Nat
    BY <2>2, FS_CardinalityType
  <2> HIDE DEF n, rank
  <2> QED BY <1>1, <2>2, <2>3
<1>3. ASSUME NEW a \in S, NEW b \in S, a # b
      PROVE  rank(a) # rank(b)
  <2>1. ASSUME NEW x \in S, NEW y \in S, <<x, y>> \in R
        PROVE  rank(x) # rank(y)
    <3>1. <<x, x>> \notin R /\ \A c \in S : <<c, x>> \in R => <<c, y>> \in R
      BY <2>1 DEF StrictOrder
    <3> QED BY <2>1, <3>1, BelowSmaller
  <2>2. <<a, b>> \in R \/ <<b, a>> \in R
    BY <1>3 DEF StrictOrder
  <2> HIDE DEF rank
  <2> QED BY <2>1, <2>2
<1>4. f \in Injection(S, K)
  <2>1. f \in [S -> K]
    <3> HIDE DEF n, rank
    <3> QED BY <1>1, <1>2
  <2>2. \A a, b \in S : f[a] = f[b] => a = b
    BY <1>3
  <2> QED BY <2>1, <2>2 DEF Injection, IsInjective
<1>5. IsFiniteSet(K) /\ Cardinality(K) = n
  <2>1. 0 \in Int /\ n - 1 \in Int /\ (IF 0 > n - 1 THEN 0 ELSE (n - 1) - 0 + 1) = n
    BY <1>1
  <2> HIDE DEF n
  <2> QED BY <2>1, FS_Interval
<1>6. f \in Surjection(S, K)
  BY <1>4, <1>5, FS_Injection
<1>7. \A k \in K : \E a \in S : rank(a) = k
  BY <1>6 DEF Surjection
<1> DEFINE s == Ranked(S, R)
<1>8. DOMAIN s = 1 .. n /\ \A k \in 1 .. n : s[k] = CHOOSE a \in S : rank(a) = k - 1
  BY DEF Ranked
<1>9. \A k \in 1 .. n : s[k] \in S /\ rank(s[k]) = k - 1
  <2> SUFFICES ASSUME NEW k \in 1 .. n PROVE s[k] \in S /\ rank(s[k]) = k - 1
    OBVIOUS
  <2>1. k - 1 \in K
    BY <1>1
  <2> HIDE DEF s, rank, K
  <2> QED BY <1>7, <1>8, <2>1
<1> HIDE DEF rank, f
<1>10. s = [k \in 1 .. n |-> s[k]]
  BY DEF Ranked
<1> HIDE DEF s
<1>11. s \in Seq(S) /\ Len(s) = n /\ DOMAIN s = 1 .. n
  BY <1>1, <1>9, <1>10
<1>12. ASSUME NEW a \in S
       PROVE  \E k \in 1 .. n : s[k] = a
  <2>1. rank(a) + 1 \in 1 .. n /\ (rank(a) + 1) - 1 = rank(a)
    BY <1>1, <1>2
  <2>2. s[rank(a) + 1] \in S /\ rank(s[rank(a) + 1]) = rank(a)
    BY <1>9, <2>1
  <2>3. s[rank(a) + 1] = a
    BY <1>3, <2>2
  <2> QED BY <2>1, <2>3
<1>13. ToSet(s) = S
  BY <1>9, <1>11, <1>12 DEF ToSet
<1>14. Injective(s)
  <2> SUFFICES ASSUME NEW i \in 1 .. n, NEW j \in 1 .. n, s[i] = s[j] PROVE i = j
    BY <1>11 DEF Injective
  <2>1. i - 1 = j - 1
    BY <1>9
  <2> QED BY <1>1, <2>1
<1> QED BY <1>11, <1>13, <1>14 DEF IsArrangement, s

-------------------------------------------------------------------------------
(* Recursive functions of a number                                         *)

(* A function that each step computes from the value before it.            *)
Iterates(f, n, base, G) == f = [k \in 0 .. n |-> IF k = 0 THEN base ELSE G[<<f[k - 1], k>>]]

LEMMA Iteration ==
    ASSUME NEW n \in Nat, NEW V, NEW base \in V, NEW G \in [V \X (1 .. n) -> V]
    PROVE  \E f \in [0 .. n -> V] : Iterates(f, n, base, G)
<1> DEFINE Upto(m, f) == \A k \in 0 .. n : k <= m => f[k] = IF k = 0 THEN base ELSE G[<<f[k - 1], k>>]
           T == {m \in Nat : m <= n => \E f \in [0 .. n -> V] : Upto(m, f)}
<1>1. 0 \in T
  <2> DEFINE f == [k \in 0 .. n |-> base]
  <2>1. f \in [0 .. n -> V] /\ Upto(0, f)
    OBVIOUS
  <2> HIDE DEF f, Upto
  <2> QED BY <2>1
<1>2. ASSUME NEW m \in Nat, m \in T
      PROVE  m + 1 \in T
  <2> SUFFICES ASSUME m + 1 <= n PROVE \E f \in [0 .. n -> V] : Upto(m + 1, f)
    OBVIOUS
  <2>1. PICK f \in [0 .. n -> V] : Upto(m, f)
    BY <1>2
  <2> DEFINE g == [k \in 0 .. n |-> IF k = m + 1 THEN G[<<f[m], m + 1>>] ELSE f[k]]
  <2>2. G[<<f[m], m + 1>>] \in V
    <3>1. <<f[m], m + 1>> \in V \X (1 .. n)
      BY <2>1
    <3> QED BY <3>1
  <2>3. g \in [0 .. n -> V]
    BY <2>1, <2>2
  <2>4. ASSUME NEW k \in 0 .. n, k <= m + 1
        PROVE  g[k] = IF k = 0 THEN base ELSE G[<<g[k - 1], k>>]
    <3>1. CASE k = m + 1
      <4>1. g[k] = G[<<f[m], m + 1>>] /\ k - 1 = m /\ k # 0 /\ m \in 0 .. n /\ m # m + 1
        BY <3>1
      <4>2. g[m] = f[m]
        BY <4>1
      <4> HIDE DEF g
      <4> QED BY <3>1, <4>1, <4>2
    <3>2. CASE k <= m
      <4>1. g[k] = f[k] /\ (k # 0 => g[k - 1] = f[k - 1])
        BY <3>2
      <4>2. f[k] = IF k = 0 THEN base ELSE G[<<f[k - 1], k>>]
        BY <2>1, <3>2
      <4> HIDE DEF g
      <4> QED BY <4>1, <4>2
    <3> QED BY <2>4, <3>1, <3>2
  <2>5. Upto(m + 1, g)
    <3> HIDE DEF g
    <3> QED BY <2>4
  <2> HIDE DEF g, Upto
  <2> QED BY <2>3, <2>5
<1> HIDE DEF T
<1>3. n \in T
  BY <1>1, <1>2, Induction
<1>4. PICK f \in [0 .. n -> V] : Upto(n, f)
  BY <1>3 DEF T
<1>5. f = [k \in 0 .. n |-> f[k]]
  BY <1>4
<1>6. \A k \in 0 .. n : f[k] = IF k = 0 THEN base ELSE G[<<f[k - 1], k>>]
  BY <1>4
<1>7. Iterates(f, n, base, G)
  BY <1>5, <1>6 DEF Iterates
<1> QED BY <1>7

(* What Only keeps.                                                        *)
LEMMA OnlyRight ==
    ASSUME NEW C, NEW s \in Seq(C), NEW S
    PROVE  /\ Only(s, S) \in Seq(C) /\ Len(Only(s, S)) <= Len(s)
           /\ ToSet(Only(s, S)) = ToSet(s) \cap S
           /\ Injective(s) => Injective(Only(s, S))
<1> DEFINE n == Len(s)
           V == Seq(C)
           G == [p \in V \X (1 .. n) |-> IF s[p[2]] \in S THEN Append(p[1], s[p[2]]) ELSE p[1]]
           Eq(f) == f = [i \in 0 .. n |-> IF i = 0 THEN <<>>
                                         ELSE IF s[i] \in S THEN Append(f[i - 1], s[i]) ELSE f[i - 1]]
           kept == CHOOSE f : Eq(f)
<1>1. n \in Nat /\ DOMAIN s = 1 .. n /\ \A i \in 1 .. n : s[i] \in C
  OBVIOUS
<1>2. G \in [V \X (1 .. n) -> V]
  <2> SUFFICES ASSUME NEW q \in V, NEW i \in 1 .. n
               PROVE  (IF s[i] \in S THEN Append(q, s[i]) ELSE q) \in V
    OBVIOUS
  <2> QED BY <1>1
<1>3. \E f : Eq(f)
  <2>1. <<>> \in V
    OBVIOUS
  <2>2. PICK f \in [0 .. n -> V] : Iterates(f, n, <<>>, G)
    <3> HIDE DEF V, G
    <3> QED BY <1>1, <1>2, <2>1, Iteration
  <2>3. \A i \in 1 .. n : G[<<f[i - 1], i>>] = IF s[i] \in S THEN Append(f[i - 1], s[i]) ELSE f[i - 1]
    <3> SUFFICES ASSUME NEW i \in 1 .. n
                 PROVE  G[<<f[i - 1], i>>] = IF s[i] \in S THEN Append(f[i - 1], s[i]) ELSE f[i - 1]
      OBVIOUS
    <3>0. i - 1 \in 0 .. n
      BY <1>1
    <3>1. f[i - 1] \in V
      <4> HIDE DEF V, n
      <4> QED BY <2>2, <3>0
    <3>2. <<f[i - 1], i>> \in V \X (1 .. n)
      BY <3>1
    <3> QED BY <3>2
  <2>4. \A i \in 0 .. n : i # 0 => i \in 1 .. n
    BY <1>1
  <2> HIDE DEF G, V, n
  <2>5. Eq(f)
    BY <2>2, <2>3, <2>4 DEF Iterates
  <2> HIDE DEF Eq
  <2> QED BY <2>5
<1>4. Only(s, S) = kept[n]
  BY DEF Only
<1>5. Eq(kept)
  <2> HIDE DEF Eq
  <2> QED BY <1>3
<1> HIDE DEF kept
<1>6. \A i \in 0 .. n : kept[i] = IF i = 0 THEN <<>>
                                  ELSE IF s[i] \in S THEN Append(kept[i - 1], s[i]) ELSE kept[i - 1]
  <2> HIDE DEF n
  <2> QED BY <1>5
<1> DEFINE Right(q, i) ==
               /\ q \in Seq(C) /\ Len(q) <= i
               /\ \A x : (\E k \in DOMAIN q : q[k] = x) <=> x \in S /\ \E j \in 1 .. i : s[j] = x
               /\ Injective(s) => Injective(q)
           T == {i \in Nat : i <= n => Right(kept[i], i)}
<1>7. 0 \in T
  <2>1. kept[0] = <<>>
    BY <1>1, <1>6
  <2>2. Right(<<>>, 0)
    BY DEF Injective
  <2> HIDE DEF Right
  <2> QED BY <2>1, <2>2
<1>8. ASSUME NEW i \in Nat, i \in T
      PROVE  i + 1 \in T
  <2>0. i + 1 <= n => Right(kept[i + 1], i + 1)
    <3> SUFFICES ASSUME i + 1 <= n PROVE Right(kept[i + 1], i + 1)
      OBVIOUS
    <3>1. Right(kept[i], i)
      BY <1>1, <1>8
    <3> DEFINE q == kept[i]
               x == s[i + 1]
    <3>2. kept[i + 1] = IF x \in S THEN Append(q, x) ELSE q
      BY <1>1, <1>6
    <3>3. x \in C /\ i + 1 \in 1 .. n /\ \A j \in 1 .. i + 1 : j = i + 1 \/ j \in 1 .. i
      BY <1>1
    <3>4. q \in Seq(C) /\ Len(q) <= i /\ Len(q) \in Nat /\ DOMAIN q = 1 .. Len(q)
      BY <3>1
    <3>5. \A y : (\E k \in DOMAIN q : q[k] = y) <=> y \in S /\ \E j \in 1 .. i : s[j] = y
      BY <3>1
    <3>6. Injective(s) => Injective(q)
      BY <3>1
    <3> HIDE DEF q, x, n
    <3>7. CASE x \notin S
      <4>1. \A y : (\E j \in 1 .. i + 1 : s[j] = y) <=> y = s[i + 1] \/ \E j \in 1 .. i : s[j] = y
        BY <3>3
      <4>2. \A y : y \in S => y # s[i + 1]
        BY <3>7 DEF x
      <4>3. \A y : (\E k \in DOMAIN q : q[k] = y) <=> y \in S /\ \E j \in 1 .. i + 1 : s[j] = y
        BY <3>5, <4>1, <4>2
      <4>4. Len(q) <= i + 1
        BY <3>4
      <4>5. Right(q, i + 1)
        BY <3>4, <3>6, <4>3, <4>4
      <4> QED BY <3>2, <3>7, <4>5 DEF q
    <3>8. CASE x \in S
      <4> DEFINE a == Append(q, x)
      <4>1. /\ a \in Seq(C) /\ Len(a) = Len(q) + 1 /\ DOMAIN a = 1 .. Len(q) + 1
            /\ a[Len(q) + 1] = x /\ \A k \in 1 .. Len(q) : a[k] = q[k]
        BY <3>3, <3>4
      <4>2. \A k \in DOMAIN a : k = Len(q) + 1 \/ k \in 1 .. Len(q)
        BY <3>4, <4>1
      <4>3. Len(q) + 1 \in DOMAIN a /\ \A k \in DOMAIN q : k \in DOMAIN a /\ a[k] = q[k]
        BY <3>4, <4>1
      <4>4. \A y : (\E k \in DOMAIN a : a[k] = y) <=> y = x \/ \E k \in DOMAIN q : q[k] = y
        <5> HIDE DEF a
        <5> QED BY <3>4, <4>1, <4>2, <4>3
      <4>5. \A y : (\E j \in 1 .. i + 1 : s[j] = y) <=> y = x \/ \E j \in 1 .. i : s[j] = y
        BY <3>3 DEF x
      <4>6. \A y : (\E k \in DOMAIN a : a[k] = y) <=> y \in S /\ \E j \in 1 .. i + 1 : s[j] = y
        <5> HIDE DEF a
        <5> QED BY <3>5, <3>8, <4>4, <4>5
      <4>7. ASSUME Injective(s) PROVE Injective(a)
        <5>1. \A k \in DOMAIN q : q[k] # x
          <6>1. \A j \in 1 .. i : s[j] # s[i + 1]
            BY <1>1, <3>3, <4>7 DEF Injective
          <6> QED BY <3>5, <6>1 DEF x
        <5> HIDE DEF a
        <5> QED BY <3>4, <3>6, <4>1, <4>2, <4>7, <5>1 DEF Injective
      <4> HIDE DEF a
      <4>8. Right(a, i + 1)
        BY <3>4, <4>1, <4>6, <4>7
      <4> QED BY <3>2, <3>8, <4>8 DEF a
    <3> QED BY <3>7, <3>8
  <2> HIDE DEF Right
  <2> QED BY <2>0
<1> HIDE DEF T
<1>9. n \in T
  BY <1>1, <1>7, <1>8, Induction
<1>10. Right(kept[n], n)
  BY <1>1, <1>9 DEF T
<1> DEFINE q == kept[n]
<1>11. q \in Seq(C) /\ Len(q) <= Len(s) /\ (Injective(s) => Injective(q))
  BY <1>10
<1>12. \A x : (\E k \in DOMAIN q : q[k] = x) <=> x \in S /\ \E j \in DOMAIN s : s[j] = x
  BY <1>1, <1>10
<1> HIDE DEF q
<1>13. ToSet(q) = ToSet(s) \cap S
  BY <1>12 DEF ToSet
<1> QED BY <1>4, <1>11, <1>13 DEF q

-------------------------------------------------------------------------------
(* Lists of cubes                                                          *)

LEMMA IdxFacts ==
    /\ Idx \subseteq Nat /\ IsFiniteSet(Idx) /\ Cardinality(Idx) = VocabSize
    /\ IsFiniteSet(Parts) /\ Parts = {vff, vtt} /\ vff = 0 /\ vtt = 1
    /\ IsFiniteSet(Idx \X Parts)
<1>1. VocabSize \in Nat
  BY VocabSizeAssumption
<1>2. Idx \subseteq Nat /\ IsFiniteSet(Idx) /\ Cardinality(Idx) = VocabSize
  BY <1>1, FS_Interval DEF Idx
<1>3. IsFiniteSet(Parts) /\ Parts = {vff, vtt} /\ vff = 0 /\ vtt = 1
  <2>1. IsFiniteSet({vff}) /\ IsFiniteSet({vtt})
    BY FS_Singleton
  <2>2. IsFiniteSet({vff} \cup {vtt})
    BY <2>1, FS_Union
  <2>3. Parts = {vff, vtt} /\ Parts = {vff} \cup {vtt}
    BY DEF Parts
  <2>4. vff = 0 /\ vtt = 1
    BY DEF vff, vtt
  <2> QED BY <2>2, <2>3, <2>4
<1>4. IsFiniteSet(Idx \X Parts)
  BY <1>2, <1>3, FS_Product
<1> QED BY <1>2, <1>3, <1>4

LEMMA ListFields ==
    ASSUME NEW T \in List
    PROVE  /\ T.cof \in Cube /\ T.cubes \in Seq(Cube)
           /\ Len(T.cubes) \in Nat /\ DOMAIN T.cubes = 1 .. Len(T.cubes)
           /\ \A i \in DOMAIN T.cubes : T.cubes[i] \in Cube
           /\ cubeunlist(T) \in Seq(Cube) /\ Len(cubeunlist(T)) = Len(T.cubes)
           /\ DOMAIN cubeunlist(T) = DOMAIN T.cubes
           /\ \A i \in DOMAIN T.cubes : \A v \in Idx :
                 cubeunlist(T)[i][v] = T.cubes[i][v] \cup T.cof[v]
           /\ ceil(T) \in Cube
           /\ \A v \in Idx : ceil(T)[v] = T.cof[v] \cup UNION {T.cubes[i][v] : i \in DOMAIN T.cubes}
<1>1. T.cof \in Cube /\ T.cubes \in Seq(Cube)
  BY DEF List
<1>2. Len(T.cubes) \in Nat /\ DOMAIN T.cubes = 1 .. Len(T.cubes)
      /\ \A i \in DOMAIN T.cubes : T.cubes[i] \in Cube
  BY <1>1
<1>3. \A i \in DOMAIN T.cubes : set_or(T.cubes[i], T.cof) \in Cube
  BY <1>1, <1>2 DEF Cube, set_or
<1>4. cubeunlist(T) \in Seq(Cube) /\ Len(cubeunlist(T)) = Len(T.cubes)
      /\ DOMAIN cubeunlist(T) = DOMAIN T.cubes
  BY <1>2, <1>3 DEF cubeunlist
<1>5. \A i \in DOMAIN T.cubes : \A v \in Idx : cubeunlist(T)[i][v] = T.cubes[i][v] \cup T.cof[v]
  BY DEF cubeunlist, set_or
<1>6. \A v \in Idx : ceil(T)[v] = T.cof[v] \cup UNION {T.cubes[i][v] : i \in DOMAIN T.cubes}
  BY DEF ceil
<1>7. ceil(T) \in Cube
  <2>1. \A v \in Idx : T.cof[v] \cup UNION {T.cubes[i][v] : i \in DOMAIN T.cubes} \in SUBSET Parts
    BY <1>1, <1>2 DEF Cube
  <2> QED BY <2>1 DEF Cube, ceil
<1> QED BY <1>1, <1>2, <1>4, <1>5, <1>6, <1>7

(* How much of the cube is still to be cut: what the recursion lowers.     *)
Free(T) == {p \in Idx \X Parts : p[2] \notin T.cof[p[1]]}

Size(T) == Cardinality(Free(T))

LEMMA SizeBounded ==
    ASSUME NEW T
    PROVE  IsFiniteSet(Free(T)) /\ Size(T) \in Nat /\ Size(T) <= Cardinality(Idx \X Parts)
<1>1. Free(T) \in SUBSET (Idx \X Parts)
  BY DEF Free
<1>2. IsFiniteSet(Idx \X Parts)
  BY IdxFacts
<1>3. IsFiniteSet(Free(T)) /\ Size(T) <= Cardinality(Idx \X Parts)
  BY <1>1, <1>2, FS_Subset DEF Size
<1> QED BY <1>3, FS_CardinalityType DEF Size

LEMMA Smaller ==
    ASSUME NEW T, NEW U, \A w \in Idx : T.cof[w] \subseteq U.cof[w],
           NEW v \in Idx, NEW x \in Parts, x \notin T.cof[v], x \in U.cof[v]
    PROVE  Size(U) < Size(T)
<1>1. Free(U) \in SUBSET Free(T)
  BY DEF Free
<1>2. <<v, x>> \in Free(T) /\ <<v, x>> \notin Free(U)
  BY DEF Free
<1>3. IsFiniteSet(Free(T)) /\ Size(T) \in Nat /\ Size(U) \in Nat
  BY SizeBounded
<1>4. Size(U) <= Size(T) /\ Size(T) # Size(U)
  BY <1>1, <1>2, <1>3, FS_Subset DEF Size
<1> QED BY <1>3, <1>4

LEMMA FactoredList ==
    ASSUME NEW T \in List
    PROVE  /\ factored(T) \in List /\ factored(T).cubes = T.cubes
           /\ \A v \in Idx : factored(T).cof[v] = T.cof[v] \cup (Parts \ ceil(T)[v])
           /\ ceil(T) # fullset => Size(factored(T)) < Size(T)
<1> DEFINE cof == [v \in Idx |-> T.cof[v] \cup (Parts \ ceil(T)[v])]
<1>1. T.cof \in Cube /\ T.cubes \in Seq(Cube)
  BY ListFields
<1>2. cof \in Cube
  BY <1>1 DEF Cube
<1>4. factored(T) = [cof |-> cof, cubes |-> T.cubes]
  BY DEF factored, set_or
<1>5. factored(T).cof = cof /\ factored(T).cubes = T.cubes
  BY <1>4
<1>6. factored(T) \in List
  BY <1>1, <1>2, <1>4 DEF List
<1>7. ASSUME ceil(T) # fullset
      PROVE  Size(factored(T)) < Size(T)
  <2>1. ceil(T) \in Cube /\ fullset = [v \in Idx |-> Parts]
    BY ListFields DEF fullset
  <2>2. PICK v \in Idx : ceil(T)[v] # Parts
    BY <1>7, <2>1 DEF Cube
  <2>3. PICK x \in Parts : x \notin ceil(T)[v]
    BY <2>1, <2>2 DEF Cube
  <2>4. x \notin T.cof[v]
    BY <2>3, ListFields
  <2>5. x \in factored(T).cof[v] /\ \A w \in Idx : T.cof[w] \subseteq factored(T).cof[w]
    BY <1>5, <2>3
  <2> QED BY <2>4, <2>5, Smaller
<1> QED BY <1>5, <1>6, <1>7

LEMMA CofactorList ==
    ASSUME NEW T \in List, NEW v \in Idx, NEW x \in Parts
    PROVE  /\ scofactor(T, v, x) \in List
           /\ scofactor(T, v, x).cof = [T.cof EXCEPT ![v] = @ \cup (Parts \ {x})]
           /\ ToSet(scofactor(T, v, x).cubes) = {c \in ToSet(T.cubes) : x \in c[v]}
           /\ Len(scofactor(T, v, x).cubes) <= Len(T.cubes)
           /\ Injective(T.cubes) => Injective(scofactor(T, v, x).cubes)
           /\ (\E y \in Parts \ {x} : y \notin T.cof[v]) => Size(scofactor(T, v, x)) < Size(T)
<1> DEFINE cof == [T.cof EXCEPT ![v] = @ \cup (Parts \ {x})]
           S == {c \in Cube : x \in c[v]}
<1>1. T.cof \in Cube /\ T.cubes \in Seq(Cube)
  BY ListFields
<1>2. cof \in Cube
  BY <1>1 DEF Cube
<1>3. /\ Only(T.cubes, S) \in Seq(Cube)
      /\ Len(Only(T.cubes, S)) <= Len(T.cubes)
      /\ ToSet(Only(T.cubes, S)) = ToSet(T.cubes) \cap S
      /\ Injective(T.cubes) => Injective(Only(T.cubes, S))
  <2> HIDE DEF S
  <2> QED BY <1>1, OnlyRight
<1>4. scofactor(T, v, x) = [cof |-> cof, cubes |-> Only(T.cubes, S)]
  BY DEF scofactor
<1>5. scofactor(T, v, x).cof = cof /\ scofactor(T, v, x).cubes = Only(T.cubes, S)
  BY <1>4
<1>6. scofactor(T, v, x) \in List
  BY <1>2, <1>3, <1>4 DEF List
<1>7. ToSet(T.cubes) \cap S = {c \in ToSet(T.cubes) : x \in c[v]}
  BY <1>1 DEF ToSet
<1>8. ASSUME NEW y \in Parts \ {x}, y \notin T.cof[v]
      PROVE  Size(scofactor(T, v, x)) < Size(T)
  <2>1. \A w \in Idx : T.cof[w] \subseteq cof[w]
    BY <1>1 DEF Cube
  <2>2. y \in cof[v]
    BY <1>1 DEF Cube
  <2> QED BY <1>5, <1>8, <2>1, <2>2, Smaller
<1> QED BY <1>3, <1>5, <1>6, <1>7, <1>8

-------------------------------------------------------------------------------
(* The variable to split on                                                *)

(* What the counts tell of a variable.                                     *)
ZeroIn(T, v, x) == \E i \in DOMAIN T.cubes : x \notin T.cubes[i][v] \cup T.cof[v]

LEMMA Counts ==
    ASSUME NEW T \in List, NEW v
    PROVE  /\ \A x : part_zeros(T, v, x) \in Nat /\ (part_zeros(T, v, x) > 0 <=> ZeroIn(T, v, x))
           /\ parts_active(T, v) \in Nat
           /\ parts_active(T, v) > 0 <=> \E x \in Parts : ZeroIn(T, v, x)
           /\ parts_active(T, v) = 1 <=> \E x \in Parts : ZeroIn(T, v, x)
                                                          /\ \A y \in Parts : ZeroIn(T, v, y) => y = x
           /\ parts_active(T, v) <= 2
           /\ parts_active(T, v) = 2 <=> ZeroIn(T, v, vff) /\ ZeroIn(T, v, vtt)
           /\ var_zeros(T, v) \in Nat /\ maxactive(T, v) \in Nat
<1>1. ASSUME NEW x
      PROVE  part_zeros(T, v, x) \in Nat /\ (part_zeros(T, v, x) > 0 <=> ZeroIn(T, v, x))
  <2> DEFINE Z == {i \in DOMAIN T.cubes : x \notin T.cubes[i][v] \cup T.cof[v]}
  <2>1. Z \in SUBSET (1 .. Len(T.cubes)) /\ Len(T.cubes) \in Nat
    BY ListFields
  <2>2. IsFiniteSet(1 .. Len(T.cubes))
    BY <2>1, FS_Interval
  <2>3. IsFiniteSet(Z)
    BY <2>1, <2>2, FS_Subset
  <2>4. Cardinality(Z) \in Nat /\ (Cardinality(Z) = 0 <=> Z = {})
    BY <2>3, FS_CardinalityType, FS_EmptySet
  <2>5. ZeroIn(T, v, x) <=> Z # {}
    BY DEF ZeroIn
  <2>6. part_zeros(T, v, x) = Cardinality(Z)
    BY DEF part_zeros
  <2> QED BY <2>4, <2>5, <2>6
<1> DEFINE A == {x \in Parts : part_zeros(T, v, x) > 0}
<1>2. \A x : x \in A <=> x \in Parts /\ ZeroIn(T, v, x)
  BY <1>1
<1>3. A \in SUBSET Parts /\ IsFiniteSet(Parts) /\ Parts = {vff, vtt} /\ vff # vtt
  BY IdxFacts
<1>4. IsFiniteSet(A) /\ IsFiniteSet(Parts)
  BY <1>3, FS_Subset
<1>5. Cardinality(A) \in Nat /\ (Cardinality(A) = 0 <=> A = {})
      /\ (Cardinality(A) = 1 <=> \E x : A = {x})
  BY <1>4, FS_CardinalityType, FS_EmptySet, FS_Singleton
<1>6. Cardinality(Parts) = 2
  <2>1. Parts = {vff} \cup {vtt} /\ IsFiniteSet({vff}) /\ Cardinality({vff}) = 1
    BY <1>3, FS_Singleton
  <2> QED BY <1>3, <2>1, FS_AddElement
<1>8. parts_active(T, v) = Cardinality(A)
  BY DEF parts_active
<1> HIDE DEF A
<1>7. Cardinality(A) <= 2 /\ (Cardinality(A) = 2 <=> A = Parts)
  BY <1>3, <1>4, <1>6, FS_Subset
<1>9. A # {} <=> \E x \in Parts : ZeroIn(T, v, x)
  BY <1>2
<1>10. A = Parts <=> ZeroIn(T, v, vff) /\ ZeroIn(T, v, vtt)
  BY <1>2, <1>3
<1>11. (\E x : A = {x}) <=> \E x \in Parts : ZeroIn(T, v, x) /\ \A y \in Parts : ZeroIn(T, v, y) => y = x
  <2>1. ASSUME NEW x, A = {x}
        PROVE  \E z \in Parts : ZeroIn(T, v, z) /\ \A y \in Parts : ZeroIn(T, v, y) => y = z
    <3>1. x \in Parts /\ ZeroIn(T, v, x) /\ \A y \in Parts : ZeroIn(T, v, y) => y = x
      BY <1>2, <2>1
    <3> QED BY <3>1
  <2>2. ASSUME NEW x \in Parts, ZeroIn(T, v, x), \A y \in Parts : ZeroIn(T, v, y) => y = x
        PROVE  A = {x}
    BY <1>2, <2>2
  <2> QED BY <2>1, <2>2
<1>12. var_zeros(T, v) \in Nat /\ maxactive(T, v) \in Nat
  <2>1. part_zeros(T, v, vff) \in Nat /\ part_zeros(T, v, vtt) \in Nat
    BY <1>1
  <2> QED BY <2>1 DEF var_zeros, maxactive
<1> HIDE DEF ZeroIn
<1>13. parts_active(T, v) \in Nat /\ parts_active(T, v) <= 2
  BY <1>5, <1>7, <1>8
<1>14. parts_active(T, v) > 0 <=> \E x \in Parts : ZeroIn(T, v, x)
  BY <1>5, <1>8, <1>9
<1>15. parts_active(T, v) = 1 <=> \E x \in Parts : ZeroIn(T, v, x)
                                                 /\ \A y \in Parts : ZeroIn(T, v, y) => y = x
  BY <1>5, <1>8, <1>11
<1>16. parts_active(T, v) = 2 <=> ZeroIn(T, v, vff) /\ ZeroIn(T, v, vtt)
  BY <1>7, <1>8, <1>10
<1> QED BY <1>1, <1>12, <1>13, <1>14, <1>15, <1>16

LEMMA BestSplits ==
    ASSUME NEW T \in List, Idx # {}
    PROVE  best(T) \in Idx /\ \A w \in Idx : parts_active(T, w) <= parts_active(T, best(T))
<1> DEFINE R == {p \in Idx \X Idx : Better(T, p[1], p[2])}
           M(m) == \A w \in Idx \ {m} : Better(T, m, w)
<1>1. \A v \in Idx : parts_active(T, v) \in Nat /\ var_zeros(T, v) \in Nat /\ maxactive(T, v) \in Nat /\ v \in Nat
  BY Counts, IdxFacts
<1>2. \A v, w \in Idx : <<v, w>> \in R <=> Better(T, v, w)
  OBVIOUS
<1>3. \A v \in Idx : ~ Better(T, v, v)
  BY <1>1 DEF Better
<1>4. \A u, v, w \in Idx : Better(T, u, v) /\ Better(T, v, w) => Better(T, u, w)
  <2> SUFFICES ASSUME NEW u \in Idx, NEW v \in Idx, NEW w \in Idx, Better(T, u, v), Better(T, v, w)
               PROVE  Better(T, u, w)
    OBVIOUS
  <2>1. /\ parts_active(T, u) \in Nat /\ var_zeros(T, u) \in Nat /\ maxactive(T, u) \in Nat /\ u \in Nat
        /\ parts_active(T, v) \in Nat /\ var_zeros(T, v) \in Nat /\ maxactive(T, v) \in Nat /\ v \in Nat
        /\ parts_active(T, w) \in Nat /\ var_zeros(T, w) \in Nat /\ maxactive(T, w) \in Nat /\ w \in Nat
    BY <1>1
  <2> QED BY <2>1 DEF Better
<1>5. \A v, w \in Idx : v # w => Better(T, v, w) \/ Better(T, w, v)
  <2> SUFFICES ASSUME NEW v \in Idx, NEW w \in Idx, v # w
               PROVE  Better(T, v, w) \/ Better(T, w, v)
    OBVIOUS
  <2>1. /\ parts_active(T, v) \in Nat /\ var_zeros(T, v) \in Nat /\ maxactive(T, v) \in Nat /\ v \in Nat
        /\ parts_active(T, w) \in Nat /\ var_zeros(T, w) \in Nat /\ maxactive(T, w) \in Nat /\ w \in Nat
    BY <1>1
  <2> QED BY <2>1 DEF Better
<1> HIDE DEF R
<1>6. PICK m \in Idx : \A w \in Idx : <<w, m>> \notin R
  <2>1. IsFiniteSet(Idx)
    BY IdxFacts
  <2> QED BY <1>2, <1>3, <1>4, <2>1, First
<1>7. M(m)
  BY <1>2, <1>5, <1>6
<1>8. best(T) = CHOOSE v \in Idx : M(v)
  BY DEF best
<1>9. best(T) \in Idx /\ M(best(T))
  <2> HIDE DEF M
  <2> QED BY <1>7, <1>8
<1>10. ASSUME NEW w \in Idx
       PROVE  parts_active(T, w) <= parts_active(T, best(T))
  <2>1. w = best(T) \/ Better(T, best(T), w)
    BY <1>9
  <2>2. parts_active(T, w) \in Nat /\ parts_active(T, best(T)) \in Nat
    BY <1>1, <1>9
  <2> QED BY <2>1, <2>2 DEF Better
<1> QED BY <1>9, <1>10

-------------------------------------------------------------------------------
(* simplify is what its equation says                                      *)

(* The variable is split only when both its values are active.             *)
Splits(T) ==
    /\ Cardinality(active(T)) # 1
    /\ ~ \A v \in active(T) : parts_active(T, v) = 1

LEMMA SplitVariable ==
    ASSUME NEW T \in List, Splits(T)
    PROVE  /\ best(T) \in Idx
           /\ ZeroIn(T, best(T), vff) /\ ZeroIn(T, best(T), vtt)
           /\ T.cof[best(T)] = {}
<1>1. PICK v \in active(T) : parts_active(T, v) # 1
  BY DEF Splits
<1>2. v \in Idx /\ parts_active(T, v) > 0
  BY DEF active
<1>3. best(T) \in Idx /\ parts_active(T, v) <= parts_active(T, best(T))
  BY <1>2, BestSplits
<1>4. parts_active(T, v) \in Nat /\ parts_active(T, best(T)) \in Nat /\ parts_active(T, best(T)) <= 2
  BY Counts
<1>5. parts_active(T, best(T)) = 2
  BY <1>1, <1>2, <1>3, <1>4
<1>6. ZeroIn(T, best(T), vff) /\ ZeroIn(T, best(T), vtt)
  BY <1>5, Counts
<1>7. vff \notin T.cof[best(T)] /\ vtt \notin T.cof[best(T)]
  BY <1>6 DEF ZeroIn
<1>8. T.cof[best(T)] \subseteq {vff, vtt}
  BY <1>3, ListFields DEF Cube, Parts
<1> QED BY <1>3, <1>6, <1>7, <1>8

LEMMA HalfSmaller ==
    ASSUME NEW T \in List, Splits(T), NEW x \in Parts
    PROVE  scofactor(T, best(T), x) \in List /\ Size(scofactor(T, best(T), x)) < Size(T)
<1>1. best(T) \in Idx /\ T.cof[best(T)] = {}
  BY SplitVariable
<1>2. \E y \in Parts \ {x} : y \notin T.cof[best(T)]
  BY <1>1, IdxFacts
<1> QED BY <1>1, <1>2, CofactorList

(* The right-hand side of the definition, for any function f.              *)
Body(f, T) ==
    IF Len(T.cubes) <= 1 THEN cubeunlist(T)
    ELSE IF fullset \in ToSet(cubeunlist(T)) THEN <<fullset>>
    ELSE IF ceil(T) # fullset THEN
        LET A == f[factored(T)] IN [i \in DOMAIN A |-> set_and(A[i], ceil(T))]
    ELSE IF Cardinality(active(T)) = 1 THEN <<fullset>>
    ELSE IF \A v \in active(T) : parts_active(T, v) = 1 THEN sf_contain(cubeunlist(T))
    ELSE LET v == best(T)
             merged == compl_merge(f[scofactor(T, v, vff)], f[scofactor(T, v, vtt)], v)
         IN  IF Len(merged) > Len(T.cubes) THEN cubeunlist(T) ELSE merged

LEMMA BodyLocal ==
    ASSUME NEW f, NEW g, NEW T \in List, \A U \in List : Size(U) < Size(T) => f[U] = g[U]
    PROVE  Body(f, T) = Body(g, T)
<1>1. ceil(T) # fullset => f[factored(T)] = g[factored(T)]
  BY FactoredList
<1>2. Splits(T) => \A x \in Parts : f[scofactor(T, best(T), x)] = g[scofactor(T, best(T), x)]
  BY HalfSmaller
<1>3. vff \in Parts /\ vtt \in Parts
  BY DEF Parts
<1> QED BY <1>1, <1>2, <1>3 DEF Body, Splits

LEMMA SimplifyEquation ==
    \A T \in List : simplify[T] = Body(simplify, T)
<1> DEFINE Fn(f) == f = [T \in List |-> f[T]]
           Below_(m, f) == \A T \in List : Size(T) < m => f[T] = Body(f, T)
           M == {m \in Nat : \E f : Fn(f) /\ Below_(m, f)}
           Eq(f) == f = [T \in List |-> Body(f, T)]
<1>1. \A T \in List : Size(T) \in Nat
  BY SizeBounded
<1>2. 0 \in M
  <2> DEFINE f == [T \in List |-> <<>>]
  <2>1. Fn(f)
    OBVIOUS
  <2>2. Below_(0, f)
    BY <1>1
  <2> HIDE DEF f, Fn, Below_
  <2> QED BY <2>1, <2>2
<1>3. ASSUME NEW m \in Nat, m \in M
      PROVE  m + 1 \in M
  <2>1. PICK f : Fn(f) /\ Below_(m, f)
    BY <1>3
  <2> DEFINE g == [T \in List |-> Body(f, T)]
  <2>2. Fn(g)
    OBVIOUS
  <2>3. ASSUME NEW T \in List, Size(T) < m + 1
        PROVE  g[T] = Body(g, T)
    <3>1. ASSUME NEW U \in List, Size(U) < Size(T)
          PROVE  f[U] = g[U]
      <4>1. Size(U) < m
        BY <1>1, <2>3, <3>1
      <4> QED BY <2>1, <4>1
    <3>2. Body(f, T) = Body(g, T)
      <4> HIDE DEF g
      <4> QED BY <3>1, BodyLocal
    <3>3. g[T] = Body(f, T)
      OBVIOUS
    <3> QED BY <3>2, <3>3
  <2>4. Below_(m + 1, g)
    <3> HIDE DEF g
    <3> QED BY <2>3
  <2> HIDE DEF g, Fn, Below_
  <2> QED BY <2>2, <2>4
<1> DEFINE top == Cardinality(Idx \X Parts) + 1
<1>4. top \in M /\ \A T \in List : Size(T) < top
  <2>1. Cardinality(Idx \X Parts) \in Nat
    BY IdxFacts, FS_CardinalityType
  <2>2. top \in Nat
    BY <2>1
  <2>3. top \in M
    <3> HIDE DEF M, top
    <3> QED BY <1>2, <1>3, <2>2, Induction
  <2>4. \A T \in List : Size(T) < top
    BY <2>1, SizeBounded
  <2> QED BY <2>3, <2>4
<1>5. \E f : Eq(f)
  <2>1. PICK f : Fn(f) /\ Below_(top, f)
    <3> HIDE DEF Fn, Below_, top
    <3> QED BY <1>4
  <2>2. \A T \in List : f[T] = Body(f, T)
    <3> HIDE DEF top
    <3> QED BY <1>4, <2>1
  <2>3. Eq(f)
    BY <2>1, <2>2
  <2> QED BY <2>3
<1>6. simplify = CHOOSE f : Eq(f)
  BY DEF simplify, Body
<1>7. Eq(simplify)
  <2> HIDE DEF Eq
  <2> QED BY <1>5, <1>6
<1> QED BY <1>7

-------------------------------------------------------------------------------
(* What simplify promises                                                  *)

Holds(c, e) == \A v \in Idx : e[v] \in c[v]

Covered(F, e) == \E i \in DOMAIN F : Holds(F[i], e)

AllHave(F, v, x) == \A i \in DOMAIN F : x \in F[i][v]

NoneEmpty(F) == \A i \in DOMAIN F : \A v \in Idx : F[i][v] # {}

Antichain(F) == \A i, j \in DOMAIN F : i # j => ~ setp_implies(F[i], F[j])

(* The cubes are different evaluations, and what has been cut away is what *)
(* none of them has.                                                       *)
Minterms(T) ==
    /\ Injective(T.cubes)
    /\ \A i \in DOMAIN T.cubes : \A v \in Idx : \E x \in Parts : T.cubes[i][v] = {x}
    /\ \A v \in Idx :
          \/ T.cof[v] = {}
          \/ \E x \in Parts : T.cof[v] = Parts \ {x} /\ \A i \in DOMAIN T.cubes : T.cubes[i][v] = {x}

(* A covers what F covers, and its cubes have the values that all of F     *)
(* have, and a value of every formula.                                     *)
SameCover(A, F) ==
    /\ \A e \in Evaluation : Covered(A, e) <=> Covered(F, e)
    /\ \A v \in Idx, x \in Parts : AllHave(F, v, x) => AllHave(A, v, x)
    /\ NoneEmpty(F) => NoneEmpty(A)

Answers(A, T) ==
    /\ A \in Seq(Cube) /\ Len(A) <= Len(T.cubes)
    /\ SameCover(A, cubeunlist(T))
    /\ Minterms(T) => Antichain(A)

LEMMA MintermsApart ==
    ASSUME NEW T \in List, Minterms(T)
    PROVE  Antichain(cubeunlist(T))
<1> SUFFICES ASSUME NEW i \in DOMAIN T.cubes, NEW j \in DOMAIN T.cubes, i # j
             PROVE  ~ setp_implies(cubeunlist(T)[i], cubeunlist(T)[j])
  BY ListFields DEF Antichain
<1>1. T.cubes[i] # T.cubes[j] /\ T.cubes[i] \in Cube /\ T.cubes[j] \in Cube
  BY ListFields DEF Minterms, Injective
<1>2. PICK v \in Idx : T.cubes[i][v] # T.cubes[j][v]
  BY <1>1 DEF Cube
<1>3. T.cof[v] = {}
  BY <1>2 DEF Minterms
<1>4. PICK x \in Parts, y \in Parts : T.cubes[i][v] = {x} /\ T.cubes[j][v] = {y}
  BY DEF Minterms
<1>5. cubeunlist(T)[i][v] = {x} /\ cubeunlist(T)[j][v] = {y} /\ x # y
  BY <1>2, <1>3, <1>4, ListFields
<1> QED BY <1>5 DEF setp_implies

LEMMA UnlistAnswers ==
    ASSUME NEW T \in List
    PROVE  Answers(cubeunlist(T), T)
<1>1. cubeunlist(T) \in Seq(Cube) /\ Len(cubeunlist(T)) <= Len(T.cubes)
  BY ListFields
<1>2. SameCover(cubeunlist(T), cubeunlist(T))
  BY DEF SameCover
<1> QED BY <1>1, <1>2, MintermsApart DEF Answers

(* The whole cube, for a list that covers every evaluation.                *)
LEMMA FullsetAnswers ==
    ASSUME NEW T \in List, Len(T.cubes) > 1, \A e \in Evaluation : Covered(cubeunlist(T), e)
    PROVE  Answers(<<fullset>>, T)
<1> DEFINE A == <<fullset>>
<1>1. fullset \in Cube
  BY DEF fullset, Cube
<1>2. A \in Seq(Cube) /\ Len(A) = 1 /\ DOMAIN A = {1} /\ A[1] = fullset
  BY <1>1
<1>3. \A v \in Idx : fullset[v] = Parts
  BY DEF fullset
<1>4. \A e \in Evaluation : Holds(fullset, e)
  BY <1>3 DEF Holds, Evaluation, Parts
<1>5. Parts # {}
  BY DEF Parts
<1> HIDE DEF A
<1>6. SameCover(A, cubeunlist(T))
  BY <1>2, <1>3, <1>4, <1>5 DEF SameCover, Covered, AllHave, NoneEmpty
<1>7. Len(A) <= Len(T.cubes)
  BY <1>2, ListFields
<1>8. Antichain(A)
  BY <1>2 DEF Antichain
<1> QED BY <1>2, <1>6, <1>7, <1>8 DEF Answers, A

LEMMA FullRow ==
    ASSUME NEW T \in List, fullset \in ToSet(cubeunlist(T)), NEW e \in Evaluation
    PROVE  Covered(cubeunlist(T), e)
<1>1. PICK i \in DOMAIN cubeunlist(T) : cubeunlist(T)[i] = fullset
  BY DEF ToSet
<1>2. Holds(fullset, e)
  BY DEF Holds, fullset, Evaluation, Parts
<1> QED BY <1>1, <1>2 DEF Covered

(* A single active variable of which every value is some cube's.           *)
LEMMA OneActive ==
    ASSUME NEW T \in List, Len(T.cubes) > 1, ceil(T) = fullset, Cardinality(active(T)) = 1,
           NEW e \in Evaluation
    PROVE  Covered(cubeunlist(T), e)
<1>1. active(T) \in SUBSET Idx /\ IsFiniteSet(Idx)
  BY IdxFacts DEF active
<1>2. IsFiniteSet(active(T))
  BY <1>1, FS_Subset
<1>3. PICK v : active(T) = {v}
  BY <1>2, FS_Singleton
<1>4. v \in Idx /\ \A w \in Idx \ {v} : parts_active(T, w) \in Nat /\ ~ (parts_active(T, w) > 0)
  BY <1>3, Counts DEF active
<1>5. \A w \in Idx \ {v} : \A x \in Parts : ~ ZeroIn(T, w, x)
  BY <1>4, Counts
<1>6. \A w \in Idx : e[w] \in Parts
  BY DEF Evaluation, Parts
<1>7. e[v] \in ceil(T)[v]
  BY <1>4, <1>6 DEF fullset
<1>8. \E i \in DOMAIN T.cubes : e[v] \in T.cubes[i][v] \cup T.cof[v]
  <2>1. 1 \in DOMAIN T.cubes
    BY ListFields
  <2> QED BY <1>4, <1>7, <2>1, ListFields
<1>9. PICK i \in DOMAIN T.cubes : e[v] \in T.cubes[i][v] \cup T.cof[v]
  BY <1>8
<1>10. \A w \in Idx \ {v} : e[w] \in T.cubes[i][w] \cup T.cof[w]
  BY <1>5, <1>6, <1>9 DEF ZeroIn
<1>11. Holds(cubeunlist(T)[i], e)
  BY <1>4, <1>9, <1>10, ListFields DEF Holds
<1> QED BY <1>9, <1>11, ListFields DEF Covered

(* The values that no cube has, factored out and cut away from the answer. *)
LEMMA FactoredAnswers ==
    ASSUME NEW T \in List, Len(T.cubes) > 1, NEW A, Answers(A, factored(T))
    PROVE  Answers([i \in DOMAIN A |-> set_and(A[i], ceil(T))], T)
<1> DEFINE U == factored(T)
           F == cubeunlist(T)
           G == cubeunlist(U)
           B == [i \in DOMAIN A |-> set_and(A[i], ceil(T))]
<1>1. /\ U \in List /\ U.cubes = T.cubes
      /\ \A v \in Idx : U.cof[v] = T.cof[v] \cup (Parts \ ceil(T)[v])
  BY FactoredList
<1>2. /\ T.cof \in Cube /\ ceil(T) \in Cube
      /\ DOMAIN F = DOMAIN T.cubes /\ DOMAIN G = DOMAIN T.cubes
      /\ \A i \in DOMAIN T.cubes : T.cubes[i] \in Cube
      /\ \A i \in DOMAIN T.cubes, v \in Idx : F[i][v] = T.cubes[i][v] \cup T.cof[v]
      /\ \A i \in DOMAIN T.cubes, v \in Idx :
            G[i][v] = T.cubes[i][v] \cup T.cof[v] \cup (Parts \ ceil(T)[v])
      /\ \A i \in DOMAIN T.cubes, v \in Idx : T.cubes[i][v] \cup T.cof[v] \subseteq ceil(T)[v]
      /\ 1 \in DOMAIN T.cubes
  <2>1. /\ T.cof \in Cube /\ ceil(T) \in Cube
        /\ DOMAIN F = DOMAIN T.cubes
        /\ \A i \in DOMAIN T.cubes : T.cubes[i] \in Cube
        /\ \A i \in DOMAIN T.cubes, v \in Idx : F[i][v] = T.cubes[i][v] \cup T.cof[v]
        /\ 1 \in DOMAIN T.cubes
    BY ListFields
  <2>2. DOMAIN G = DOMAIN T.cubes
    BY <1>1, ListFields
  <2>3. \A i \in DOMAIN T.cubes, v \in Idx : G[i][v] = T.cubes[i][v] \cup U.cof[v]
    BY <1>1, ListFields
  <2>4. \A i \in DOMAIN T.cubes, v \in Idx : T.cubes[i][v] \cup T.cof[v] \subseteq ceil(T)[v]
    BY ListFields
  <2>5. \A i \in DOMAIN T.cubes, v \in Idx :
            G[i][v] = T.cubes[i][v] \cup T.cof[v] \cup (Parts \ ceil(T)[v])
    <3> SUFFICES ASSUME NEW i \in DOMAIN T.cubes, NEW v \in Idx
                 PROVE  G[i][v] = T.cubes[i][v] \cup T.cof[v] \cup (Parts \ ceil(T)[v])
      OBVIOUS
    <3>1. G[i][v] = T.cubes[i][v] \cup U.cof[v] /\ U.cof[v] = T.cof[v] \cup (Parts \ ceil(T)[v])
      BY <1>1, <2>3
    <3> HIDE DEF G, U
    <3> QED BY <3>1
  <2> HIDE DEF F, G, U
  <2> QED BY <2>1, <2>2, <2>4, <2>5
<1>3. /\ A \in Seq(Cube) /\ Len(A) <= Len(T.cubes) /\ SameCover(A, G)
      /\ Minterms(U) => Antichain(A)
  BY <1>1 DEF Answers
<1>4. /\ \A i \in DOMAIN A : A[i] \in Cube
      /\ Len(A) \in Nat /\ DOMAIN A = 1 .. Len(A)
  BY <1>3
<1>5. /\ B \in Seq(Cube) /\ Len(B) = Len(A) /\ DOMAIN B = DOMAIN A
      /\ \A i \in DOMAIN A, v \in Idx : B[i][v] = A[i][v] \cap ceil(T)[v]
  <2>1. \A i \in DOMAIN A : set_and(A[i], ceil(T)) \in Cube
    BY <1>2, <1>4 DEF set_and, Cube
  <2>2. B \in Seq(Cube) /\ Len(B) = Len(A) /\ DOMAIN B = DOMAIN A
    BY <1>4, <2>1
  <2>3. \A i \in DOMAIN A, v \in Idx : B[i][v] = A[i][v] \cap ceil(T)[v]
    BY DEF set_and
  <2> QED BY <2>2, <2>3
<1> HIDE DEF B, F, G
<1>6. \A i \in DOMAIN A, v \in Idx : Parts \ ceil(T)[v] \subseteq A[i][v]
  <2> SUFFICES ASSUME NEW v \in Idx, NEW x \in Parts, x \notin ceil(T)[v]
               PROVE  AllHave(A, v, x)
    BY DEF AllHave
  <2>1. AllHave(G, v, x)
    BY <1>2 DEF AllHave
  <2> QED BY <1>3, <2>1 DEF SameCover
<1>7. ASSUME NEW e \in Evaluation
      PROVE  Covered(B, e) <=> Covered(F, e)
  <2>1. \A v \in Idx : e[v] \in Parts
    BY DEF Evaluation, Parts
  <2>2. Covered(A, e) <=> Covered(G, e)
    BY <1>3 DEF SameCover
  <2>3. ASSUME NEW i \in DOMAIN B, Holds(B[i], e)
        PROVE  Covered(F, e)
    <3>1. \A v \in Idx : e[v] \in A[i][v] /\ e[v] \in ceil(T)[v]
      BY <1>5, <2>3 DEF Holds
    <3>2. Covered(A, e)
      BY <1>5, <3>1 DEF Holds, Covered
    <3>3. PICK j \in DOMAIN G : Holds(G[j], e)
      BY <2>2, <3>2 DEF Covered
    <3>4. \A v \in Idx : e[v] \in F[j][v]
      BY <1>2, <3>1, <3>3 DEF Holds
    <3> QED BY <1>2, <3>3, <3>4 DEF Holds, Covered
  <2>4. ASSUME NEW i \in DOMAIN F, Holds(F[i], e)
        PROVE  Covered(B, e)
    <3>1. \A v \in Idx : e[v] \in G[i][v] /\ e[v] \in ceil(T)[v]
      BY <1>2, <2>4 DEF Holds
    <3>2. Covered(G, e)
      BY <1>2, <3>1 DEF Holds, Covered
    <3>3. PICK j \in DOMAIN A : Holds(A[j], e)
      BY <2>2, <3>2 DEF Covered
    <3>4. \A v \in Idx : e[v] \in B[j][v]
      BY <1>5, <3>1, <3>3 DEF Holds
    <3> QED BY <1>5, <3>3, <3>4 DEF Holds, Covered
  <2> QED BY <2>3, <2>4 DEF Covered
<1>8. ASSUME NEW v \in Idx, NEW x \in Parts, AllHave(F, v, x)
      PROVE  AllHave(B, v, x)
  <2>1. AllHave(G, v, x) /\ x \in ceil(T)[v]
    BY <1>2, <1>8 DEF AllHave
  <2>2. AllHave(A, v, x)
    BY <1>3, <2>1 DEF SameCover
  <2> QED BY <1>5, <2>1, <2>2 DEF AllHave
<1>9. ASSUME NoneEmpty(F)
      PROVE  NoneEmpty(B)
  <2> SUFFICES ASSUME NEW i \in DOMAIN A, NEW v \in Idx PROVE B[i][v] # {}
    BY <1>5 DEF NoneEmpty
  <2>1. NoneEmpty(G)
    BY <1>2, <1>9 DEF NoneEmpty
  <2>2. A[i][v] # {} /\ A[i][v] \subseteq Parts /\ ceil(T)[v] \subseteq Parts
    BY <1>2, <1>3, <1>4, <2>1 DEF SameCover, NoneEmpty, Cube
  <2>3. CASE ceil(T)[v] = Parts
    BY <1>5, <2>2, <2>3
  <2>4. CASE ceil(T)[v] # Parts
    <3>1. PICK x \in Parts : x \notin ceil(T)[v]
      BY <2>2, <2>4
    <3>2. PICK y \in Parts : y # x /\ \A z \in Parts : z = x \/ z = y
      BY IdxFacts
    <3>3. \A j \in DOMAIN F : F[j][v] = {y}
      <4> SUFFICES ASSUME NEW j \in DOMAIN F PROVE F[j][v] = {y}
        OBVIOUS
      <4>1. F[j][v] # {} /\ F[j][v] \subseteq ceil(T)[v]
        BY <1>2, <1>9 DEF NoneEmpty
      <4> QED BY <2>2, <3>1, <3>2, <4>1
    <3>4. AllHave(B, v, y)
      BY <1>8, <3>3 DEF AllHave
    <3> QED BY <1>5, <3>4 DEF AllHave
  <2> QED BY <2>3, <2>4
<1>10. ASSUME Minterms(T)
       PROVE  Antichain(B)
  <2>1. Minterms(U)
    <3>1. ASSUME NEW v \in Idx
          PROVE  \/ U.cof[v] = {}
                 \/ \E x \in Parts : /\ U.cof[v] = Parts \ {x}
                                     /\ \A i \in DOMAIN U.cubes : U.cubes[i][v] = {x}
      <4>0. U.cof[v] = T.cof[v] \cup (Parts \ ceil(T)[v])
        BY <1>1
      <4>1. CASE ceil(T)[v] = Parts
        <5>1. U.cof[v] = T.cof[v]
          BY <4>0, <4>1
        <5> QED BY <1>1, <1>10, <5>1 DEF Minterms
      <4>2. CASE ceil(T)[v] # Parts
        <5>1. PICK x \in Parts : x \notin ceil(T)[v]
          BY <1>2, <4>2 DEF Cube
        <5>2. PICK y \in Parts : y # x /\ Parts = {x, y}
          BY IdxFacts
        <5>3. \A i \in DOMAIN T.cubes : T.cubes[i][v] = {y} /\ x \notin T.cof[v] /\ y \notin Parts \ ceil(T)[v]
          <6> SUFFICES ASSUME NEW i \in DOMAIN T.cubes
                       PROVE  T.cubes[i][v] = {y} /\ x \notin T.cof[v] /\ y \notin Parts \ ceil(T)[v]
            OBVIOUS
          <6>1. T.cubes[i][v] \cup T.cof[v] \subseteq ceil(T)[v]
            BY <1>2
          <6>2. PICK z \in Parts : T.cubes[i][v] = {z}
            BY <1>10 DEF Minterms
          <6> QED BY <5>1, <5>2, <6>1, <6>2
        <5>4. y \notin T.cof[v]
          BY <1>2, <1>10, <5>2, <5>3 DEF Minterms
        <5>5. T.cof[v] \subseteq Parts
          BY <1>2 DEF Cube
        <5>6. U.cof[v] = Parts \ {y}
          BY <1>2, <4>0, <5>1, <5>2, <5>3, <5>4, <5>5
        <5> QED BY <1>1, <5>3, <5>6
      <4> QED BY <4>1, <4>2
    <3>2. Injective(U.cubes) /\ \A i \in DOMAIN U.cubes : \A v \in Idx : \E x \in Parts : U.cubes[i][v] = {x}
      BY <1>1, <1>10 DEF Minterms
    <3> HIDE DEF U
    <3> QED BY <3>1, <3>2 DEF Minterms
  <2>2. SUFFICES ASSUME NEW i \in DOMAIN A, NEW j \in DOMAIN A, i # j, setp_implies(B[i], B[j])
                 PROVE  FALSE
    BY <1>5 DEF Antichain
  <2>3. \A v \in Idx : A[i][v] \subseteq A[j][v]
    <3> SUFFICES ASSUME NEW v \in Idx PROVE A[i][v] \subseteq A[j][v]
      OBVIOUS
    <3>1. A[i][v] \cap ceil(T)[v] \subseteq A[j][v] \cap ceil(T)[v]
      BY <1>5, <2>2 DEF setp_implies
    <3>2. A[i][v] \subseteq Parts
      BY <1>4 DEF Cube
    <3> QED BY <1>6, <3>1, <3>2
  <2> QED BY <1>3, <2>1, <2>2, <2>3 DEF Antichain, setp_implies
<1>11. SameCover(B, F)
  BY <1>7, <1>8, <1>9 DEF SameCover
<1>12. Len(B) <= Len(T.cubes)
  BY <1>3, <1>5
<1> QED BY <1>5, <1>10, <1>11, <1>12 DEF Answers, B, F

-------------------------------------------------------------------------------
(* Unate lists                                                             *)

LEMMA ElementFacts ==
    ASSUME NEW c \in Cube
    PROVE  /\ IsFiniteSet(Elements(c)) /\ Cardinality(Elements(c)) \in Nat
           /\ Elements(c) \subseteq Idx \X Parts
<1>1. Elements(c) \in SUBSET (Idx \X Parts)
  BY DEF Elements
<1>2. IsFiniteSet(Elements(c))
  BY <1>1, IdxFacts, FS_Subset
<1> QED BY <1>1, <1>2, FS_CardinalityType

LEMMA BitFacts ==
    /\ \A p \in Idx \X Parts : Bit(p) \in Nat
    /\ \A p, q \in Idx \X Parts : Bit(p) = Bit(q) => p = q
<1>1. ASSUME NEW i \in Idx, NEW x \in Parts
      PROVE  Bit(<<i, x>>) = 2 * i + x /\ i \in Nat /\ x \in {0, 1}
  BY IdxFacts DEF Bit
<1>2. ASSUME NEW i \in Idx, NEW x \in Parts, NEW j \in Idx, NEW y \in Parts, Bit(<<i, x>>) = Bit(<<j, y>>)
      PROVE  i = j /\ x = y
  <2>1. 2 * i + x = 2 * j + y /\ i \in Nat /\ j \in Nat /\ x \in {0, 1} /\ y \in {0, 1}
    BY <1>1, <1>2
  <2> QED BY <2>1
<1>3. \A p \in Idx \X Parts : Bit(p) \in Nat
  <2> SUFFICES ASSUME NEW i \in Idx, NEW x \in Parts PROVE Bit(<<i, x>>) \in Nat
    OBVIOUS
  <2> QED BY <1>1
<1>4. \A p, q \in Idx \X Parts : Bit(p) = Bit(q) => p = q
  <2> SUFFICES ASSUME NEW i \in Idx, NEW x \in Parts, NEW j \in Idx, NEW y \in Parts,
                      Bit(<<i, x>>) = Bit(<<j, y>>)
               PROVE  <<i, x>> = <<j, y>>
    OBVIOUS
  <2> QED BY <1>2
<1> QED BY <1>3, <1>4

LEMMA HigherTransitive ==
    ASSUME NEW a \in Cube, NEW b \in Cube, NEW c \in Cube, Higher(a, b), Higher(b, c)
    PROVE  Higher(a, c)
<1> DEFINE A == Elements(a)
           B == Elements(b)
           C == Elements(c)
<1>1. A \subseteq Idx \X Parts /\ B \subseteq Idx \X Parts /\ C \subseteq Idx \X Parts
  BY ElementFacts
<1>2. PICK p \in A \ B : \A q \in B \ A : Bit(p) > Bit(q)
  BY DEF Higher
<1>3. PICK r \in B \ C : \A q \in C \ B : Bit(r) > Bit(q)
  BY DEF Higher
<1> HIDE DEF A, B, C
<1>4. \A x \in A \cup B \cup C : Bit(x) \in Nat
  BY <1>1, BitFacts
<1>5. p # r /\ p \in Idx \X Parts /\ r \in Idx \X Parts
  BY <1>1, <1>2, <1>3
<1>6. Bit(p) # Bit(r) /\ Bit(p) \in Nat /\ Bit(r) \in Nat
  BY <1>5, BitFacts
<1>7. \E m \in A \ C : \A q \in C \ A : Bit(m) > Bit(q)
  <2>1. CASE Bit(p) > Bit(r)
    <3>1. p \notin C
      BY <1>2, <1>3, <1>6, <2>1
    <3>2. \A q \in C \ A : Bit(p) > Bit(q)
      BY <1>2, <1>3, <1>4, <1>6, <2>1
    <3> QED BY <1>2, <3>1, <3>2
  <2>2. CASE Bit(r) > Bit(p)
    <3>1. r \in A
      BY <1>2, <1>3, <1>6, <2>2
    <3>2. \A q \in C \ A : Bit(r) > Bit(q)
      BY <1>2, <1>3, <1>4, <1>6, <2>2
    <3> QED BY <1>3, <3>1, <3>2
  <2> QED BY <1>6, <2>1, <2>2
<1> QED BY <1>7 DEF Higher, A, C

LEMMA HigherTotal ==
    ASSUME NEW a \in Cube, NEW b \in Cube, a # b
    PROVE  Higher(a, b) \/ Higher(b, a)
<1> DEFINE A == Elements(a)
           B == Elements(b)
           D == (A \ B) \cup (B \ A)
           R == {p \in D \X D : Bit(p[1]) > Bit(p[2])}
<1>1. A \subseteq Idx \X Parts /\ B \subseteq Idx \X Parts /\ IsFiniteSet(A) /\ IsFiniteSet(B)
  BY ElementFacts
<1>2. D # {}
  <2>1. PICK v \in Idx : a[v] # b[v]
    BY DEF Cube
  <2>2. PICK x \in Parts : x \in a[v] <=> x \notin b[v]
    BY <2>1 DEF Cube
  <2>3. <<v, x>> \in A <=> <<v, x>> \notin B
    BY <2>2 DEF Elements
  <2> QED BY <2>3
<1>3. IsFiniteSet(D) /\ D \subseteq Idx \X Parts
  <2>1. IsFiniteSet(A \ B) /\ IsFiniteSet(B \ A)
    BY <1>1, FS_Difference
  <2> QED BY <1>1, <2>1, FS_Union
<1>4. \A x \in D : Bit(x) \in Nat
  BY <1>3, BitFacts
<1>5. \A x, y \in D : <<x, y>> \in R <=> Bit(x) > Bit(y)
  OBVIOUS
<1> HIDE DEF R
<1>6. PICK m \in D : \A w \in D : <<w, m>> \notin R
  <2>1. \A x \in D : <<x, x>> \notin R
    BY <1>4, <1>5
  <2>2. \A x, y, z \in D : <<x, y>> \in R /\ <<y, z>> \in R => <<x, z>> \in R
    <3> HIDE DEF D
    <3> SUFFICES ASSUME NEW x \in D, NEW y \in D, NEW z \in D, <<x, y>> \in R, <<y, z>> \in R
                 PROVE  <<x, z>> \in R
      OBVIOUS
    <3>1. Bit(x) > Bit(y) /\ Bit(y) > Bit(z) /\ Bit(x) \in Nat /\ Bit(y) \in Nat /\ Bit(z) \in Nat
      BY <1>4, <1>5
    <3>2. Bit(x) > Bit(z)
      BY <3>1
    <3> QED BY <1>5, <3>2
  <2> HIDE DEF D
  <2> QED BY <1>2, <1>3, <2>1, <2>2, First
<1>7. ASSUME NEW q \in D, q # m
      PROVE  Bit(m) > Bit(q)
  <2> HIDE DEF D
  <2>1. ~ (Bit(q) > Bit(m)) /\ Bit(q) \in Nat /\ Bit(m) \in Nat
    BY <1>4, <1>5, <1>6
  <2>2. q \in Idx \X Parts /\ m \in Idx \X Parts
    BY <1>3, <1>6
  <2>3. Bit(q) # Bit(m)
    BY <1>7, <2>2, BitFacts
  <2> QED BY <2>1, <2>3
<1> HIDE DEF A, B
<1>8. CASE m \in A \ B
  <2>1. \A q \in B \ A : Bit(m) > Bit(q)
    BY <1>7, <1>8
  <2> QED BY <1>8, <2>1 DEF Higher, A, B
<1>9. CASE m \in B \ A
  <2>1. \A q \in A \ B : Bit(m) > Bit(q)
    BY <1>7, <1>9
  <2> QED BY <1>9, <2>1 DEF Higher, A, B
<1> QED BY <1>6, <1>8, <1>9

LEMMA DescendOrder ==
    ASSUME NEW S \in SUBSET Cube
    PROVE  StrictOrder(S, {p \in S \X S : descend(p[1], p[2])})
<1> DEFINE R == {p \in S \X S : descend(p[1], p[2])}
<1>1. \A a, b \in S : <<a, b>> \in R <=> descend(a, b)
  OBVIOUS
<1>2. \A a \in S : Cardinality(Elements(a)) \in Nat
  BY ElementFacts
<1> HIDE DEF R
<1>3. ASSUME NEW a \in S
      PROVE  <<a, a>> \notin R
  <2>1. ~ Higher(a, a)
    BY DEF Higher
  <2>2. ~ descend(a, a)
    BY <1>2, <2>1 DEF descend
  <2> QED BY <1>1, <2>2
<1>4. ASSUME NEW a \in S, NEW b \in S, NEW c \in S, <<a, b>> \in R, <<b, c>> \in R
      PROVE  <<a, c>> \in R
  <2>1. descend(a, b) /\ descend(b, c)
    BY <1>1, <1>4
  <2>2. /\ Cardinality(Elements(a)) \in Nat /\ Cardinality(Elements(b)) \in Nat
        /\ Cardinality(Elements(c)) \in Nat
    BY <1>2
  <2>3. Higher(a, b) /\ Higher(b, c) => Higher(a, c)
    BY HigherTransitive
  <2>4. descend(a, c)
    BY <2>1, <2>2, <2>3 DEF descend
  <2> QED BY <1>1, <2>4
<1>5. ASSUME NEW a \in S, NEW b \in S, a # b
      PROVE  <<a, b>> \in R \/ <<b, a>> \in R
  <2>1. Higher(a, b) \/ Higher(b, a)
    BY <1>5, HigherTotal
  <2>2. Cardinality(Elements(a)) \in Nat /\ Cardinality(Elements(b)) \in Nat
    BY <1>2
  <2>3. descend(a, b) \/ descend(b, a)
    BY <2>1, <2>2 DEF descend
  <2> QED BY <1>1, <2>3
<1>6. StrictOrder(S, R)
  BY <1>3, <1>4, <1>5 DEF StrictOrder
<1> QED BY <1>6 DEF R

LEMMA MembersFinite ==
    ASSUME NEW C, NEW s \in Seq(C)
    PROVE  IsFiniteSet(ToSet(s)) /\ Cardinality(ToSet(s)) <= Len(s) /\ Cardinality(ToSet(s)) \in Nat
<1>1. Len(s) \in Nat /\ DOMAIN s = 1 .. Len(s)
  OBVIOUS
<1>2. s \in [1 .. Len(s) -> ToSet(s)] /\ \A x \in ToSet(s) : \E i \in 1 .. Len(s) : s[i] = x
  BY <1>1 DEF ToSet
<1>3. s \in Surjection(1 .. Len(s), ToSet(s))
  BY <1>2 DEF Surjection
<1>4. IsFiniteSet(1 .. Len(s)) /\ Cardinality(1 .. Len(s)) = Len(s)
  BY <1>1, FS_Interval
<1>5. IsFiniteSet(ToSet(s)) /\ Cardinality(ToSet(s)) <= Cardinality(1 .. Len(s))
  BY <1>3, <1>4, FS_Surjection
<1> QED BY <1>4, <1>5, FS_CardinalityType

LEMMA ImpliesOrder ==
    /\ \A a : setp_implies(a, a)
    /\ \A a, b, c : setp_implies(a, b) /\ setp_implies(b, c) => setp_implies(a, c)
    /\ \A a, b \in Cube : setp_implies(a, b) /\ setp_implies(b, a) => a = b
<1>1. \A a : setp_implies(a, a)
  BY DEF setp_implies
<1>2. \A a, b, c : setp_implies(a, b) /\ setp_implies(b, c) => setp_implies(a, c)
  <2> SUFFICES ASSUME NEW a, NEW b, NEW c, setp_implies(a, b), setp_implies(b, c) PROVE setp_implies(a, c)
    OBVIOUS
  <2> QED BY DEF setp_implies
<1>3. \A a, b \in Cube : setp_implies(a, b) /\ setp_implies(b, a) => a = b
  <2> SUFFICES ASSUME NEW a \in Cube, NEW b \in Cube, setp_implies(a, b), setp_implies(b, a) PROVE a = b
    OBVIOUS
  <2>1. \A v \in Idx : a[v] = b[v]
    BY DEF setp_implies
  <2> QED BY <2>1 DEF Cube
<1> QED BY <1>1, <1>2, <1>3

(* Every cube of a finite set is within a largest one.                     *)
Largest(S) == {a \in S : \A b \in S \ {a} : ~ setp_implies(a, b)}

LEMMA WithinLargest ==
    ASSUME NEW S \in SUBSET Cube, IsFiniteSet(S), NEW c \in S
    PROVE  \E m \in Largest(S) : setp_implies(c, m)
<1> DEFINE D == {b \in S : setp_implies(c, b)}
           R == {p \in D \X D : p[1] # p[2] /\ setp_implies(p[2], p[1])}
<1>1. D \subseteq Cube /\ IsFiniteSet(D) /\ D # {}
  <2>1. D \in SUBSET S
    OBVIOUS
  <2>2. IsFiniteSet(D)
    BY <2>1, FS_Subset
  <2>3. c \in D
    BY ImpliesOrder
  <2> QED BY <2>1, <2>2, <2>3
<1>2. \A a, b \in D : <<a, b>> \in R <=> a # b /\ setp_implies(b, a)
  OBVIOUS
<1>3. \A b : b \in D <=> b \in S /\ setp_implies(c, b)
  OBVIOUS
<1> HIDE DEF R, D
<1>4. PICK m \in D : \A w \in D : <<w, m>> \notin R
  <2>1. \A x \in D : <<x, x>> \notin R
    BY <1>2
  <2>2. \A x, y, z \in D : <<x, y>> \in R /\ <<y, z>> \in R => <<x, z>> \in R
    <3> SUFFICES ASSUME NEW x \in D, NEW y \in D, NEW z \in D, <<x, y>> \in R, <<y, z>> \in R
                 PROVE  <<x, z>> \in R
      OBVIOUS
    <3>1. x # y /\ setp_implies(y, x) /\ y # z /\ setp_implies(z, y)
      BY <1>2
    <3>2. setp_implies(z, x)
      BY <3>1, ImpliesOrder
    <3>3. x # z
      BY <1>1, <3>1, ImpliesOrder
    <3> QED BY <1>2, <3>2, <3>3
  <2> QED BY <1>1, <2>1, <2>2, First
<1>5. m \in S /\ setp_implies(c, m)
  BY <1>3, <1>4
<1>6. ASSUME NEW b \in S \ {m}, setp_implies(m, b)
      PROVE  FALSE
  <2>1. b \in D
    BY <1>3, <1>5, <1>6, ImpliesOrder
  <2> QED BY <1>2, <1>4, <1>6, <2>1
<1> QED BY <1>5, <1>6 DEF Largest

LEMMA UnateAnswers ==
    ASSUME NEW T \in List
    PROVE  Answers(sf_contain(cubeunlist(T)), T)
<1> DEFINE F == cubeunlist(T)
           S == Largest(ToSet(F))
           R == {p \in S \X S : descend(p[1], p[2])}
           A == sf_contain(F)
<1>1. F \in Seq(Cube) /\ Len(F) = Len(T.cubes) /\ Len(F) \in Nat
  BY ListFields
<1>2. /\ IsFiniteSet(ToSet(F)) /\ Cardinality(ToSet(F)) <= Len(F) /\ Cardinality(ToSet(F)) \in Nat
      /\ ToSet(F) \subseteq Cube
  <2> HIDE DEF F
  <2>1. ToSet(F) \subseteq Cube
    BY <1>1 DEF ToSet
  <2> QED BY <1>1, <2>1, MembersFinite
<1>3. S \in SUBSET ToSet(F)
  BY DEF Largest
<1>4. IsFiniteSet(S) /\ Cardinality(S) <= Cardinality(ToSet(F)) /\ S \in SUBSET Cube /\ Cardinality(S) \in Nat
  <2>1. IsFiniteSet(S) /\ Cardinality(S) <= Cardinality(ToSet(F))
    BY <1>2, <1>3, FS_Subset
  <2> QED BY <1>2, <1>3, <2>1, FS_CardinalityType
<1>5. A = Ranked(S, R)
  <2>1. \A a \in S : Below(S, R, a) = {b \in S : descend(b, a)}
    BY DEF Below
  <2>2. A = Arranged(S, descend)
    BY DEF sf_contain, Largest
  <2>3. A = [k \in 1 .. Cardinality(S) |->
                CHOOSE a \in S : Cardinality({b \in S : descend(b, a)}) = k - 1]
    BY <2>2 DEF Arranged
  <2> DEFINE old(k) == CHOOSE a \in S : Cardinality({b \in S : descend(b, a)}) = k - 1
             new(k) == CHOOSE a \in S : Cardinality(Below(S, R, a)) = k - 1
  <2>4. Ranked(S, R) = [k \in 1 .. Cardinality(S) |-> new(k)]
    BY DEF Ranked
  <2>5. A = [k \in 1 .. Cardinality(S) |-> old(k)]
    BY <2>3
  <2> HIDE DEF S, R, A
  <2>6. \A k : old(k) = new(k)
    BY <2>1
  <2> HIDE DEF old, new
  <2> QED BY <2>4, <2>5, <2>6
<1>6. IsArrangement(A, S)
  <2>1. StrictOrder(S, R)
    <3> HIDE DEF S
    <3> QED BY <1>4, DescendOrder
  <2> HIDE DEF S, R, A
  <2> QED BY <1>4, <1>5, <2>1, Arrangement
<1> HIDE DEF A, R
<1>7. A \in Seq(Cube) /\ Len(A) <= Len(T.cubes)
  <2>1. A \in Seq(S) /\ Len(A) = Cardinality(S)
    BY <1>6 DEF IsArrangement
  <2> HIDE DEF S, F
  <2>2. A \in Seq(Cube)
    BY <1>4, <2>1
  <2> QED BY <1>1, <1>2, <1>4, <2>1, <2>2
<1>8. \A a : a \in S <=> \E i \in DOMAIN A : A[i] = a
  BY <1>6 DEF IsArrangement, ToSet
<1>9. \A i \in DOMAIN A : \E j \in DOMAIN F : F[j] = A[i]
  BY <1>3, <1>8 DEF ToSet
<1>10. \A j \in DOMAIN F : \E i \in DOMAIN A : setp_implies(F[j], A[i])
  <2> SUFFICES ASSUME NEW j \in DOMAIN F PROVE \E i \in DOMAIN A : setp_implies(F[j], A[i])
    OBVIOUS
  <2>1. F[j] \in ToSet(F)
    BY DEF ToSet
  <2>2. PICK m \in S : setp_implies(F[j], m)
    <3> HIDE DEF F
    <3> QED BY <1>2, <2>1, WithinLargest
  <2> QED BY <1>8, <2>2
<1>11. SameCover(A, F)
  <2>1. \A e \in Evaluation : Covered(A, e) => Covered(F, e)
    BY <1>9 DEF Covered
  <2>2. ASSUME NEW e \in Evaluation, NEW j \in DOMAIN F, Holds(F[j], e)
        PROVE  Covered(A, e)
    <3>1. PICK i \in DOMAIN A : setp_implies(F[j], A[i])
      BY <1>10
    <3>2. Holds(A[i], e)
      BY <2>2, <3>1 DEF Holds, setp_implies
    <3> QED BY <3>2 DEF Covered
  <2>3. \A v \in Idx, x \in Parts : AllHave(F, v, x) => AllHave(A, v, x)
    BY <1>9 DEF AllHave
  <2>4. NoneEmpty(F) => NoneEmpty(A)
    BY <1>9 DEF NoneEmpty
  <2>5. \A e \in Evaluation : Covered(F, e) => Covered(A, e)
    BY <2>2 DEF Covered
  <2> HIDE DEF F
  <2> QED BY <2>1, <2>3, <2>4, <2>5 DEF SameCover
<1>12. Antichain(A)
  <2> SUFFICES ASSUME NEW i \in DOMAIN A, NEW j \in DOMAIN A, i # j PROVE ~ setp_implies(A[i], A[j])
    BY DEF Antichain
  <2>1. A[i] # A[j]
    BY <1>6 DEF IsArrangement, Injective
  <2>2. A[i] \in S /\ A[j] \in ToSet(F) \ {A[i]}
    BY <1>3, <1>8, <2>1
  <2> QED BY <2>2 DEF Largest
<1> QED BY <1>7, <1>11, <1>12 DEF Answers, A

-------------------------------------------------------------------------------
(* Joining the halves                                                      *)

Beside(a, b, v) == \A w \in Idx \ {v} : a[w] \subseteq b[w]

EqualBeside(a, b, v) == \A w \in Idx \ {v} : a[w] = b[w]

Cut(L, v, x) == [i \in DOMAIN L |-> set_and(L[i], [fullset EXCEPT ![v] = {x}])]

LeftOf(L, R, v) == [i \in DOMAIN L |-> compl_lift(Cut(L, v, vff)[i], Cut(R, v, vtt), v, vtt)]

ActiveOf(L, R, v) == compl_d1merge(Cut(L, v, vff), Cut(R, v, vtt), v)

RightOf(L, R, v) ==
    [i \in DOMAIN ActiveOf(L, R, v) |-> compl_lift(ActiveOf(L, R, v)[i], LeftOf(L, R, v), v, vff)]

(* A cover whose cubes leave the split variable open.                      *)
OpenAt(L, v) == L \in Seq(Cube) /\ \A i \in DOMAIN L : L[i][v] = Parts

LEMMA CutRight ==
    ASSUME NEW v \in Idx, NEW L, OpenAt(L, v), NEW x \in Parts
    PROVE  /\ Cut(L, v, x) \in Seq(Cube) /\ DOMAIN Cut(L, v, x) = DOMAIN L
           /\ \A i \in DOMAIN L : EqualBeside(Cut(L, v, x)[i], L[i], v) /\ Cut(L, v, x)[i][v] = {x}
<1>1. L \in Seq(Cube) /\ Len(L) \in Nat /\ DOMAIN L = 1 .. Len(L) /\ \A i \in DOMAIN L : L[i] \in Cube
  BY DEF OpenAt
<1> DEFINE one == [fullset EXCEPT ![v] = {x}]
<1>2. one[v] = {x} /\ \A w \in Idx \ {v} : one[w] = Parts
  BY DEF fullset
<1> HIDE DEF one
<1>3. ASSUME NEW i \in DOMAIN L
      PROVE  /\ set_and(L[i], one) \in Cube
             /\ EqualBeside(set_and(L[i], one), L[i], v) /\ set_and(L[i], one)[v] = {x}
  <2>1. \A w \in Idx : set_and(L[i], one)[w] = L[i][w] \cap one[w]
    BY DEF set_and
  <2>2. L[i] \in [Idx -> SUBSET Parts] /\ L[i][v] = Parts
    BY <1>1, <1>3 DEF OpenAt, Cube
  <2>3. set_and(L[i], one) \in Cube
    BY <2>2 DEF Cube, set_and
  <2> QED BY <1>2, <2>1, <2>2, <2>3 DEF EqualBeside
<1>4. Cut(L, v, x) = [i \in DOMAIN L |-> set_and(L[i], one)]
  BY DEF Cut, one
<1> QED BY <1>1, <1>3, <1>4

LEMMA Lifted ==
    ASSUME NEW v \in Idx, NEW x \in Parts, NEW a \in Cube, NEW B \in Seq(Cube),
           \A j \in DOMAIN B : x \in B[j][v]
    PROVE  /\ compl_lift(a, B, v, x) \in Cube /\ EqualBeside(compl_lift(a, B, v, x), a, v)
           /\ compl_lift(a, B, v, x)[v]
                 = IF \E j \in DOMAIN B : Beside(a, B[j], v) THEN Parts ELSE a[v]
<1> DEFINE up == [a EXCEPT ![v] = Parts]
           only == [a EXCEPT ![v] = {x}]
<1>1. up \in Cube /\ EqualBeside(up, a, v) /\ up[v] = Parts
  BY DEF Cube, EqualBeside
<1>2. only[v] = {x} /\ \A w \in Idx \ {v} : only[w] = a[w]
  BY DEF Cube
<1>3. \A j \in DOMAIN B : setp_implies(only, B[j]) <=> Beside(a, B[j], v)
  <2> HIDE DEF only
  <2> QED BY <1>2 DEF setp_implies, Beside
<1>4. compl_lift(a, B, v, x) = IF \E b \in ToSet(B) : setp_implies(only, b) THEN up ELSE a
  BY DEF compl_lift
<1>5. (\E b \in ToSet(B) : setp_implies(only, b)) <=> \E j \in DOMAIN B : Beside(a, B[j], v)
  BY <1>3 DEF ToSet
<1> HIDE DEF up, only
<1> QED BY <1>1, <1>4, <1>5 DEF EqualBeside

LEMMA BesideEqual ==
    /\ \A a, b, c, v : EqualBeside(a, b, v) => (Beside(a, c, v) <=> Beside(b, c, v))
    /\ \A a, b, c, v : EqualBeside(a, b, v) => (Beside(c, a, v) <=> Beside(c, b, v))
    /\ \A a, b, v : EqualBeside(a, b, v) => EqualBeside(b, a, v) /\ Beside(a, b, v) /\ Beside(b, a, v)
    /\ \A a, b, v : Beside(a, b, v) /\ Beside(b, a, v) => EqualBeside(a, b, v)
    /\ \A a, b, c, v : Beside(a, b, v) /\ Beside(b, c, v) => Beside(a, c, v)
<1>1. \A a, b, c, v : EqualBeside(a, b, v) => (Beside(a, c, v) <=> Beside(b, c, v))
  BY DEF Beside, EqualBeside
<1>2. \A a, b, c, v : EqualBeside(a, b, v) => (Beside(c, a, v) <=> Beside(c, b, v))
  BY DEF Beside, EqualBeside
<1>3. \A a, b, v : EqualBeside(a, b, v) => EqualBeside(b, a, v) /\ Beside(a, b, v) /\ Beside(b, a, v)
  BY DEF Beside, EqualBeside
<1>4. \A a, b, v : Beside(a, b, v) /\ Beside(b, a, v) => EqualBeside(a, b, v)
  BY DEF Beside, EqualBeside
<1>5. \A a, b, c, v : Beside(a, b, v) /\ Beside(b, c, v) => Beside(a, c, v)
  BY DEF Beside
<1> QED BY <1>1, <1>2, <1>3, <1>4, <1>5

(* The left cubes: raised when a right one contains them.                  *)
LEMMA LeftRight ==
    ASSUME NEW v \in Idx, NEW L, NEW R, OpenAt(L, v), OpenAt(R, v)
    PROVE  /\ LeftOf(L, R, v) \in Seq(Cube) /\ DOMAIN LeftOf(L, R, v) = DOMAIN L
           /\ Len(LeftOf(L, R, v)) = Len(L)
           /\ \A i \in DOMAIN L :
                 /\ EqualBeside(LeftOf(L, R, v)[i], L[i], v)
                 /\ LeftOf(L, R, v)[i][v]
                       = IF \E j \in DOMAIN R : Beside(L[i], R[j], v) THEN Parts ELSE {vff}
<1> DEFINE Lv == Cut(L, v, vff)
           Rv == Cut(R, v, vtt)
           up(i) == compl_lift(Lv[i], Rv, v, vtt)
<1>1. vff \in Parts /\ vtt \in Parts
  BY DEF Parts
<1>2. /\ Lv \in Seq(Cube) /\ DOMAIN Lv = DOMAIN L
      /\ \A i \in DOMAIN L : EqualBeside(Lv[i], L[i], v) /\ Lv[i][v] = {vff}
  BY <1>1, CutRight
<1>3. /\ Rv \in Seq(Cube) /\ DOMAIN Rv = DOMAIN R
      /\ \A j \in DOMAIN R : EqualBeside(Rv[j], R[j], v) /\ Rv[j][v] = {vtt}
  BY <1>1, CutRight
<1>4. Len(L) \in Nat /\ DOMAIN L = 1 .. Len(L)
  BY DEF OpenAt
<1>5. LeftOf(L, R, v) = [i \in DOMAIN L |-> up(i)]
  BY DEF LeftOf
<1> HIDE DEF Lv, Rv
<1>6. ASSUME NEW i \in DOMAIN L
      PROVE  /\ up(i) \in Cube /\ EqualBeside(up(i), L[i], v)
             /\ up(i)[v] = IF \E j \in DOMAIN R : Beside(L[i], R[j], v) THEN Parts ELSE {vff}
  <2>1. Lv[i] \in Cube /\ \A j \in DOMAIN Rv : vtt \in Rv[j][v]
    BY <1>2, <1>3, <1>6
  <2>2. /\ up(i) \in Cube /\ EqualBeside(up(i), Lv[i], v)
        /\ up(i)[v] = IF \E j \in DOMAIN Rv : Beside(Lv[i], Rv[j], v) THEN Parts ELSE Lv[i][v]
    BY <1>1, <1>3, <2>1, Lifted
  <2> HIDE DEF up
  <2>3. \A j \in DOMAIN R : Beside(Lv[i], Rv[j], v) <=> Beside(L[i], R[j], v)
    BY <1>2, <1>3, <1>6, BesideEqual
  <2>4. EqualBeside(up(i), L[i], v)
    BY <1>2, <1>6, <2>2 DEF EqualBeside
  <2>5. (\E j \in DOMAIN Rv : Beside(Lv[i], Rv[j], v)) <=> \E j \in DOMAIN R : Beside(L[i], R[j], v)
    BY <1>3, <2>3
  <2>6. Lv[i][v] = {vff}
    BY <1>2, <1>6
  <2> QED BY <2>2, <2>4, <2>5, <2>6
<1> HIDE DEF up
<1>7. LeftOf(L, R, v) \in Seq(Cube) /\ DOMAIN LeftOf(L, R, v) = DOMAIN L /\ Len(LeftOf(L, R, v)) = Len(L)
  BY <1>4, <1>5, <1>6
<1>8. \A i \in DOMAIN L : LeftOf(L, R, v)[i] = up(i)
  BY <1>5
<1> QED BY <1>6, <1>7, <1>8

(* The right cubes that stay: those that equal no left one.                *)
LEMMA ActiveRight ==
    ASSUME NEW v \in Idx, NEW L, NEW R, OpenAt(L, v), OpenAt(R, v)
    PROVE  /\ ActiveOf(L, R, v) \in Seq(Cube)
           /\ \A k \in DOMAIN ActiveOf(L, R, v) : \E j \in DOMAIN R :
                 /\ ActiveOf(L, R, v)[k] = Cut(R, v, vtt)[j]
                 /\ \A i \in DOMAIN L : ~ EqualBeside(L[i], R[j], v)
           /\ \A j \in DOMAIN R :
                 \/ \E i \in DOMAIN L : EqualBeside(L[i], R[j], v)
                 \/ \E k \in DOMAIN ActiveOf(L, R, v) : ActiveOf(L, R, v)[k] = Cut(R, v, vtt)[j]
           /\ Injective(Cut(R, v, vtt)) => Injective(ActiveOf(L, R, v))
<1> DEFINE Lv == Cut(L, v, vff)
           Rv == Cut(R, v, vtt)
           S == {r \in Cube : \A l \in ToSet(Lv) : [l EXCEPT ![v] = {vtt}] # r}
           A == Only(Rv, S)
<1>1. vff \in Parts /\ vtt \in Parts
  BY DEF Parts
<1>2. /\ Lv \in Seq(Cube) /\ DOMAIN Lv = DOMAIN L
      /\ \A i \in DOMAIN L : EqualBeside(Lv[i], L[i], v) /\ Lv[i][v] = {vff}
  BY <1>1, CutRight
<1>3. /\ Rv \in Seq(Cube) /\ DOMAIN Rv = DOMAIN R
      /\ \A j \in DOMAIN R : EqualBeside(Rv[j], R[j], v) /\ Rv[j][v] = {vtt}
  BY <1>1, CutRight
<1>4. ActiveOf(L, R, v) = A
  BY DEF ActiveOf, compl_d1merge
<1>5. \A r : r \in S <=> r \in Cube /\ \A i \in DOMAIN Lv : [Lv[i] EXCEPT ![v] = {vtt}] # r
  BY DEF ToSet
<1> HIDE DEF Lv, Rv, S
<1>6. A \in Seq(Cube) /\ ToSet(A) = ToSet(Rv) \cap S /\ (Injective(Rv) => Injective(A))
  BY <1>3, OnlyRight
<1> HIDE DEF A
<1>7. \A i \in DOMAIN L : Lv[i] \in Cube
  BY <1>2
<1>8. \A j \in DOMAIN R : Rv[j] \in Cube
  BY <1>3
<1>9. ASSUME NEW i \in DOMAIN L, NEW j \in DOMAIN R
      PROVE  [Lv[i] EXCEPT ![v] = {vtt}] = Rv[j] <=> EqualBeside(L[i], R[j], v)
  <2> DEFINE l == [Lv[i] EXCEPT ![v] = {vtt}]
  <2>1. l \in Cube /\ l[v] = {vtt} /\ \A w \in Idx \ {v} : l[w] = Lv[i][w]
    BY <1>1, <1>7 DEF Cube
  <2>2. Lv[i] \in Cube /\ EqualBeside(Lv[i], L[i], v) /\ EqualBeside(Rv[j], R[j], v) /\ Rv[j][v] = {vtt}
    BY <1>2, <1>3
  <2>3. Rv[j] \in Cube
    BY <1>8
  <2> HIDE DEF l
  <2>4. l = Rv[j] <=> \A w \in Idx : l[w] = Rv[j][w]
    BY <2>1, <2>3 DEF Cube
  <2>5. \A w \in Idx \ {v} : Lv[i][w] = L[i][w] /\ Rv[j][w] = R[j][w]
    BY <2>2 DEF EqualBeside
  <2>6. l = Rv[j] <=> EqualBeside(L[i], R[j], v)
    BY <2>1, <2>2, <2>4, <2>5 DEF EqualBeside
  <2> QED BY <2>6 DEF l
<1>10. \A j \in DOMAIN R : Rv[j] \in S <=> \A i \in DOMAIN L : ~ EqualBeside(L[i], R[j], v)
  <2> SUFFICES ASSUME NEW j \in DOMAIN R
               PROVE  Rv[j] \in S <=> \A i \in DOMAIN L : ~ EqualBeside(L[i], R[j], v)
    OBVIOUS
  <2>1. Rv[j] \in S <=> \A i \in DOMAIN L : [Lv[i] EXCEPT ![v] = {vtt}] # Rv[j]
    BY <1>2, <1>5, <1>8
  <2>2. \A i \in DOMAIN L : [Lv[i] EXCEPT ![v] = {vtt}] = Rv[j] <=> EqualBeside(L[i], R[j], v)
    BY <1>9
  <2> QED BY <2>1, <2>2
<1>11. ASSUME NEW k \in DOMAIN A
       PROVE  \E j \in DOMAIN R : A[k] = Rv[j] /\ \A i \in DOMAIN L : ~ EqualBeside(L[i], R[j], v)
  <2>1. A[k] \in ToSet(Rv) /\ A[k] \in S
    BY <1>6 DEF ToSet
  <2>2. PICK j \in DOMAIN Rv : A[k] = Rv[j]
    BY <2>1 DEF ToSet
  <2> QED BY <1>3, <1>10, <2>1, <2>2
<1>12. ASSUME NEW j \in DOMAIN R, \A i \in DOMAIN L : ~ EqualBeside(L[i], R[j], v)
       PROVE  \E k \in DOMAIN A : A[k] = Rv[j]
  <2>1. Rv[j] \in S /\ Rv[j] \in ToSet(Rv)
    BY <1>3, <1>10, <1>12 DEF ToSet
  <2>2. Rv[j] \in ToSet(A)
    BY <1>6, <2>1
  <2> QED BY <2>2 DEF ToSet
<1> QED BY <1>4, <1>6, <1>11, <1>12 DEF Rv

(* What the join is made of.                                               *)
LEMMA RightRight ==
    ASSUME NEW v \in Idx, NEW L, NEW R, OpenAt(L, v), OpenAt(R, v)
    PROVE  /\ RightOf(L, R, v) \in Seq(Cube)
           /\ \A k \in DOMAIN RightOf(L, R, v) : \E j \in DOMAIN R :
                 /\ EqualBeside(RightOf(L, R, v)[k], R[j], v)
                 /\ RightOf(L, R, v)[k][v]
                       = IF \E i \in DOMAIN L : Beside(R[j], L[i], v) THEN Parts ELSE {vtt}
                 /\ \A i \in DOMAIN L : ~ EqualBeside(L[i], R[j], v)
           /\ \A j \in DOMAIN R :
                 \/ \E i \in DOMAIN L : EqualBeside(L[i], R[j], v)
                 \/ \E k \in DOMAIN RightOf(L, R, v) :
                       EqualBeside(RightOf(L, R, v)[k], R[j], v) /\ vtt \in RightOf(L, R, v)[k][v]
           /\ Antichain(R) =>
                 \A k, m \in DOMAIN RightOf(L, R, v) :
                    k # m => ~ Beside(RightOf(L, R, v)[k], RightOf(L, R, v)[m], v)
<1> DEFINE left == LeftOf(L, R, v)
           act == ActiveOf(L, R, v)
           Rv == Cut(R, v, vtt)
           right == RightOf(L, R, v)
           up(k) == compl_lift(act[k], left, v, vff)
<1>1. vff \in Parts /\ vtt \in Parts
  BY DEF Parts
<1>2. /\ left \in Seq(Cube) /\ DOMAIN left = DOMAIN L
      /\ \A i \in DOMAIN L : EqualBeside(left[i], L[i], v) /\ vff \in left[i][v]
  <2>1. \A i \in DOMAIN L : left[i][v] = Parts \/ left[i][v] = {vff}
    BY LeftRight
  <2>2. \A i \in DOMAIN L : vff \in left[i][v]
    BY <1>1, <2>1
  <2> QED BY <2>2, LeftRight
<1>3. /\ Rv \in Seq(Cube) /\ DOMAIN Rv = DOMAIN R
      /\ \A j \in DOMAIN R : EqualBeside(Rv[j], R[j], v) /\ Rv[j][v] = {vtt}
  BY <1>1, CutRight
<1>4. /\ act \in Seq(Cube)
      /\ \A k \in DOMAIN act : \E j \in DOMAIN R :
            act[k] = Rv[j] /\ \A i \in DOMAIN L : ~ EqualBeside(L[i], R[j], v)
      /\ \A j \in DOMAIN R : \/ \E i \in DOMAIN L : EqualBeside(L[i], R[j], v)
                             \/ \E k \in DOMAIN act : act[k] = Rv[j]
      /\ Injective(Rv) => Injective(act)
  BY ActiveRight
<1>5. right = [k \in DOMAIN act |-> up(k)]
  BY DEF RightOf
<1>6. Len(act) \in Nat /\ DOMAIN act = 1 .. Len(act) /\ \A k \in DOMAIN act : act[k] \in Cube
  BY <1>4
<1> HIDE DEF left, act, Rv, right
<1>7. ASSUME NEW k \in DOMAIN act, NEW j \in DOMAIN R, act[k] = Rv[j]
      PROVE  /\ up(k) \in Cube /\ EqualBeside(up(k), R[j], v)
             /\ up(k)[v] = IF \E i \in DOMAIN L : Beside(R[j], L[i], v) THEN Parts ELSE {vtt}
  <2>1. act[k] \in Cube /\ \A i \in DOMAIN left : vff \in left[i][v]
    BY <1>2, <1>6, <1>7
  <2>2. /\ up(k) \in Cube /\ EqualBeside(up(k), act[k], v)
        /\ up(k)[v] = IF \E i \in DOMAIN left : Beside(act[k], left[i], v) THEN Parts ELSE act[k][v]
    BY <1>1, <1>2, <2>1, Lifted
  <2> HIDE DEF up
  <2>3. EqualBeside(act[k], R[j], v) /\ act[k][v] = {vtt}
    BY <1>3, <1>7
  <2>4. \A i \in DOMAIN L : Beside(act[k], left[i], v) <=> Beside(R[j], L[i], v)
    BY <1>2, <2>3, BesideEqual
  <2>5. EqualBeside(up(k), R[j], v)
    BY <2>2, <2>3 DEF EqualBeside
  <2>6. (\E i \in DOMAIN left : Beside(act[k], left[i], v)) <=> \E i \in DOMAIN L : Beside(R[j], L[i], v)
    BY <1>2, <2>4
  <2> QED BY <2>2, <2>3, <2>5, <2>6
<1>8. \A k \in DOMAIN act : up(k) \in Cube
  BY <1>4, <1>7
<1> HIDE DEF up
<1>9. right \in Seq(Cube) /\ DOMAIN right = DOMAIN act /\ \A k \in DOMAIN act : right[k] = up(k)
  BY <1>5, <1>6, <1>8
<1>10. ASSUME NEW k \in DOMAIN right
       PROVE  \E j \in DOMAIN R :
                 /\ EqualBeside(right[k], R[j], v)
                 /\ right[k][v] = IF \E i \in DOMAIN L : Beside(R[j], L[i], v) THEN Parts ELSE {vtt}
                 /\ \A i \in DOMAIN L : ~ EqualBeside(L[i], R[j], v)
  <2>1. PICK j \in DOMAIN R : act[k] = Rv[j] /\ \A i \in DOMAIN L : ~ EqualBeside(L[i], R[j], v)
    BY <1>4, <1>9
  <2>2. /\ EqualBeside(right[k], R[j], v)
        /\ right[k][v] = IF \E i \in DOMAIN L : Beside(R[j], L[i], v) THEN Parts ELSE {vtt}
    BY <1>7, <1>9, <2>1
  <2> QED BY <2>1, <2>2
<1>11. ASSUME NEW j \in DOMAIN R
       PROVE  \/ \E i \in DOMAIN L : EqualBeside(L[i], R[j], v)
              \/ \E k \in DOMAIN right : EqualBeside(right[k], R[j], v) /\ vtt \in right[k][v]
  <2> SUFFICES ASSUME NEW k \in DOMAIN act, act[k] = Rv[j]
               PROVE  EqualBeside(right[k], R[j], v) /\ vtt \in right[k][v]
    BY <1>4, <1>9
  <2>1. /\ EqualBeside(right[k], R[j], v)
        /\ right[k][v] = IF \E i \in DOMAIN L : Beside(R[j], L[i], v) THEN Parts ELSE {vtt}
    BY <1>7, <1>9
  <2> QED BY <1>1, <2>1
<1>12. ASSUME Antichain(R), NEW k \in DOMAIN right, NEW m \in DOMAIN right, k # m
       PROVE  ~ Beside(right[k], right[m], v)
  <2>1. \A i, j \in DOMAIN R : i # j => ~ Beside(R[i], R[j], v)
    <3> SUFFICES ASSUME NEW i \in DOMAIN R, NEW j \in DOMAIN R, i # j, Beside(R[i], R[j], v) PROVE FALSE
      OBVIOUS
    <3>1. R[i][v] = Parts /\ R[j][v] = Parts
      BY DEF OpenAt
    <3>2. setp_implies(R[i], R[j])
      BY <3>1 DEF Beside, setp_implies
    <3> QED BY <1>12, <3>2 DEF Antichain
  <2>2. Injective(Rv)
    <3> SUFFICES ASSUME NEW i \in DOMAIN R, NEW j \in DOMAIN R, Rv[i] = Rv[j] PROVE i = j
      BY <1>3 DEF Injective
    <3>1. EqualBeside(Rv[i], R[i], v) /\ EqualBeside(Rv[j], R[j], v)
      BY <1>3
    <3>2. Beside(R[i], R[j], v)
      BY <3>1 DEF EqualBeside, Beside
    <3> QED BY <2>1, <3>2
  <2>3. act[k] # act[m] /\ k \in DOMAIN act /\ m \in DOMAIN act
    BY <1>4, <1>9, <1>12, <2>2 DEF Injective
  <2>4. PICK i \in DOMAIN R, j \in DOMAIN R : act[k] = Rv[i] /\ act[m] = Rv[j]
    BY <1>4, <2>3
  <2>5. EqualBeside(right[k], R[i], v) /\ EqualBeside(right[m], R[j], v) /\ i # j
    BY <1>7, <1>9, <2>3, <2>4
  <2>6. ~ Beside(R[i], R[j], v)
    BY <2>1, <2>5
  <2> QED BY <2>5, <2>6, BesideEqual
<1>13. Antichain(R) => \A k, m \in DOMAIN right : k # m => ~ Beside(right[k], right[m], v)
  BY <1>12
<1> QED BY <1>9, <1>10, <1>11, <1>13 DEF right

(* The join of two covers of the halves is a cover of the whole.           *)
LEMMA MergeRight ==
    ASSUME NEW v \in Idx, NEW L, NEW R, OpenAt(L, v), OpenAt(R, v)
    PROVE  /\ compl_merge(L, R, v) \in Seq(Cube)
           /\ \A e \in Evaluation :
                 Covered(compl_merge(L, R, v), e) <=> IF e[v] = vff THEN Covered(L, e) ELSE Covered(R, e)
           /\ \A w \in Idx \ {v}, x \in Parts :
                 AllHave(L, w, x) /\ AllHave(R, w, x) => AllHave(compl_merge(L, R, v), w, x)
           /\ NoneEmpty(L) /\ NoneEmpty(R) => NoneEmpty(compl_merge(L, R, v))
           /\ Antichain(L) /\ Antichain(R) => Antichain(compl_merge(L, R, v))
<1> DEFINE left == LeftOf(L, R, v)
           right == RightOf(L, R, v)
           M == left \o right
           n == Len(L)
           inR(i) == \E j \in DOMAIN R : Beside(L[i], R[j], v)
           inL(j) == \E i \in DOMAIN L : Beside(R[j], L[i], v)
<1>1. vff \in Parts /\ vtt \in Parts /\ vff # vtt /\ Parts = {vff, vtt}
  BY IdxFacts
<1>2. compl_merge(L, R, v) = M
  BY DEF compl_merge, LeftOf, RightOf, ActiveOf, Cut
<1>3. /\ left \in Seq(Cube) /\ DOMAIN left = DOMAIN L /\ Len(left) = n
      /\ \A i \in DOMAIN L : EqualBeside(left[i], L[i], v) /\ left[i][v] = IF inR(i) THEN Parts ELSE {vff}
  BY LeftRight
<1>4. /\ right \in Seq(Cube)
      /\ \A k \in DOMAIN right : \E j \in DOMAIN R :
            /\ EqualBeside(right[k], R[j], v)
            /\ right[k][v] = IF inL(j) THEN Parts ELSE {vtt}
            /\ \A i \in DOMAIN L : ~ EqualBeside(L[i], R[j], v)
      /\ \A j \in DOMAIN R :
            \/ \E i \in DOMAIN L : EqualBeside(L[i], R[j], v)
            \/ \E k \in DOMAIN right : EqualBeside(right[k], R[j], v) /\ vtt \in right[k][v]
      /\ Antichain(R) => \A k, m \in DOMAIN right : k # m => ~ Beside(right[k], right[m], v)
  BY RightRight
<1>5. n \in Nat /\ DOMAIN L = 1 .. n
  BY DEF OpenAt
<1> HIDE DEF left, right
<1>6. /\ M \in Seq(Cube)
      /\ \A p \in DOMAIN M : \/ p \in DOMAIN L /\ M[p] = left[p]
                             \/ \E k \in DOMAIN right : p = n + k /\ M[p] = right[k]
      /\ \A i \in DOMAIN L : i \in DOMAIN M /\ M[i] = left[i]
      /\ \A k \in DOMAIN right : n + k \in DOMAIN M /\ M[n + k] = right[k]
  <2>1. /\ Len(right) \in Nat /\ DOMAIN right = 1 .. Len(right)
        /\ DOMAIN left = 1 .. n /\ Len(left) = n
    BY <1>3, <1>4, <1>5
  <2>2. M \in Seq(Cube) /\ Len(M) = n + Len(right) /\ DOMAIN M = 1 .. n + Len(right)
    <3>1. M \in Seq(Cube) /\ Len(M) = Len(left) + Len(right)
      <4>1. left \in Seq(Cube) /\ right \in Seq(Cube)
        BY <1>3, <1>4
      <4> QED BY <4>1
    <3> HIDE DEF M, n
    <3>2. DOMAIN M = 1 .. Len(M) /\ Len(left) = n
      BY <2>1, <3>1
    <3> QED BY <3>1, <3>2
  <2>3. \A p \in 1 .. n + Len(right) : M[p] = IF p <= n THEN left[p] ELSE right[p - n]
    BY <1>3, <1>4, <1>5, <2>1
  <2> HIDE DEF M, n
  <2>4. \A i \in 1 .. n : i \in 1 .. n + Len(right) /\ M[i] = left[i]
    BY <1>5, <2>1, <2>3
  <2>5. \A k \in 1 .. Len(right) : n + k \in 1 .. n + Len(right) /\ M[n + k] = right[k]
    BY <1>5, <2>1, <2>3
  <2>6. ASSUME NEW p \in 1 .. n + Len(right)
        PROVE  \/ p \in 1 .. n /\ M[p] = left[p]
               \/ \E k \in 1 .. Len(right) : p = n + k /\ M[p] = right[k]
    <3>1. CASE p <= n
      BY <1>5, <2>3, <3>1
    <3>2. CASE ~ (p <= n)
      <4>1. p - n \in 1 .. Len(right) /\ p = n + (p - n) /\ M[p] = right[p - n]
        BY <1>5, <2>1, <2>3, <3>2
      <4> QED BY <4>1
    <3> QED BY <3>1, <3>2
  <2> QED BY <1>5, <2>1, <2>2, <2>4, <2>5, <2>6
<1> HIDE DEF M, n
<1>7. /\ \A i \in DOMAIN L : L[i] \in Cube /\ L[i][v] = Parts
      /\ \A j \in DOMAIN R : R[j] \in Cube /\ R[j][v] = Parts
  BY DEF OpenAt
<1>8. ASSUME NEW e \in Evaluation
      PROVE  Covered(M, e) <=> IF e[v] = vff THEN Covered(L, e) ELSE Covered(R, e)
  <2>1. e[v] \in Parts
    BY DEF Evaluation, Parts
  <2> DEFINE Besides(c) == \A w \in Idx \ {v} : e[w] \in c[w]
  <2>2. \A c : Holds(c, e) <=> Besides(c) /\ e[v] \in c[v]
    BY DEF Holds
  <2>3. \A a, b : Besides(a) /\ Beside(a, b, v) => Besides(b)
    BY DEF Beside
  <2> HIDE DEF Besides
  <2>4. \A a, b : EqualBeside(a, b, v) => (Besides(a) <=> Besides(b))
    BY <2>3, BesideEqual
  <2>5. ASSUME NEW i \in DOMAIN L, Holds(left[i], e)
        PROVE  IF e[v] = vff THEN Covered(L, e) ELSE Covered(R, e)
    <3>1. Besides(L[i])
      BY <1>3, <2>2, <2>4, <2>5
    <3>2. Holds(L[i], e)
      BY <1>7, <2>1, <2>2, <3>1
    <3>3. ASSUME e[v] # vff
          PROVE  Covered(R, e)
      <4>1. inR(i)
        BY <1>3, <2>2, <2>5, <3>3
      <4>2. PICK j \in DOMAIN R : Beside(L[i], R[j], v)
        BY <4>1
      <4>3. Holds(R[j], e)
        BY <1>7, <2>1, <2>2, <2>3, <3>1, <4>2
      <4> QED BY <4>3 DEF Covered
    <3> QED BY <3>2, <3>3 DEF Covered
  <2>6. ASSUME NEW k \in DOMAIN right, Holds(right[k], e)
        PROVE  IF e[v] = vff THEN Covered(L, e) ELSE Covered(R, e)
    <3>1. PICK j \in DOMAIN R : EqualBeside(right[k], R[j], v)
                                /\ right[k][v] = IF inL(j) THEN Parts ELSE {vtt}
      BY <1>4
    <3>2. Besides(R[j])
      BY <2>2, <2>4, <2>6, <3>1
    <3>3. Holds(R[j], e)
      BY <1>7, <2>1, <2>2, <3>2
    <3>4. ASSUME e[v] = vff
          PROVE  Covered(L, e)
      <4>1. inL(j)
        BY <1>1, <2>2, <2>6, <3>1, <3>4
      <4>2. PICK i \in DOMAIN L : Beside(R[j], L[i], v)
        BY <4>1
      <4>3. Holds(L[i], e)
        BY <1>7, <2>1, <2>2, <2>3, <3>2, <4>2
      <4> QED BY <4>3 DEF Covered
    <3> QED BY <3>3, <3>4 DEF Covered
  <2>7. Covered(M, e) => IF e[v] = vff THEN Covered(L, e) ELSE Covered(R, e)
    BY <1>6, <2>5, <2>6 DEF Covered
  <2>8. ASSUME e[v] = vff, NEW i \in DOMAIN L, Holds(L[i], e)
        PROVE  Covered(M, e)
    <3>1. Besides(left[i]) /\ vff \in left[i][v]
      BY <1>1, <1>3, <2>2, <2>4, <2>8
    <3>2. Holds(left[i], e)
      BY <2>2, <2>8, <3>1
    <3> QED BY <1>6, <3>2 DEF Covered
  <2>9. ASSUME e[v] # vff, NEW j \in DOMAIN R, Holds(R[j], e)
        PROVE  Covered(M, e)
    <3>0. e[v] = vtt
      BY <1>1, <2>1, <2>9
    <3>1. CASE \E i \in DOMAIN L : EqualBeside(L[i], R[j], v)
      <4>1. PICK i \in DOMAIN L : EqualBeside(L[i], R[j], v)
        BY <3>1
      <4>2. inR(i)
        BY <4>1, BesideEqual
      <4>3. left[i][v] = Parts /\ EqualBeside(left[i], L[i], v)
        BY <1>3, <4>2
      <4>4. Besides(left[i])
        BY <2>2, <2>4, <2>9, <4>1, <4>3
      <4>5. Holds(left[i], e)
        BY <2>1, <2>2, <4>3, <4>4
      <4> QED BY <1>6, <4>5 DEF Covered
    <3>2. CASE \E k \in DOMAIN right : EqualBeside(right[k], R[j], v) /\ vtt \in right[k][v]
      <4>1. PICK k \in DOMAIN right : EqualBeside(right[k], R[j], v) /\ vtt \in right[k][v]
        BY <3>2
      <4>2. Holds(right[k], e)
        BY <2>2, <2>4, <2>9, <3>0, <4>1
      <4> QED BY <1>6, <4>2 DEF Covered
    <3> QED BY <1>4, <3>1, <3>2
  <2>10. e[v] = vff /\ Covered(L, e) => Covered(M, e)
    BY <2>8 DEF Covered
  <2>11. e[v] # vff /\ Covered(R, e) => Covered(M, e)
    BY <2>9 DEF Covered
  <2> QED BY <2>7, <2>10, <2>11
<1>9. ASSUME NEW w \in Idx \ {v}, NEW x \in Parts, AllHave(L, w, x), AllHave(R, w, x)
      PROVE  AllHave(M, w, x)
  <2>1. \A i \in DOMAIN L : x \in left[i][w]
    BY <1>3, <1>9 DEF AllHave, EqualBeside
  <2>2. \A k \in DOMAIN right : x \in right[k][w]
    BY <1>4, <1>9 DEF AllHave, EqualBeside
  <2> QED BY <1>6, <2>1, <2>2 DEF AllHave
<1>10. ASSUME NoneEmpty(L), NoneEmpty(R)
       PROVE  NoneEmpty(M)
  <2>1. \A i \in DOMAIN L : \A w \in Idx : left[i][w] # {}
    <3> SUFFICES ASSUME NEW i \in DOMAIN L, NEW w \in Idx PROVE left[i][w] # {}
      OBVIOUS
    <3>1. left[i][v] = Parts \/ left[i][v] = {vff}
      BY <1>3
    <3>2. w # v => left[i][w] = L[i][w]
      BY <1>3 DEF EqualBeside
    <3> QED BY <1>1, <1>10, <3>1, <3>2 DEF NoneEmpty
  <2>2. \A k \in DOMAIN right : \A w \in Idx : right[k][w] # {}
    <3> SUFFICES ASSUME NEW k \in DOMAIN right, NEW w \in Idx PROVE right[k][w] # {}
      OBVIOUS
    <3>0. PICK j \in DOMAIN R : EqualBeside(right[k], R[j], v)
                                /\ right[k][v] = IF inL(j) THEN Parts ELSE {vtt}
      BY <1>4
    <3>1. right[k][v] = Parts \/ right[k][v] = {vtt}
      BY <3>0
    <3>2. w # v => right[k][w] = R[j][w]
      BY <3>0 DEF EqualBeside
    <3> QED BY <1>1, <1>10, <3>1, <3>2 DEF NoneEmpty
  <2> QED BY <1>6, <2>1, <2>2 DEF NoneEmpty
<1>11. ASSUME Antichain(L), Antichain(R)
       PROVE  Antichain(M)
  <2>1. \A i, j \in DOMAIN L : i # j => ~ Beside(L[i], L[j], v)
    BY <1>7, <1>11 DEF Antichain, setp_implies, Beside
  <2>2. \A i, j \in DOMAIN R : i # j => ~ Beside(R[i], R[j], v)
    BY <1>7, <1>11 DEF Antichain, setp_implies, Beside
  <2>3. \A a, b : setp_implies(a, b) => Beside(a, b, v) /\ a[v] \subseteq b[v]
    BY DEF setp_implies, Beside
  <2>4. ASSUME NEW i \in DOMAIN L, NEW j \in DOMAIN L, i # j
        PROVE  ~ setp_implies(left[i], left[j])
    BY <1>3, <2>1, <2>3, <2>4, BesideEqual
  <2>5. ASSUME NEW k \in DOMAIN right, NEW m \in DOMAIN right, k # m
        PROVE  ~ setp_implies(right[k], right[m])
    BY <1>4, <1>11, <2>3, <2>5
  (* A left cube and a right one: were one within the other, the larger
     would have been raised, by a cube that is the smaller beside v.       *)
  <2>6. ASSUME NEW i \in DOMAIN L, NEW k \in DOMAIN right
        PROVE  ~ setp_implies(left[i], right[k]) /\ ~ setp_implies(right[k], left[i])
    <3>1. PICK j \in DOMAIN R : /\ EqualBeside(right[k], R[j], v)
                                /\ right[k][v] = IF inL(j) THEN Parts ELSE {vtt}
                                /\ \A h \in DOMAIN L : ~ EqualBeside(L[h], R[j], v)
      BY <1>4
    <3>2. EqualBeside(left[i], L[i], v) /\ left[i][v] = IF inR(i) THEN Parts ELSE {vff}
      BY <1>3
    <3>3. ASSUME setp_implies(left[i], right[k])
          PROVE  FALSE
      <4>1. vff \in left[i][v] /\ vff \in right[k][v] /\ Beside(L[i], R[j], v)
        BY <1>1, <2>3, <3>1, <3>2, <3>3, BesideEqual
      <4>2. PICK h \in DOMAIN L : Beside(R[j], L[h], v)
        BY <1>1, <3>1, <4>1
      <4>3. Beside(L[i], L[h], v)
        BY <4>1, <4>2, BesideEqual
      <4>4. h = i
        BY <2>1, <4>3
      <4>5. EqualBeside(L[i], R[j], v)
        BY <4>1, <4>2, <4>4, BesideEqual
      <4> QED BY <3>1, <4>5
    <3>4. ASSUME setp_implies(right[k], left[i])
          PROVE  FALSE
      <4>1. vtt \in right[k][v] /\ vtt \in left[i][v] /\ Beside(R[j], L[i], v)
        BY <1>1, <2>3, <3>1, <3>2, <3>4, BesideEqual
      <4>2. PICK h \in DOMAIN R : Beside(L[i], R[h], v)
        BY <1>1, <3>2, <4>1
      <4>3. Beside(R[j], R[h], v)
        BY <4>1, <4>2, BesideEqual
      <4>4. h = j
        BY <2>2, <4>3
      <4>5. EqualBeside(L[i], R[j], v)
        BY <4>1, <4>2, <4>4, BesideEqual
      <4> QED BY <3>1, <4>5
    <3> QED BY <3>3, <3>4
  <2>7. SUFFICES ASSUME NEW p \in DOMAIN M, NEW q \in DOMAIN M, p # q
                 PROVE  ~ setp_implies(M[p], M[q])
    BY DEF Antichain
  <2>8. CASE p \in DOMAIN L /\ M[p] = left[p]
    <3>1. CASE q \in DOMAIN L /\ M[q] = left[q]
      BY <2>4, <2>7, <2>8, <3>1
    <3>2. CASE \E k \in DOMAIN right : q = n + k /\ M[q] = right[k]
      BY <2>6, <2>8, <3>2
    <3> QED BY <1>6, <3>1, <3>2
  <2>9. CASE \E k \in DOMAIN right : p = n + k /\ M[p] = right[k]
    <3>1. CASE q \in DOMAIN L /\ M[q] = left[q]
      BY <2>6, <2>9, <3>1
    <3>2. CASE \E k \in DOMAIN right : q = n + k /\ M[q] = right[k]
      BY <2>5, <2>7, <2>9, <3>2
    <3> QED BY <1>6, <3>1, <3>2
  <2> QED BY <1>6, <2>8, <2>9
<1>12. Antichain(L) /\ Antichain(R) => Antichain(M)
  BY <1>11
<1>13. NoneEmpty(L) /\ NoneEmpty(R) => NoneEmpty(M)
  BY <1>10
<1> HIDE DEF inL, inR
<1> QED BY <1>2, <1>6, <1>8, <1>9, <1>12, <1>13

-------------------------------------------------------------------------------
(* Every answer of simplify                                                *)

(* A half of the list and the whole of it.                                 *)
LEMMA HalfFacts ==
    ASSUME NEW T \in List, NEW v \in Idx, T.cof[v] = {}, NEW x \in Parts
    PROVE  /\ \A i \in DOMAIN cubeunlist(scofactor(T, v, x)) :
                 /\ cubeunlist(scofactor(T, v, x))[i][v] = Parts
                 /\ \E j \in DOMAIN cubeunlist(T) :
                       /\ x \in cubeunlist(T)[j][v]
                       /\ EqualBeside(cubeunlist(scofactor(T, v, x))[i], cubeunlist(T)[j], v)
           /\ \A j \in DOMAIN cubeunlist(T) :
                 x \in cubeunlist(T)[j][v] =>
                    \E i \in DOMAIN cubeunlist(scofactor(T, v, x)) :
                       EqualBeside(cubeunlist(scofactor(T, v, x))[i], cubeunlist(T)[j], v)
           /\ Minterms(T) => Minterms(scofactor(T, v, x))
<1> DEFINE U == scofactor(T, v, x)
           F == cubeunlist(T)
           G == cubeunlist(U)
<1>1. /\ U \in List /\ U.cof = [T.cof EXCEPT ![v] = @ \cup (Parts \ {x})]
      /\ ToSet(U.cubes) = {c \in ToSet(T.cubes) : x \in c[v]}
      /\ Injective(T.cubes) => Injective(U.cubes)
  BY CofactorList
<1>2. /\ T.cof \in Cube
      /\ \A i \in DOMAIN T.cubes : T.cubes[i] \in Cube
      /\ DOMAIN F = DOMAIN T.cubes
      /\ \A i \in DOMAIN T.cubes : \A w \in Idx : F[i][w] = T.cubes[i][w] \cup T.cof[w]
  BY ListFields
<1> HIDE DEF U
<1>3. U.cof[v] = Parts \ {x} /\ \A w \in Idx \ {v} : U.cof[w] = T.cof[w]
  BY <1>1, <1>2 DEF Cube
<1>4. /\ DOMAIN G = DOMAIN U.cubes
      /\ \A i \in DOMAIN U.cubes : \A w \in Idx : G[i][w] = U.cubes[i][w] \cup U.cof[w]
      /\ \A i \in DOMAIN U.cubes : U.cubes[i] \in Cube
  BY <1>1, ListFields
<1> HIDE DEF F, G
<1>5. \A i \in DOMAIN U.cubes : \E j \in DOMAIN T.cubes : U.cubes[i] = T.cubes[j] /\ x \in T.cubes[j][v]
  <2> SUFFICES ASSUME NEW i \in DOMAIN U.cubes
               PROVE  \E j \in DOMAIN T.cubes : U.cubes[i] = T.cubes[j] /\ x \in T.cubes[j][v]
    OBVIOUS
  <2>1. U.cubes[i] \in ToSet(T.cubes) /\ x \in U.cubes[i][v]
    BY <1>1 DEF ToSet
  <2> QED BY <2>1 DEF ToSet
<1>6. \A j \in DOMAIN T.cubes : x \in T.cubes[j][v] => \E i \in DOMAIN U.cubes : U.cubes[i] = T.cubes[j]
  <2> SUFFICES ASSUME NEW j \in DOMAIN T.cubes, x \in T.cubes[j][v]
               PROVE  \E i \in DOMAIN U.cubes : U.cubes[i] = T.cubes[j]
    OBVIOUS
  <2>1. T.cubes[j] \in ToSet(U.cubes)
    BY <1>1 DEF ToSet
  <2> QED BY <2>1 DEF ToSet
<1>7. ASSUME NEW i \in DOMAIN G
      PROVE  /\ G[i][v] = Parts
             /\ \E j \in DOMAIN F : x \in F[j][v] /\ EqualBeside(G[i], F[j], v)
  <2>1. PICK j \in DOMAIN T.cubes : U.cubes[i] = T.cubes[j] /\ x \in T.cubes[j][v]
    BY <1>4, <1>5
  <2>2. G[i][v] = T.cubes[j][v] \cup (Parts \ {x}) /\ T.cubes[j][v] \subseteq Parts
    BY <1>2, <1>3, <1>4, <2>1 DEF Cube
  <2>3. G[i][v] = Parts
    BY <2>1, <2>2
  <2>4. EqualBeside(G[i], F[j], v)
    <3> SUFFICES ASSUME NEW w \in Idx \ {v} PROVE G[i][w] = F[j][w]
      BY DEF EqualBeside
    <3>1. i \in DOMAIN U.cubes
      BY <1>4, <1>7
    <3>2. G[i][w] = U.cubes[i][w] \cup U.cof[w]
      BY <1>4, <3>1
    <3>3. F[j][w] = T.cubes[j][w] \cup T.cof[w]
      BY <1>2
    <3>4. U.cof[w] = T.cof[w]
      BY <1>3
    <3> QED BY <2>1, <3>2, <3>3, <3>4
  <2> QED BY <1>2, <2>1, <2>3, <2>4
<1>8. ASSUME NEW j \in DOMAIN F, x \in F[j][v]
      PROVE  \E i \in DOMAIN G : EqualBeside(G[i], F[j], v)
  <2>1. x \in T.cubes[j][v]
    BY <1>2, <1>8
  <2>2. PICK i \in DOMAIN U.cubes : U.cubes[i] = T.cubes[j]
    BY <1>2, <1>6, <1>8, <2>1
  <2>3. EqualBeside(G[i], F[j], v)
    <3> SUFFICES ASSUME NEW w \in Idx \ {v} PROVE G[i][w] = F[j][w]
      BY DEF EqualBeside
    <3>1. j \in DOMAIN T.cubes
      BY <1>2, <1>8
    <3>2. G[i][w] = U.cubes[i][w] \cup U.cof[w]
      BY <1>4
    <3>3. F[j][w] = T.cubes[j][w] \cup T.cof[w]
      BY <1>2, <3>1
    <3>4. U.cof[w] = T.cof[w]
      BY <1>3
    <3> QED BY <2>2, <3>2, <3>3, <3>4
  <2> QED BY <1>4, <2>3
<1>9. ASSUME Minterms(T)
      PROVE  Minterms(U)
  <2>1. Injective(U.cubes)
    BY <1>1, <1>9 DEF Minterms
  <2>2. \A i \in DOMAIN U.cubes : \A w \in Idx : \E y \in Parts : U.cubes[i][w] = {y}
    BY <1>5, <1>9 DEF Minterms
  <2>3. \A i \in DOMAIN U.cubes : U.cubes[i][v] = {x}
    BY <1>5, <1>9 DEF Minterms
  <2>4. ASSUME NEW w \in Idx \ {v}
        PROVE  \/ U.cof[w] = {}
               \/ \E y \in Parts : U.cof[w] = Parts \ {y} /\ \A i \in DOMAIN U.cubes : U.cubes[i][w] = {y}
    <3>1. U.cof[w] = T.cof[w]
      BY <1>3
    <3>2. CASE T.cof[w] = {}
      BY <3>1, <3>2
    <3>3. CASE T.cof[w] # {}
      <4>1. PICK y \in Parts : T.cof[w] = Parts \ {y} /\ \A i \in DOMAIN T.cubes : T.cubes[i][w] = {y}
        BY <1>9, <3>3 DEF Minterms
      <4>2. \A i \in DOMAIN U.cubes : U.cubes[i][w] = {y}
        BY <1>5, <4>1
      <4> QED BY <3>1, <4>1, <4>2
    <3> QED BY <3>2, <3>3
  <2>5. \A w \in Idx :
           \/ U.cof[w] = {}
           \/ \E y \in Parts : U.cof[w] = Parts \ {y} /\ \A i \in DOMAIN U.cubes : U.cubes[i][w] = {y}
    BY <1>3, <2>3, <2>4
  <2> QED BY <2>1, <2>2, <2>5 DEF Minterms
<1> QED BY <1>7, <1>8, <1>9 DEF U, F, G

(* What an answer for a half leaves open and covers.                       *)
LEMMA HalfAnswer ==
    ASSUME NEW T \in List, NEW v \in Idx, T.cof[v] = {}, NEW x \in Parts,
           NEW A, Answers(A, scofactor(T, v, x))
    PROVE  /\ OpenAt(A, v)
           /\ \A e \in Evaluation : e[v] = x => (Covered(A, e) <=> Covered(cubeunlist(T), e))
           /\ \A w \in Idx \ {v}, y \in Parts : AllHave(cubeunlist(T), w, y) => AllHave(A, w, y)
           /\ NoneEmpty(cubeunlist(T)) => NoneEmpty(A)
           /\ Minterms(T) => Antichain(A)
<1> DEFINE F == cubeunlist(T)
           G == cubeunlist(scofactor(T, v, x))
<1>1. /\ \A i \in DOMAIN G : G[i][v] = Parts
      /\ \A i \in DOMAIN G : \E j \in DOMAIN F : x \in F[j][v] /\ EqualBeside(G[i], F[j], v)
      /\ \A j \in DOMAIN F : x \in F[j][v] => \E i \in DOMAIN G : EqualBeside(G[i], F[j], v)
      /\ Minterms(T) => Minterms(scofactor(T, v, x))
  BY HalfFacts
<1>2. /\ A \in Seq(Cube) /\ SameCover(A, G)
      /\ Minterms(scofactor(T, v, x)) => Antichain(A)
  BY DEF Answers
<1> HIDE DEF F, G
<1>3. OpenAt(A, v)
  <2>1. \A i \in DOMAIN A : A[i] \in Cube
    BY <1>2
  <2>2. \A y \in Parts : AllHave(A, v, y)
    BY <1>1, <1>2 DEF SameCover, AllHave
  <2>3. \A i \in DOMAIN A : A[i][v] \subseteq Parts
    BY <2>1 DEF Cube
  <2>4. \A i \in DOMAIN A : A[i][v] = Parts
    BY <2>2, <2>3 DEF AllHave
  <2> QED BY <1>2, <2>4 DEF OpenAt
<1>4. ASSUME NEW e \in Evaluation, e[v] = x
      PROVE  Covered(A, e) <=> Covered(F, e)
  <2>1. ASSUME NEW a, NEW b, EqualBeside(a, b, v), x \in a[v], x \in b[v]
        PROVE  Holds(a, e) <=> Holds(b, e)
    BY <1>4, <2>1 DEF EqualBeside, Holds
  <2>2. Covered(G, e) <=> Covered(F, e)
    <3>1. ASSUME NEW i \in DOMAIN G, Holds(G[i], e)
          PROVE  Covered(F, e)
      <4>1. PICK j \in DOMAIN F : x \in F[j][v] /\ EqualBeside(G[i], F[j], v)
        BY <1>1
      <4>2. Holds(F[j], e)
        BY <1>1, <2>1, <3>1, <4>1
      <4> QED BY <4>2 DEF Covered
    <3>2. ASSUME NEW j \in DOMAIN F, Holds(F[j], e)
          PROVE  Covered(G, e)
      <4>1. x \in F[j][v]
        BY <1>4, <3>2 DEF Holds
      <4>2. PICK i \in DOMAIN G : EqualBeside(G[i], F[j], v)
        BY <1>1, <4>1
      <4>3. Holds(G[i], e)
        BY <1>1, <2>1, <3>2, <4>1, <4>2
      <4> QED BY <4>3 DEF Covered
    <3> QED BY <3>1, <3>2 DEF Covered
  <2> QED BY <1>2, <2>2 DEF SameCover
<1>5. ASSUME NEW w \in Idx \ {v}, NEW y \in Parts, AllHave(F, w, y)
      PROVE  AllHave(A, w, y)
  <2>1. AllHave(G, w, y)
    BY <1>1, <1>5 DEF AllHave, EqualBeside
  <2> QED BY <1>2, <2>1 DEF SameCover
<1>6. ASSUME NoneEmpty(F)
      PROVE  NoneEmpty(A)
  <2>1. NoneEmpty(G)
    <3> SUFFICES ASSUME NEW i \in DOMAIN G, NEW w \in Idx PROVE G[i][w] # {}
      BY DEF NoneEmpty
    <3>1. PICK j \in DOMAIN F : EqualBeside(G[i], F[j], v)
      BY <1>1
    <3>2. w # v => G[i][w] = F[j][w]
      BY <3>1 DEF EqualBeside
    <3>3. Parts # {}
      BY DEF Parts
    <3> QED BY <1>1, <1>6, <3>2, <3>3 DEF NoneEmpty
  <2> QED BY <1>2, <2>1 DEF SameCover
<1> QED BY <1>1, <1>2, <1>3, <1>4, <1>5, <1>6 DEF F

LEMMA SplitAnswers ==
    ASSUME NEW T \in List, Splits(T),
           NEW L, Answers(L, scofactor(T, best(T), vff)),
           NEW R, Answers(R, scofactor(T, best(T), vtt)),
           Len(compl_merge(L, R, best(T))) <= Len(T.cubes)
    PROVE  Answers(compl_merge(L, R, best(T)), T)
<1> DEFINE v == best(T)
           M == compl_merge(L, R, v)
           F == cubeunlist(T)
<1>1. v \in Idx /\ T.cof[v] = {} /\ ZeroIn(T, v, vff) /\ ZeroIn(T, v, vtt)
  BY SplitVariable
<1>2. vff \in Parts /\ vtt \in Parts /\ Parts = {vff, vtt}
  BY DEF Parts
<1>3. /\ OpenAt(L, v)
      /\ \A e \in Evaluation : e[v] = vff => (Covered(L, e) <=> Covered(F, e))
      /\ \A w \in Idx \ {v}, y \in Parts : AllHave(F, w, y) => AllHave(L, w, y)
      /\ NoneEmpty(F) => NoneEmpty(L)
      /\ Minterms(T) => Antichain(L)
  <2> HIDE DEF v
  <2> QED BY <1>1, <1>2, HalfAnswer DEF v
<1>4. /\ OpenAt(R, v)
      /\ \A e \in Evaluation : e[v] = vtt => (Covered(R, e) <=> Covered(F, e))
      /\ \A w \in Idx \ {v}, y \in Parts : AllHave(F, w, y) => AllHave(R, w, y)
      /\ NoneEmpty(F) => NoneEmpty(R)
      /\ Minterms(T) => Antichain(R)
  <2> HIDE DEF v
  <2> QED BY <1>1, <1>2, HalfAnswer DEF v
<1>5. Len(M) <= Len(T.cubes)
  OBVIOUS
<1>6. \A x \in Parts : ~ AllHave(F, v, x)
  <2> SUFFICES ASSUME NEW x \in Parts PROVE \E i \in DOMAIN F : x \notin F[i][v]
    BY DEF AllHave
  <2>1. PICK i \in DOMAIN T.cubes : x \notin T.cubes[i][v] \cup T.cof[v]
    BY <1>1, <1>2 DEF ZeroIn
  <2> QED BY <1>1, <2>1, ListFields
<1> HIDE DEF v, F
<1>7. /\ M \in Seq(Cube)
      /\ \A e \in Evaluation : Covered(M, e) <=> IF e[v] = vff THEN Covered(L, e) ELSE Covered(R, e)
      /\ \A w \in Idx \ {v}, x \in Parts : AllHave(L, w, x) /\ AllHave(R, w, x) => AllHave(M, w, x)
      /\ NoneEmpty(L) /\ NoneEmpty(R) => NoneEmpty(M)
      /\ Antichain(L) /\ Antichain(R) => Antichain(M)
  BY <1>1, <1>3, <1>4, MergeRight
<1> HIDE DEF M
<1>8. \A e \in Evaluation : Covered(M, e) <=> Covered(F, e)
  <2> SUFFICES ASSUME NEW e \in Evaluation PROVE Covered(M, e) <=> Covered(F, e)
    OBVIOUS
  <2>1. e[v] = vff \/ e[v] = vtt
    BY <1>1 DEF Evaluation
  <2>2. vff # vtt
    BY IdxFacts
  <2> QED BY <1>3, <1>4, <1>7, <2>1, <2>2
<1>9. \A w \in Idx, x \in Parts : AllHave(F, w, x) => AllHave(M, w, x)
  BY <1>3, <1>4, <1>6, <1>7
<1>10. NoneEmpty(F) => NoneEmpty(M)
  BY <1>3, <1>4, <1>7
<1>11. Minterms(T) => Antichain(M)
  BY <1>3, <1>4, <1>7
<1>12. SameCover(M, F)
  BY <1>8, <1>9, <1>10 DEF SameCover
<1>13. Answers(M, T)
  BY <1>5, <1>7, <1>11, <1>12 DEF Answers, F
<1> QED BY <1>13 DEF M, v

LEMMA SimplifyStep ==
    ASSUME NEW T \in List, \A U \in List : Size(U) < Size(T) => Answers(simplify[U], U)
    PROVE  Answers(simplify[T], T)
<1>1. simplify[T] = Body(simplify, T)
  BY SimplifyEquation
<1>2. Len(T.cubes) \in Nat
  BY ListFields
<1>3. CASE Len(T.cubes) <= 1
  <2>1. simplify[T] = cubeunlist(T)
    BY <1>1, <1>3 DEF Body
  <2> QED BY <2>1, UnlistAnswers
<1>4. CASE ~ (Len(T.cubes) <= 1)
  <2>0. Len(T.cubes) > 1
    BY <1>2, <1>4
  <2>1. CASE fullset \in ToSet(cubeunlist(T))
    <3>1. simplify[T] = <<fullset>>
      BY <1>1, <1>4, <2>1 DEF Body
    <3> QED BY <2>0, <2>1, <3>1, FullRow, FullsetAnswers
  <2>2. CASE fullset \notin ToSet(cubeunlist(T)) /\ ceil(T) # fullset
    <3> DEFINE A == simplify[factored(T)]
    <3>1. simplify[T] = [i \in DOMAIN A |-> set_and(A[i], ceil(T))]
      BY <1>1, <1>4, <2>2 DEF Body
    <3>2. Answers(A, factored(T))
      BY <2>2, FactoredList
    <3> HIDE DEF A
    <3> QED BY <2>0, <3>1, <3>2, FactoredAnswers
  <2>3. CASE fullset \notin ToSet(cubeunlist(T)) /\ ceil(T) = fullset /\ Cardinality(active(T)) = 1
    <3>1. simplify[T] = <<fullset>>
      BY <1>1, <1>4, <2>3 DEF Body
    <3> QED BY <2>0, <2>3, <3>1, OneActive, FullsetAnswers
  <2>4. CASE /\ fullset \notin ToSet(cubeunlist(T)) /\ ceil(T) = fullset
             /\ Cardinality(active(T)) # 1 /\ \A v \in active(T) : parts_active(T, v) = 1
    <3>1. simplify[T] = sf_contain(cubeunlist(T))
      BY <1>1, <1>4, <2>4 DEF Body
    <3> QED BY <3>1, UnateAnswers
  <2>5. CASE fullset \notin ToSet(cubeunlist(T)) /\ ceil(T) = fullset /\ Splits(T)
    <3> DEFINE L == simplify[scofactor(T, best(T), vff)]
               R == simplify[scofactor(T, best(T), vtt)]
               M == compl_merge(L, R, best(T))
    <3>1. simplify[T] = IF Len(M) > Len(T.cubes) THEN cubeunlist(T) ELSE M
      BY <1>1, <1>4, <2>5 DEF Body, Splits
    <3>2. vff \in Parts /\ vtt \in Parts
      BY DEF Parts
    <3>3. Answers(L, scofactor(T, best(T), vff)) /\ Answers(R, scofactor(T, best(T), vtt))
      BY <2>5, <3>2, HalfSmaller
    <3>4. Len(M) \in Nat
      <4>1. best(T) \in Idx /\ T.cof[best(T)] = {}
        BY <2>5, SplitVariable
      <4> HIDE DEF L, R
      <4>2. OpenAt(L, best(T)) /\ OpenAt(R, best(T))
        BY <3>2, <3>3, <4>1, HalfAnswer
      <4>3. M \in Seq(Cube)
        BY <4>1, <4>2, MergeRight
      <4> HIDE DEF M
      <4> QED BY <4>3
    <3> HIDE DEF L, R
    <3>5. Len(M) <= Len(T.cubes) => Answers(M, T)
      BY <2>5, <3>3, SplitAnswers
    <3> HIDE DEF M
    <3> QED BY <1>2, <3>1, <3>4, <3>5, UnlistAnswers
  <2> QED BY <2>1, <2>2, <2>3, <2>4, <2>5 DEF Splits
<1> QED BY <1>3, <1>4

(* The whole of simplify: whatever the list, the answer covers what the    *)
(* list covers and is no longer, and of different evaluations it makes     *)
(* cubes none of which is within another.                                  *)
THEOREM SimplifyAnswers == \A T \in List : Answers(simplify[T], T)
<1> DEFINE M == {n \in Nat : \A T \in List : Size(T) < n => Answers(simplify[T], T)}
<1>1. \A T \in List : Size(T) \in Nat
  BY SizeBounded
<1>2. 0 \in M
  BY <1>1
<1>3. ASSUME NEW n \in Nat, n \in M
      PROVE  n + 1 \in M
  <2> SUFFICES ASSUME NEW T \in List, Size(T) < n + 1 PROVE Answers(simplify[T], T)
    OBVIOUS
  <2>1. \A U \in List : Size(U) < Size(T) => Answers(simplify[U], U)
    BY <1>1, <1>3
  <2> QED BY <2>1, SimplifyStep
<1> HIDE DEF M
<1>4. Nat \subseteq M
  BY <1>2, <1>3, Induction
<1> SUFFICES ASSUME NEW T \in List PROVE Answers(simplify[T], T)
  OBVIOUS
<1>5. Size(T) + 1 \in M /\ Size(T) < Size(T) + 1
  BY <1>1, <1>4
<1> QED BY <1>5 DEF M

-------------------------------------------------------------------------------
(* The table of accepted evaluations                                       *)

LEMMA EvaluationsFinite == IsFiniteSet(Evaluation)
<1> DEFINE f == [e \in Evaluation |-> {v \in Idx : e[v] = vtt}]
<1>1. f \in [Evaluation -> SUBSET Idx]
  OBVIOUS
<1>2. ASSUME NEW a \in Evaluation, NEW b \in Evaluation, f[a] = f[b]
      PROVE  a = b
  <2>1. \A v \in Idx : a[v] = vtt <=> b[v] = vtt
    BY <1>2
  <2>2. \A v \in Idx : a[v] \in {vff, vtt} /\ b[v] \in {vff, vtt}
    BY DEF Evaluation
  <2>3. \A v \in Idx : a[v] = b[v]
    BY <2>1, <2>2
  <2> QED BY <2>3 DEF Evaluation
<1>3. f \in Injection(Evaluation, SUBSET Idx)
  <2> HIDE DEF f
  <2> QED BY <1>1, <1>2 DEF Injection, IsInjective
<1>4. IsFiniteSet(SUBSET Idx)
  BY IdxFacts, FS_SUBSET
<1> HIDE DEF f
<1> QED BY <1>3, <1>4, FS_Injection

(* Two evaluations differ at a first formula, and that one decides.        *)
LEMMA ReachedOrder ==
    ASSUME NEW S \in SUBSET Evaluation
    PROVE  StrictOrder(S, {p \in S \X S : Reached(p[1], p[2])})
<1> DEFINE R == {p \in S \X S : Reached(p[1], p[2])}
<1>1. \A a, b \in S : <<a, b>> \in R <=> Reached(a, b)
  OBVIOUS
<1>2. vff # vtt /\ Idx \subseteq Nat
  BY IdxFacts
<1>3. ASSUME NEW a \in S
      PROVE  <<a, a>> \notin R
  <2>1. ~ Reached(a, a)
    BY <1>2 DEF Reached
  <2> QED BY <1>1, <2>1
<1>4. ASSUME NEW a \in S, NEW b \in S, NEW c \in S, <<a, b>> \in R, <<b, c>> \in R
      PROVE  <<a, c>> \in R
  <2>1. PICK i \in Idx : a[i] = vtt /\ b[i] = vff /\ \A k \in 0 .. i - 1 : a[k] = b[k]
    BY <1>1, <1>4 DEF Reached
  <2>2. PICK j \in Idx : b[j] = vtt /\ c[j] = vff /\ \A k \in 0 .. j - 1 : b[k] = c[k]
    BY <1>1, <1>4 DEF Reached
  <2>3. i \in Nat /\ j \in Nat /\ i # j
    BY <1>2, <2>1, <2>2
  <2>4. CASE i < j
    <3>1. i \in 0 .. j - 1 /\ 0 .. i - 1 \subseteq 0 .. j - 1
      BY <2>3, <2>4
    <3>2. a[i] = vtt /\ c[i] = vff /\ \A k \in 0 .. i - 1 : a[k] = c[k]
      BY <2>1, <2>2, <3>1
    <3> QED BY <1>1, <3>2 DEF Reached
  <2>5. CASE j < i
    <3>1. j \in 0 .. i - 1 /\ 0 .. j - 1 \subseteq 0 .. i - 1
      BY <2>3, <2>5
    <3>2. a[j] = vtt /\ c[j] = vff /\ \A k \in 0 .. j - 1 : a[k] = c[k]
      BY <2>1, <2>2, <3>1
    <3> QED BY <1>1, <3>2 DEF Reached
  <2> QED BY <2>3, <2>4, <2>5
<1>5. ASSUME NEW a \in S, NEW b \in S, a # b
      PROVE  <<a, b>> \in R \/ <<b, a>> \in R
  <2> DEFINE D == {i \in Idx : a[i] # b[i]}
  <2>1. a \in Evaluation /\ b \in Evaluation
    OBVIOUS
  <2>2. D \in SUBSET Nat /\ D # {}
    <3>1. \E i \in Idx : a[i] # b[i]
      BY <1>5, <2>1 DEF Evaluation
    <3> QED BY <1>2, <3>1
  <2> HIDE DEF D
  <2>3. PICK i \in D : \A j \in D : i <= j
    BY <2>2, LeastNat
  <2> USE DEF D
  <2>4. i \in Idx /\ i \in Nat /\ a[i] # b[i]
    BY <2>2
  <2>5. \A k \in 0 .. i - 1 : a[k] = b[k]
    <3> SUFFICES ASSUME NEW k \in 0 .. i - 1, a[k] # b[k] PROVE FALSE
      OBVIOUS
    <3>1. k \in Idx /\ k < i
      BY <2>4, VocabSizeAssumption DEF Idx
    <3>2. k \in D /\ k \in Nat
      BY <1>2, <3>1
    <3> HIDE DEF D
    <3> QED BY <2>3, <2>4, <3>1, <3>2
  <2>6. a[i] \in {vff, vtt} /\ b[i] \in {vff, vtt}
    BY <2>1, <2>4 DEF Evaluation
  <2>7. Reached(a, b) \/ Reached(b, a)
    BY <2>4, <2>5, <2>6 DEF Reached
  <2> QED BY <1>1, <2>7
<1> HIDE DEF R
<1>6. StrictOrder(S, R)
  BY <1>3, <1>4, <1>5 DEF StrictOrder
<1> QED BY <1>6 DEF R

LEMMA TableArranged ==
    ASSUME NEW S \in SUBSET Evaluation
    PROVE  /\ Arranged(S, Reached) \in Seq(Evaluation)
           /\ Injective(Arranged(S, Reached))
           /\ ToSet(Arranged(S, Reached)) = S
<1> DEFINE R == {p \in S \X S : Reached(p[1], p[2])}
           A == Arranged(S, Reached)
<1>1. A = Ranked(S, R)
  <2>1. \A a \in S : Below(S, R, a) = {b \in S : Reached(b, a)}
    BY DEF Below
  <2>2. A = [k \in 1 .. Cardinality(S) |->
                CHOOSE a \in S : Cardinality({b \in S : Reached(b, a)}) = k - 1]
    BY DEF Arranged
  <2> DEFINE old(k) == CHOOSE a \in S : Cardinality({b \in S : Reached(b, a)}) = k - 1
             new(k) == CHOOSE a \in S : Cardinality(Below(S, R, a)) = k - 1
  <2>3. Ranked(S, R) = [k \in 1 .. Cardinality(S) |-> new(k)]
    BY DEF Ranked
  <2>4. A = [k \in 1 .. Cardinality(S) |-> old(k)]
    BY <2>2
  <2> HIDE DEF R, A
  <2>5. \A k : old(k) = new(k)
    BY <2>1
  <2> HIDE DEF old, new
  <2> QED BY <2>3, <2>4, <2>5
<1>2. IsFiniteSet(S)
  BY EvaluationsFinite, FS_Subset
<1>3. StrictOrder(S, R)
  BY ReachedOrder
<1> HIDE DEF R, A
<1>4. IsArrangement(A, S)
  BY <1>1, <1>2, <1>3, Arrangement
<1>5. A \in Seq(Evaluation)
  <2>1. A \in Seq(S)
    BY <1>4 DEF IsArrangement
  <2> QED BY <2>1
<1> QED BY <1>4, <1>5 DEF IsArrangement, A

(* The list that simplify is called with.                                  *)
TableList(s) == cube1list(parse_pla(s))

LEMMA RowCube ==
    ASSUME NEW e \in Evaluation
    PROVE  /\ read_cube(e) \in Cube
           /\ \A v \in Idx : read_cube(e)[v] = {e[v]} /\ e[v] \in Parts
<1>1. \A v \in Idx : e[v] \in {vff, vtt}
  BY DEF Evaluation
<1>2. vuu # vff /\ vuu # vtt
  BY DEF vuu, vff, vtt
<1>3. \A v \in Idx : read_cube(e)[v] = {e[v]} /\ e[v] \in Parts
  BY <1>1, <1>2 DEF read_cube, Parts
<1>4. read_cube(e) = [v \in Idx |-> read_cube(e)[v]]
  BY DEF read_cube
<1> QED BY <1>3, <1>4 DEF Cube

LEMMA TableListRight ==
    ASSUME NEW s \in Seq(Evaluation), Injective(s)
    PROVE  /\ TableList(s) \in List /\ Minterms(TableList(s))
           /\ Len(TableList(s).cubes) = Len(s)
           /\ NoneEmpty(cubeunlist(TableList(s)))
           /\ \A e \in Evaluation : Covered(cubeunlist(TableList(s)), e) <=> e \in ToSet(s)
<1> DEFINE T == TableList(s)
           F == cubeunlist(T)
<1>1. DOMAIN s = 1 .. Len(s) /\ Len(s) \in Nat /\ \A i \in DOMAIN s : s[i] \in Evaluation
  OBVIOUS
<1>2. T.cof = [v \in Idx |-> {}] /\ T.cubes = [i \in 1 .. Len(s) |-> read_cube(s[i])]
  BY <1>1 DEF TableList, cube1list, parse_pla
<1>3. \A i \in 1 .. Len(s) : read_cube(s[i]) \in Cube
  BY <1>1, RowCube
<1>4. T.cubes \in Seq(Cube) /\ Len(T.cubes) = Len(s) /\ DOMAIN T.cubes = DOMAIN s
  <2> HIDE DEF T
  <2> QED BY <1>1, <1>2, <1>3
<1>5. T \in List
  <2>1. T = [cof |-> T.cof, cubes |-> T.cubes]
    BY DEF TableList, cube1list
  <2>2. T.cof \in Cube
    BY <1>2 DEF Cube
  <2> HIDE DEF T
  <2> QED BY <1>4, <2>1, <2>2 DEF List
<1> HIDE DEF T
<1>6. \A i \in DOMAIN s, v \in Idx : T.cubes[i][v] = {s[i][v]} /\ s[i][v] \in Parts
  BY <1>1, <1>2, RowCube
<1>7. DOMAIN F = DOMAIN s /\ \A i \in DOMAIN s, v \in Idx : F[i][v] = {s[i][v]}
  <2>1. /\ DOMAIN F = DOMAIN T.cubes
        /\ \A i \in DOMAIN T.cubes : \A v \in Idx : F[i][v] = T.cubes[i][v] \cup T.cof[v]
    BY <1>5, ListFields
  <2>2. \A v \in Idx : T.cof[v] = {}
    BY <1>2
  <2> HIDE DEF F
  <2> QED BY <1>4, <1>6, <2>1, <2>2
<1> HIDE DEF F
<1>8. NoneEmpty(F)
  <2>1. ASSUME NEW i \in DOMAIN F, NEW v \in Idx PROVE F[i][v] # {}
    <3>1. F[i][v] = {s[i][v]}
      BY <1>7
    <3> QED BY <3>1
  <2> QED BY <2>1 DEF NoneEmpty
<1>9. ASSUME NEW e \in Evaluation
      PROVE  Covered(F, e) <=> e \in ToSet(s)
  <2>1. \A i \in DOMAIN s : Holds(F[i], e) <=> e = s[i]
    <3> SUFFICES ASSUME NEW i \in DOMAIN s PROVE Holds(F[i], e) <=> e = s[i]
      OBVIOUS
    <3>1. Holds(F[i], e) <=> \A v \in Idx : e[v] = s[i][v]
      BY <1>7 DEF Holds
    <3>2. s[i] \in Evaluation
      BY <1>1
    <3> QED BY <3>1, <3>2 DEF Evaluation
  <2> QED BY <1>7, <2>1 DEF Covered, ToSet
<1>10. Minterms(T)
  <2>1. Injective(T.cubes)
    <3> SUFFICES ASSUME NEW i \in DOMAIN s, NEW j \in DOMAIN s, T.cubes[i] = T.cubes[j] PROVE i = j
      BY <1>4 DEF Injective
    <3>1. ASSUME NEW v \in Idx PROVE s[i][v] = s[j][v]
      <4>1. {s[i][v]} = {s[j][v]}
        BY <1>6
      <4> QED BY <4>1
    <3>2. s[i] \in Evaluation /\ s[j] \in Evaluation
      BY <1>1
    <3>3. s[i] = s[j]
      BY <3>1, <3>2 DEF Evaluation
    <3> QED BY <3>3 DEF Injective
  <2>2. \A i \in DOMAIN T.cubes : \A v \in Idx : \E x \in Parts : T.cubes[i][v] = {x}
    BY <1>4, <1>6
  <2>3. \A v \in Idx : T.cof[v] = {}
    BY <1>2
  <2> QED BY <2>1, <2>2, <2>3 DEF Minterms
<1> QED BY <1>4, <1>5, <1>8, <1>9, <1>10 DEF T, F

(* The cover that is printed, of the table s.                              *)
Printed(s) == simplify[TableList(s)]

LEMMA PrintedRight ==
    ASSUME NEW s \in Seq(Evaluation), Injective(s)
    PROVE  /\ Printed(s) \in Seq(Cube) /\ Len(Printed(s)) <= Len(s)
           /\ NoneEmpty(Printed(s)) /\ Antichain(Printed(s))
           /\ \A e \in Evaluation : Covered(Printed(s), e) <=> e \in ToSet(s)
<1>1. TableList(s) \in List /\ Minterms(TableList(s)) /\ Len(TableList(s).cubes) = Len(s)
      /\ NoneEmpty(cubeunlist(TableList(s)))
      /\ \A e \in Evaluation : Covered(cubeunlist(TableList(s)), e) <=> e \in ToSet(s)
  BY TableListRight
<1>2. Answers(Printed(s), TableList(s))
  BY <1>1, SimplifyAnswers DEF Printed
<1> QED BY <1>1, <1>2 DEF Answers, SameCover
-------------------------------------------------------------------------------
(* The rows                                                                *)

LEMMA ValuesOf ==
    ASSUME NEW X \in SUBSET Parts, X # {}
    PROVE  X = Parts \/ X = {vff} \/ X = {vtt}
BY DEF Parts

LEMMA KissRight ==
    ASSUME NEW F \in Seq(Cube), NoneEmpty(F)
    PROVE  /\ kiss_output(F) \in Seq(PartialEvaluation) /\ Len(kiss_output(F)) = Len(F)
           /\ \A i \in DOMAIN F :
                 /\ read_cube(kiss_output(F)[i]) = F[i]
                 /\ \A e \in Evaluation : Admits(kiss_output(F)[i], e) <=> Holds(F[i], e)
<1> DEFINE K == kiss_output(F)
<1>1. DOMAIN F = 1 .. Len(F) /\ Len(F) \in Nat /\ \A i \in DOMAIN F : F[i] \in Cube
  OBVIOUS
<1>2. vuu # vff /\ vuu # vtt /\ vff # vtt /\ Parts = {vff, vtt}
  BY DEF vuu, vff, vtt, Parts
<1>3. DOMAIN K = 1 .. Len(F)
  BY <1>1 DEF kiss_output
<1>4. ASSUME NEW i \in DOMAIN F, NEW v \in Idx
      PROVE  \/ F[i][v] = Parts /\ K[i][v] = vuu
             \/ F[i][v] = {vff} /\ K[i][v] = vff
             \/ F[i][v] = {vtt} /\ K[i][v] = vtt
  <2>1. F[i][v] \in SUBSET Parts /\ F[i][v] # {}
    BY <1>1 DEF Cube, NoneEmpty
  <2>2. K[i][v] = IF F[i][v] = Parts THEN vuu ELSE CHOOSE x \in F[i][v] : TRUE
    BY DEF kiss_output
  <2>3. CASE F[i][v] = Parts
    BY <2>2, <2>3
  <2>4. CASE F[i][v] = {vff}
    <3>1. K[i][v] = CHOOSE x \in {vff} : TRUE
      BY <1>2, <2>2, <2>4
    <3>2. (CHOOSE x \in {vff} : TRUE) = vff
      OBVIOUS
    <3> QED BY <2>4, <3>1, <3>2
  <2>5. CASE F[i][v] = {vtt}
    <3>1. K[i][v] = CHOOSE x \in {vtt} : TRUE
      BY <1>2, <2>2, <2>5
    <3>2. (CHOOSE x \in {vtt} : TRUE) = vtt
      OBVIOUS
    <3> QED BY <2>5, <3>1, <3>2
  <2> QED BY <2>1, <2>3, <2>4, <2>5, ValuesOf
<1>5. ASSUME NEW i \in DOMAIN F
      PROVE  K[i] \in PartialEvaluation
  <2>1. K[i] = [v \in Idx |-> K[i][v]]
    BY DEF kiss_output
  <2>2. \A v \in Idx : K[i][v] \in {vuu, vff, vtt}
    BY <1>4
  <2> HIDE DEF K
  <2> QED BY <2>1, <2>2 DEF PartialEvaluation
<1>6. K = [i \in 1 .. Len(F) |-> K[i]]
  BY <1>1 DEF kiss_output
<1> HIDE DEF K
<1>7. K \in Seq(PartialEvaluation) /\ Len(K) = Len(F)
  BY <1>1, <1>5, <1>6
<1>8. ASSUME NEW i \in DOMAIN F
      PROVE  read_cube(K[i]) = F[i]
  <2>1. \A v \in Idx : read_cube(K[i])[v] = F[i][v]
    BY <1>2, <1>4 DEF read_cube
  <2>2. F[i] = [v \in Idx |-> F[i][v]]
    BY <1>1 DEF Cube
  <2>3. read_cube(K[i]) = [v \in Idx |-> read_cube(K[i])[v]]
    BY DEF read_cube
  <2> QED BY <2>1, <2>2, <2>3
<1>9. ASSUME NEW i \in DOMAIN F, NEW e \in Evaluation
      PROVE  Admits(K[i], e) <=> Holds(F[i], e)
  <2>1. \A v \in Idx : e[v] \in {vff, vtt}
    BY DEF Evaluation
  <2>2. \A v \in Idx : K[i][v] \in {vuu, e[v]} <=> e[v] \in F[i][v]
    BY <1>2, <1>4, <2>1
  <2> QED BY <2>2 DEF Admits, Holds
<1> QED BY <1>7, <1>8, <1>9 DEF K

-------------------------------------------------------------------------------
(* The equation                                                            *)

Literal_ == [v : Idx, neg : BOOLEAN, eol : BOOLEAN]

LEMMA LiteralsRight ==
    ASSUME NEW c \in Cube
    PROVE  /\ Literals(c) \in Seq(Idx)
           /\ ToSet(Literals(c)) = {v \in Idx : c[v] # Parts}
<1> DEFINE s == [k \in 1 .. VocabSize |-> k - 1]
           S == {v \in Idx : c[v] # Parts}
<1>1. VocabSize \in Nat
  BY VocabSizeAssumption
<1>2. s \in Seq(Idx) /\ DOMAIN s = 1 .. VocabSize /\ \A k \in 1 .. VocabSize : s[k] = k - 1
  <2>1. \A k \in 1 .. VocabSize : k - 1 \in Idx
    BY <1>1 DEF Idx
  <2> QED BY <1>1, <2>1
<1>3. ToSet(s) = Idx
  <2>1. \A v \in Idx : v + 1 \in 1 .. VocabSize /\ (v + 1) - 1 = v
    BY <1>1 DEF Idx
  <2>2. \A k \in 1 .. VocabSize : k - 1 \in Idx
    BY <1>1 DEF Idx
  <2> HIDE DEF s
  <2> QED BY <1>2, <2>1, <2>2 DEF ToSet
<1>4. Literals(c) = Only(s, S)
  BY DEF Literals
<1> HIDE DEF s, S
<1>5. Only(s, S) \in Seq(Idx) /\ ToSet(Only(s, S)) = ToSet(s) \cap S
  BY <1>2, OnlyRight
<1>6. Idx \cap S = S
  BY DEF S
<1> QED BY <1>3, <1>4, <1>5, <1>6 DEF S

LineState == [col : Int, term : Seq(Literal_)]

LEMMA PrintLiteralRight ==
    ASSUME NEW st \in LineState, NEW v \in Idx, NEW c \in Cube
    PROVE  /\ PrintLiteral(st, v, c) \in LineState
           /\ Len(PrintLiteral(st, v, c).term) = Len(st.term) + 1
           /\ \A k \in DOMAIN st.term :
                 /\ PrintLiteral(st, v, c).term[k].v = st.term[k].v
                 /\ PrintLiteral(st, v, c).term[k].neg = st.term[k].neg
           /\ PrintLiteral(st, v, c).term[Len(st.term) + 1].v = v
           /\ PrintLiteral(st, v, c).term[Len(st.term) + 1].neg = (c[v] = {vff})
<1> DEFINE breaks == st.col + strlen(v) > LineLength
           first == st.term = <<>>
           neg == c[v] = {vff}
           n == Len(st.term)
           before == IF breaks /\ ~ first THEN [st.term EXCEPT ![Len(st.term)].eol = TRUE]
                     ELSE st.term
           col == (IF breaks THEN 4 ELSE st.col) + (IF first THEN 0 ELSE 1)
                   + (IF neg THEN 1 ELSE 0) + strlen(v)
           lit == [v |-> v, neg |-> neg, eol |-> FALSE]
<1>1. PrintLiteral(st, v, c) = [col |-> col, term |-> Append(before, lit)]
  BY DEF PrintLiteral
<1>2. st.col \in Int /\ st.term \in Seq(Literal_)
  BY DEF LineState
<1>3. strlen(v) \in Int
  BY DEF strlen
<1>4. col \in Int
  <2> HIDE DEF breaks, first, neg
  <2> QED BY <1>2, <1>3
<1>5. n \in Nat /\ DOMAIN st.term = 1 .. n /\ \A k \in 1 .. n : st.term[k] \in Literal_
  BY <1>2
<1>6. /\ before \in Seq(Literal_) /\ Len(before) = n
      /\ \A k \in 1 .. n : before[k].v = st.term[k].v /\ before[k].neg = st.term[k].neg
  <2>1. CASE breaks /\ ~ first
    <3> DEFINE b == [st.term EXCEPT ![n].eol = TRUE]
    <3>1. DOMAIN b = 1 .. n
      BY <1>5
    <3>2. \A k \in 1 .. n : b[k] = IF k = n THEN [st.term[n] EXCEPT !.eol = TRUE] ELSE st.term[k]
      BY <1>5
    <3>3. \A k \in 1 .. n : b[k] \in Literal_ /\ b[k].v = st.term[k].v /\ b[k].neg = st.term[k].neg
      <4> SUFFICES ASSUME NEW k \in 1 .. n
                   PROVE  b[k] \in Literal_ /\ b[k].v = st.term[k].v /\ b[k].neg = st.term[k].neg
        OBVIOUS
      <4>1. st.term[k] \in Literal_
        BY <1>5
      <4>2. ASSUME NEW l \in Literal_
            PROVE  /\ [l EXCEPT !.eol = TRUE] \in Literal_
                   /\ [l EXCEPT !.eol = TRUE].v = l.v /\ [l EXCEPT !.eol = TRUE].neg = l.neg
        BY DEF Literal_
      <4>3. b[k] = [st.term[k] EXCEPT !.eol = TRUE] \/ b[k] = st.term[k]
        BY <3>2
      <4> HIDE DEF b, n
      <4> QED BY <4>1, <4>2, <4>3
    <3>4. b = [k \in 1 .. n |-> b[k]]
      BY <3>1
    <3>5. before = b
      BY <2>1
    <3> HIDE DEF b, n, before, first, breaks
    <3>6. b \in Seq(Literal_) /\ Len(b) = n
      BY <1>5, <3>3, <3>4
    <3> QED BY <3>3, <3>5, <3>6
  <2>2. CASE ~ (breaks /\ ~ first)
    BY <1>2, <2>2
  <2> QED BY <2>1, <2>2
<1>7. lit \in Literal_ /\ lit.v = v /\ lit.neg = neg
  BY DEF Literal_
<1> HIDE DEF before, lit, col, n, neg
<1>8. /\ Append(before, lit) \in Seq(Literal_) /\ Len(Append(before, lit)) = n + 1
      /\ \A k \in 1 .. n : Append(before, lit)[k] = before[k]
      /\ Append(before, lit)[n + 1] = lit
  BY <1>5, <1>6, <1>7
<1>9. PrintLiteral(st, v, c) \in LineState
  BY <1>1, <1>4, <1>8 DEF LineState
<1>10. PrintLiteral(st, v, c).term = Append(before, lit)
  BY <1>1
<1> HIDE DEF breaks, first
<1>11. \A k \in DOMAIN st.term :
          /\ PrintLiteral(st, v, c).term[k].v = st.term[k].v
          /\ PrintLiteral(st, v, c).term[k].neg = st.term[k].neg
  BY <1>5, <1>6, <1>8, <1>10
<1> QED BY <1>7, <1>8, <1>9, <1>10, <1>11 DEF n, neg

(* The literals of a printed term are those of the cube.                   *)
TermOf(t, c) ==
    /\ t \in Seq(Literal_) /\ Len(t) = Len(Literals(c))
    /\ \A k \in DOMAIN t : t[k].v = Literals(c)[k] /\ t[k].neg = (c[Literals(c)[k]] = {vff})

EquationState == [col : Int, terms : Seq(Seq(Literal_))]

LEMMA PrintTermRight ==
    ASSUME NEW st \in EquationState, NEW c \in Cube
    PROVE  /\ PrintTerm(st, c) \in EquationState
           /\ Len(PrintTerm(st, c).terms) = Len(st.terms) + 1
           /\ \A k \in DOMAIN st.terms : PrintTerm(st, c).terms[k] = st.terms[k]
           /\ TermOf(PrintTerm(st, c).terms[Len(st.terms) + 1], c)
<1> DEFINE opened == [col |-> st.col + (IF st.terms = <<>> THEN 1 ELSE 4), term |-> <<>>]
           literals == Literals(c)
           n == Len(literals)
           G == [p \in LineState \X (1 .. n) |-> PrintLiteral(p[1], literals[p[2]], c)]
           Eq(f) == f = [k \in 0 .. n |-> IF k = 0 THEN opened
                                         ELSE PrintLiteral(f[k - 1], literals[k], c)]
           printed == CHOOSE f : Eq(f)
<1>1. n \in Nat /\ DOMAIN literals = 1 .. n /\ \A k \in 1 .. n : literals[k] \in Idx
  <2>1. literals \in Seq(Idx)
    BY LiteralsRight
  <2> HIDE DEF literals
  <2> QED BY <2>1
<1>2. st.col \in Int /\ st.terms \in Seq(Seq(Literal_))
  BY DEF EquationState
<1>3. opened \in LineState /\ opened.term = <<>>
  BY <1>2 DEF LineState
<1> HIDE DEF opened, literals
<1>4. G \in [LineState \X (1 .. n) -> LineState]
  <2> SUFFICES ASSUME NEW l \in LineState, NEW k \in 1 .. n
               PROVE  PrintLiteral(l, literals[k], c) \in LineState
    OBVIOUS
  <2> QED BY <1>1, PrintLiteralRight
<1>5. \E f \in [0 .. n -> LineState] : Eq(f)
  <2>1. PICK f \in [0 .. n -> LineState] : Iterates(f, n, opened, G)
    <3> HIDE DEF G, n
    <3> QED BY <1>1, <1>3, <1>4, Iteration
  <2>2. \A k \in 1 .. n : G[<<f[k - 1], k>>] = PrintLiteral(f[k - 1], literals[k], c)
    <3> SUFFICES ASSUME NEW k \in 1 .. n
                 PROVE  G[<<f[k - 1], k>>] = PrintLiteral(f[k - 1], literals[k], c)
      OBVIOUS
    <3>1. k - 1 \in 0 .. n
      BY <1>1
    <3>2. <<f[k - 1], k>> \in LineState \X (1 .. n)
      BY <2>1, <3>1
    <3> QED BY <3>2
  <2>3. \A k \in 0 .. n : k # 0 => k \in 1 .. n
    BY <1>1
  <2> HIDE DEF G, n
  <2>4. Eq(f)
    BY <2>1, <2>2, <2>3 DEF Iterates
  <2> HIDE DEF Eq
  <2> QED BY <2>1, <2>4
<1>6. PrintTerm(st, c) =
         [col |-> printed[n].col + 1, terms |-> Append(st.terms, printed[n].term)]
  BY DEF PrintTerm, opened, literals
<1>7. Eq(printed)
  <2> HIDE DEF Eq
  <2> QED BY <1>5
<1> HIDE DEF printed
<1>8. \A k \in 0 .. n : printed[k] = IF k = 0 THEN opened
                                     ELSE PrintLiteral(printed[k - 1], literals[k], c)
  <2> HIDE DEF n
  <2> QED BY <1>7
<1> DEFINE Right(l, k) ==
               /\ l \in LineState /\ Len(l.term) = k
               /\ \A j \in 1 .. k : l.term[j].v = literals[j] /\ l.term[j].neg = (c[literals[j]] = {vff})
           T == {k \in Nat : k <= n => Right(printed[k], k)}
<1>9. 0 \in T
  <2>1. printed[0] = opened
    BY <1>1, <1>8
  <2>2. Right(opened, 0)
    BY <1>3
  <2> HIDE DEF Right
  <2> QED BY <2>1, <2>2
<1>10. ASSUME NEW k \in Nat, k \in T
       PROVE  k + 1 \in T
  <2>0. k + 1 <= n => Right(printed[k + 1], k + 1)
    <3> SUFFICES ASSUME k + 1 <= n PROVE Right(printed[k + 1], k + 1)
      OBVIOUS
    <3>1. k + 1 \in 1 .. n /\ k + 1 \in 0 .. n /\ k + 1 # 0 /\ (k + 1) - 1 = k /\ k <= n
      BY <1>1
    <3> DEFINE l == printed[k]
               m == PrintLiteral(l, literals[k + 1], c)
    <3>2. printed[k + 1] = m
      <4> HIDE DEF n, opened
      <4> QED BY <1>8, <3>1
    <3>3. Right(l, k)
      BY <1>10, <3>1
    <3> HIDE DEF l
    <3>4. l \in LineState /\ Len(l.term) = k /\ literals[k + 1] \in Idx
      BY <1>1, <3>1, <3>3
    <3>5. DOMAIN l.term = 1 .. k
      BY <3>4 DEF LineState
    <3>6. /\ m \in LineState /\ Len(m.term) = k + 1
          /\ \A j \in 1 .. k : m.term[j].v = l.term[j].v /\ m.term[j].neg = l.term[j].neg
          /\ m.term[k + 1].v = literals[k + 1]
          /\ m.term[k + 1].neg = (c[literals[k + 1]] = {vff})
      BY <3>4, <3>5, PrintLiteralRight
    <3> HIDE DEF m
    <3>7. \A j \in 1 .. k + 1 : j = k + 1 \/ j \in 1 .. k
      OBVIOUS
    <3>8. ASSUME NEW j \in 1 .. k + 1
          PROVE  m.term[j].v = literals[j] /\ m.term[j].neg = (c[literals[j]] = {vff})
      <4>1. CASE j = k + 1
        BY <3>6, <4>1
      <4>2. CASE j \in 1 .. k
        BY <3>3, <3>6, <4>2
      <4> QED BY <3>7, <4>1, <4>2
    <3>9. Right(m, k + 1)
      BY <3>6, <3>8
    <3> HIDE DEF Right
    <3> QED BY <3>2, <3>9
  <2> HIDE DEF Right
  <2> QED BY <2>0
<1> HIDE DEF T
<1>11. n \in T
  BY <1>1, <1>9, <1>10, Induction
<1>12. Right(printed[n], n)
  BY <1>1, <1>11 DEF T
<1> DEFINE t == printed[n].term
<1>13. t \in Seq(Literal_) /\ printed[n].col \in Int /\ Len(t) = n /\ DOMAIN t = 1 .. n
  BY <1>12 DEF LineState
<1>14. TermOf(t, c)
  BY <1>12, <1>13 DEF TermOf, literals
<1>15. PrintTerm(st, c) = [col |-> printed[n].col + 1, terms |-> Append(st.terms, t)]
  BY <1>6
<1> HIDE DEF t, n
<1>16. /\ Append(st.terms, t) \in Seq(Seq(Literal_)) /\ Len(Append(st.terms, t)) = Len(st.terms) + 1
       /\ \A k \in DOMAIN st.terms : Append(st.terms, t)[k] = st.terms[k]
       /\ Append(st.terms, t)[Len(st.terms) + 1] = t
  BY <1>2, <1>13
<1>17. PrintTerm(st, c) \in EquationState
  BY <1>13, <1>15, <1>16 DEF EquationState
<1>18. PrintTerm(st, c).terms = Append(st.terms, t)
  BY <1>15
<1> QED BY <1>14, <1>16, <1>17, <1>18

LEMMA EqnRight ==
    ASSUME NEW F \in Seq(Cube)
    PROVE  /\ eqn_output(F) \in Seq(Seq(Literal_)) /\ Len(eqn_output(F)) = Len(F)
           /\ \A i \in DOMAIN F : TermOf(eqn_output(F)[i], F[i])
<1> DEFINE start == [col |-> 7, terms |-> <<>>]
           n == Len(F)
           G == [p \in EquationState \X (1 .. n) |-> PrintTerm(p[1], F[p[2]])]
           Eq(f) == f = [k \in 0 .. n |-> IF k = 0 THEN start ELSE PrintTerm(f[k - 1], F[k])]
           printed == CHOOSE f : Eq(f)
<1>1. n \in Nat /\ DOMAIN F = 1 .. n /\ \A k \in 1 .. n : F[k] \in Cube
  OBVIOUS
<1>2. start \in EquationState /\ start.terms = <<>>
  BY DEF EquationState
<1>3. G \in [EquationState \X (1 .. n) -> EquationState]
  <2> SUFFICES ASSUME NEW l \in EquationState, NEW k \in 1 .. n
               PROVE  PrintTerm(l, F[k]) \in EquationState
    OBVIOUS
  <2> QED BY <1>1, PrintTermRight
<1>4. \E f \in [0 .. n -> EquationState] : Eq(f)
  <2>1. PICK f \in [0 .. n -> EquationState] : Iterates(f, n, start, G)
    <3> HIDE DEF G, n, start
    <3> QED BY <1>1, <1>2, <1>3, Iteration
  <2>2. \A k \in 1 .. n : G[<<f[k - 1], k>>] = PrintTerm(f[k - 1], F[k])
    <3> SUFFICES ASSUME NEW k \in 1 .. n
                 PROVE  G[<<f[k - 1], k>>] = PrintTerm(f[k - 1], F[k])
      OBVIOUS
    <3>1. k - 1 \in 0 .. n
      BY <1>1
    <3>2. <<f[k - 1], k>> \in EquationState \X (1 .. n)
      BY <2>1, <3>1
    <3> QED BY <3>2
  <2>3. \A k \in 0 .. n : k # 0 => k \in 1 .. n
    BY <1>1
  <2> HIDE DEF G, n, start
  <2>4. Eq(f)
    BY <2>1, <2>2, <2>3 DEF Iterates
  <2> HIDE DEF Eq
  <2> QED BY <2>1, <2>4
<1>5. eqn_output(F) = printed[n].terms
  BY DEF eqn_output
<1>6. Eq(printed)
  <2> HIDE DEF Eq
  <2> QED BY <1>4
<1> HIDE DEF printed, start
<1>7. \A k \in 0 .. n : printed[k] = IF k = 0 THEN start ELSE PrintTerm(printed[k - 1], F[k])
  <2> HIDE DEF n
  <2> QED BY <1>6
<1> DEFINE Right(l, k) ==
               /\ l \in EquationState /\ Len(l.terms) = k
               /\ \A j \in 1 .. k : TermOf(l.terms[j], F[j])
           T == {k \in Nat : k <= n => Right(printed[k], k)}
<1>8. 0 \in T
  <2>1. printed[0] = start
    BY <1>1, <1>7
  <2>2. Right(start, 0)
    BY <1>2
  <2> HIDE DEF Right
  <2> QED BY <2>1, <2>2
<1>9. ASSUME NEW k \in Nat, k \in T
      PROVE  k + 1 \in T
  <2>0. k + 1 <= n => Right(printed[k + 1], k + 1)
    <3> SUFFICES ASSUME k + 1 <= n PROVE Right(printed[k + 1], k + 1)
      OBVIOUS
    <3>1. k + 1 \in 1 .. n /\ k + 1 \in 0 .. n /\ k + 1 # 0 /\ (k + 1) - 1 = k /\ k <= n
      BY <1>1
    <3> DEFINE l == printed[k]
               m == PrintTerm(l, F[k + 1])
    <3>2. printed[k + 1] = m
      <4> HIDE DEF n
      <4> QED BY <1>7, <3>1
    <3>3. Right(l, k)
      BY <1>9, <3>1
    <3> HIDE DEF l
    <3>4. l \in EquationState /\ Len(l.terms) = k /\ F[k + 1] \in Cube
      BY <1>1, <3>1, <3>3
    <3>5. DOMAIN l.terms = 1 .. k
      BY <3>4 DEF EquationState
    <3>6. /\ m \in EquationState /\ Len(m.terms) = k + 1
          /\ \A j \in 1 .. k : m.terms[j] = l.terms[j]
          /\ TermOf(m.terms[k + 1], F[k + 1])
      <4> DEFINE c == F[k + 1]
      <4>1. c \in Cube
        BY <3>4
      <4> HIDE DEF c
      <4>2. /\ PrintTerm(l, c) \in EquationState
            /\ Len(PrintTerm(l, c).terms) = Len(l.terms) + 1
            /\ \A j \in DOMAIN l.terms : PrintTerm(l, c).terms[j] = l.terms[j]
            /\ TermOf(PrintTerm(l, c).terms[Len(l.terms) + 1], c)
        BY <3>4, <4>1, PrintTermRight
      <4>3. m = PrintTerm(l, c)
        BY DEF c
      <4> HIDE DEF m
      <4>4. TermOf(m.terms[k + 1], c)
        BY <3>4, <4>2, <4>3
      <4> QED BY <3>4, <3>5, <4>2, <4>3, <4>4 DEF c
    <3> HIDE DEF m
    <3>7. \A j \in 1 .. k + 1 : j = k + 1 \/ j \in 1 .. k
      OBVIOUS
    <3>8. Right(m, k + 1)
      BY <3>3, <3>6, <3>7
    <3> HIDE DEF Right
    <3> QED BY <3>2, <3>8
  <2> HIDE DEF Right
  <2> QED BY <2>0
<1> HIDE DEF T
<1>10. n \in T
  BY <1>1, <1>8, <1>9, Induction
<1>11. Right(printed[n], n)
  BY <1>1, <1>10 DEF T
<1> QED BY <1>1, <1>5, <1>11 DEF EquationState

(* A term as it is read back, and what it says of an evaluation.           *)
LEMMA TermRight ==
    ASSUME NEW c \in Cube, \A v \in Idx : c[v] # {}, NEW t, TermOf(t, c)
    PROVE  /\ ReadTerm(t) \in Seq([v : Idx \cup {NoName}, neg : BOOLEAN])
           /\ DOMAIN ReadTerm(t) = DOMAIN t
           /\ (\A l \in ToSet(ReadTerm(t)) : l.v # NoName) =>
                 \A e \in Evaluation :
                    (\A l \in ToSet(ReadTerm(t)) : Satisfies(e, l)) <=> Holds(c, e)
<1> DEFINE n == Len(t)
           lits == Literals(c)
           r == ReadTerm(t)
<1>1. /\ lits \in Seq(Idx) /\ ToSet(lits) = {v \in Idx : c[v] # Parts}
      /\ t \in Seq(Literal_) /\ n = Len(lits)
      /\ \A k \in DOMAIN t : t[k].v = lits[k] /\ t[k].neg = (c[lits[k]] = {vff})
  BY LiteralsRight DEF TermOf
<1> HIDE DEF lits
<1>2. /\ n \in Nat /\ DOMAIN t = 1 .. n /\ DOMAIN lits = 1 .. n
      /\ \A k \in 1 .. n : t[k] \in Literal_ /\ lits[k] \in Idx
  BY <1>1
<1>3. /\ r = [k \in 1 .. n |-> [v |-> ReadName(t[k]), neg |-> t[k].neg]] /\ DOMAIN r = 1 .. n
      /\ \A k \in 1 .. n : r[k] = [v |-> ReadName(t[k]), neg |-> t[k].neg]
  BY <1>2 DEF ReadTerm
<1> HIDE DEF n, r
<1>4. ASSUME NEW k \in 1 .. n
      PROVE  /\ r[k] \in [v : Idx \cup {NoName}, neg : BOOLEAN]
             /\ r[k].v # NoName => r[k].v = lits[k]
             /\ r[k].neg = (c[lits[k]] = {vff})
  <2>1. t[k].v = lits[k] /\ t[k].neg = (c[lits[k]] = {vff}) /\ t[k].eol \in BOOLEAN /\ t[k].v \in Idx
    BY <1>1, <1>2 DEF Literal_
  <2>2. ReadName(t[k]) \in {NoName, lits[k]} /\ ReadName(t[k]) \in Idx \cup {NoName}
    BY <2>1 DEF ReadName
  <2>3. r[k].v = ReadName(t[k]) /\ r[k].neg = t[k].neg /\ t[k].neg \in BOOLEAN
    BY <1>2, <1>3 DEF Literal_
  <2>4. r[k] \in [v : Idx \cup {NoName}, neg : BOOLEAN]
    BY <1>3, <2>2, <2>3
  <2> QED BY <2>1, <2>2, <2>3, <2>4
<1>5. r \in Seq([v : Idx \cup {NoName}, neg : BOOLEAN])
  BY <1>2, <1>3, <1>4
<1>6. \A l : l \in ToSet(r) <=> \E k \in 1 .. n : r[k] = l
  BY <1>3 DEF ToSet
<1>7. \A v : v \in Idx /\ c[v] # Parts <=> \E k \in 1 .. n : lits[k] = v
  BY <1>1, <1>2 DEF ToSet
<1>8. ASSUME \A l \in ToSet(r) : l.v # NoName, NEW e \in Evaluation
      PROVE  (\A l \in ToSet(r) : Satisfies(e, l)) <=> Holds(c, e)
  <2>1. ASSUME NEW k \in 1 .. n
        PROVE  Satisfies(e, r[k]) <=> e[lits[k]] \in c[lits[k]]
    <3>1. r[k].v = lits[k] /\ r[k].v # NoName /\ r[k].neg = (c[lits[k]] = {vff}) /\ lits[k] \in Idx
      BY <1>2, <1>4, <1>6, <1>8
    <3>2. c[lits[k]] \in SUBSET Parts /\ c[lits[k]] # {} /\ c[lits[k]] # Parts
      BY <1>7, <3>1 DEF Cube
    <3>3. c[lits[k]] = {vff} \/ c[lits[k]] = {vtt}
      BY <3>2, ValuesOf
    <3>4. vff # vtt
      BY IdxFacts
    <3>5. Satisfies(e, r[k]) <=> e[lits[k]] = IF c[lits[k]] = {vff} THEN vff ELSE vtt
      BY <3>1 DEF Satisfies
    <3> QED BY <3>3, <3>4, <3>5
  <2>2. \A v \in Idx : c[v] = Parts => e[v] \in c[v]
    BY DEF Evaluation, Parts
  <2>3. Holds(c, e) <=> \A k \in 1 .. n : e[lits[k]] \in c[lits[k]]
    BY <1>2, <1>7, <2>2 DEF Holds
  <2>4. (\A l \in ToSet(r) : Satisfies(e, l)) <=> \A k \in 1 .. n : Satisfies(e, r[k])
    BY <1>6
  <2> QED BY <2>1, <2>3, <2>4
<1> QED BY <1>2, <1>3, <1>5, <1>8 DEF r

(* The equation as it is read back.                                        *)
Read(text) == [i \in DOMAIN text |-> ReadTerm(text[i])]

LEMMA EquationReadRight ==
    ASSUME NEW F \in Seq(Cube), NoneEmpty(F),
           \A term \in ToSet(Read(eqn_output(F))) : \A l \in ToSet(term) : l.v # NoName,
           NEW e \in Evaluation
    PROVE  (\E term \in ToSet(Read(eqn_output(F))) : \A l \in ToSet(term) : Satisfies(e, l))
               <=> Covered(F, e)
<1> DEFINE text == eqn_output(F)
           r == Read(text)
<1>1. DOMAIN F = 1 .. Len(F) /\ Len(F) \in Nat /\ \A i \in DOMAIN F : F[i] \in Cube
  OBVIOUS
<1>2. DOMAIN text = DOMAIN F /\ \A i \in DOMAIN F : TermOf(text[i], F[i])
  <2>1. text \in Seq(Seq(Literal_)) /\ Len(text) = Len(F) /\ \A i \in DOMAIN F : TermOf(text[i], F[i])
    BY EqnRight
  <2> HIDE DEF text
  <2> QED BY <1>1, <2>1
<1> HIDE DEF text
<1>3. DOMAIN r = DOMAIN F /\ \A i \in DOMAIN F : r[i] = ReadTerm(text[i])
  BY <1>2 DEF Read
<1> HIDE DEF r
<1>4. \A term : term \in ToSet(r) <=> \E i \in DOMAIN F : r[i] = term
  BY <1>3 DEF ToSet
<1>5. \A i \in DOMAIN F : \A l \in ToSet(r[i]) : l.v # NoName
  BY <1>4 DEF r, text
<1>6. ASSUME NEW i \in DOMAIN F
      PROVE  (\A l \in ToSet(r[i]) : Satisfies(e, l)) <=> Holds(F[i], e)
  <2>1. F[i] \in Cube /\ \A v \in Idx : F[i][v] # {}
    BY <1>1 DEF NoneEmpty
  <2>2. TermOf(text[i], F[i]) /\ r[i] = ReadTerm(text[i])
    BY <1>2, <1>3
  <2>3. \A l \in ToSet(ReadTerm(text[i])) : l.v # NoName
    BY <1>5, <2>2
  <2>4. (\A l \in ToSet(ReadTerm(text[i])) : Satisfies(e, l)) <=> Holds(F[i], e)
    BY <2>1, <2>2, <2>3, TermRight
  <2> QED BY <2>2, <2>4
<1>7. (\E term \in ToSet(r) : \A l \in ToSet(term) : Satisfies(e, l)) <=> Covered(F, e)
  <2>1. (\E term \in ToSet(r) : \A l \in ToSet(term) : Satisfies(e, l))
           <=> \E i \in DOMAIN F : \A l \in ToSet(r[i]) : Satisfies(e, l)
    BY <1>4
  <2> QED BY <1>6, <2>1 DEF Covered
<1> QED BY <1>7 DEF r, text
-------------------------------------------------------------------------------
(* The statements                                                          *)

Rows == kiss_output(Printed(yesChoices))
Equation == eqn_output(Printed(yesChoices))

Unsimplified == {"open", "prompt", "ignored", "exited", "eqn"}

(* The table on disk is what was accepted.  Each output of Espresso is     *)
(* the answer for it or empty, what was read and handed on likewise, and   *)
(* while nothing has been lost it is the answer from its statement on.     *)
IInv ==
    /\ TypeOK
    /\ yesChoices \in Seq(Evaluation) /\ Injective(yesChoices)
    /\ ".tt" \in DOMAIN disk => disk[".tt"] = yesChoices
    /\ "eqntott.simplified" \in DOMAIN disk => disk["eqntott.simplified"] \in {<<>>, Equation}
    /\ "kiss.simplified" \in DOMAIN disk => disk["kiss.simplified"] \in {<<>>, Rows}
    /\ kissChoices \in {<<>>, Rows}
    /\ ".abc.blif" \in DOMAIN disk => at = "done" /\ disk[".abc.blif"] = kissChoices
    /\ ~ lost =>
          /\ at \notin Unsimplified => Content("eqntott.simplified") = Equation
          /\ at \notin Unsimplified \cup {"kiss"} => Content("kiss.simplified") = Rows
          /\ at \notin Unsimplified \cup {"kiss", "read eqn", "read kiss"} => kissChoices = Rows
          /\ at = "read kiss" => formula = Read(Equation)

(* What a write does to the files.                                         *)
LEMMA WriteFacts ==
    ASSUME NEW file, NEW content, Write(file, content)
    PROVE  /\ DOMAIN disk' = DOMAIN disk \cup {file}
           /\ disk'[file] = content
           /\ \A f \in DOMAIN disk : f # file => disk'[f] = disk[f]
BY DEF Write

LEMMA RowsTyped ==
    ASSUME IInv
    PROVE  Rows \in Seq(PartialEvaluation)
<1>1. Printed(yesChoices) \in Seq(Cube) /\ NoneEmpty(Printed(yesChoices))
  BY PrintedRight DEF IInv
<1> QED BY <1>1, KissRight DEF Rows

LEMMA Initially == Init => IInv
<1> SUFFICES ASSUME Init PROVE IInv
  OBVIOUS
<1>1. PICK S \in AcceptedSets : yesChoices = Arranged(S, Reached)
  BY DEF Init
<1>2. S \in SUBSET Evaluation
  BY AcceptedSetsAssumption
<1>3. yesChoices \in Seq(Evaluation) /\ Injective(yesChoices)
  BY <1>1, <1>2, TableArranged
<1>4. /\ at = "open" /\ invalidInputRIX = FALSE /\ lost = FALSE
      /\ disk = <<>> /\ kissChoices = <<>>
  BY DEF Init
<1>5. DOMAIN disk = {}
  BY <1>4
<1>6. kissChoices \in Seq(PartialEvaluation)
  BY <1>4
<1>7. TypeOK
  BY <1>4, <1>5, <1>6 DEF TypeOK, Points, Ended
<1> QED BY <1>3, <1>4, <1>5, <1>7 DEF IInv, Unsimplified

(* Each output of Espresso, for the table on disk.                         *)
LEMMA SimplifiedRight ==
    ASSUME IInv, at \in {"eqn", "kiss"}
    PROVE  ".tt" \in DOMAIN disk /\ Simplified = Printed(yesChoices)
<1>1. ".tt" \in DOMAIN disk
  BY DEF IInv, TypeOK
<1>2. disk[".tt"] = yesChoices
  BY <1>1 DEF IInv
<1> QED BY <1>1, <1>2 DEF Simplified, Printed, TableList

(* Unchanged are the accepted evaluations, and so what is printed.         *)
LEMMA SameOutputs ==
    ASSUME yesChoices' = yesChoices
    PROVE  Rows' = Rows /\ Equation' = Equation
BY DEF Rows, Equation

LEMMA WriteTableStep ==
    ASSUME IInv, writeEspressoFile
    PROVE  IInv'
<1>1. /\ at = "open" /\ at' = "eqn" /\ Write(".tt", yesChoices)
      /\ UNCHANGED <<yesChoices, invalidInputRIX, formula, kissChoices, lost>>
  BY DEF writeEspressoFile
<1>2. DOMAIN disk' = DOMAIN disk \cup {".tt"} /\ disk'[".tt"] = yesChoices
      /\ \A f \in DOMAIN disk : f # ".tt" => disk'[f] = disk[f]
  BY <1>1, WriteFacts
<1>3. TypeOK'
  BY <1>1, <1>2 DEF IInv, TypeOK, Points, Files, Ended
<1>4. Rows' = Rows /\ Equation' = Equation
  BY <1>1, SameOutputs
<1> QED BY <1>1, <1>2, <1>3, <1>4 DEF IInv, Unsimplified

LEMMA DialogStep ==
    ASSUME IInv, Ask \/ Answer
    PROVE  IInv'
<1>1. /\ at \in {"open", "prompt"} /\ at' \in {"open", "prompt", "ignored", "exited"}
      /\ invalidInputRIX' \in BOOLEAN
      /\ UNCHANGED <<yesChoices, disk, formula, kissChoices, lost>>
  BY DEF Ask, Answer, IInv, TypeOK
<1>2. TypeOK'
  BY <1>1 DEF IInv, TypeOK, Points, Ended
<1>3. Rows' = Rows /\ Equation' = Equation
  BY <1>1, SameOutputs
<1> QED BY <1>1, <1>2, <1>3 DEF IInv, Unsimplified

LEMMA EqnStep ==
    ASSUME IInv, eqnCommand
    PROVE  IInv'
<1>1. /\ at = "eqn" /\ at' = "kiss"
      /\ UNCHANGED <<yesChoices, invalidInputRIX, formula, kissChoices>>
      /\ \/ Write("eqntott.simplified", eqn_output(Simplified)) /\ lost' = lost
         \/ lost' = TRUE /\ (Write("eqntott.simplified", <<>>) \/ disk' = disk)
  BY DEF eqnCommand, RunEspresso
<1>2. Rows' = Rows /\ Equation' = Equation
  BY <1>1, SameOutputs
<1>3. eqn_output(Simplified) = Equation /\ ".tt" \in DOMAIN disk
  BY <1>1, SimplifiedRight DEF Equation
<1>4. CASE disk' = disk /\ lost'
  <2>1. TypeOK'
    BY <1>1, <1>3, <1>4 DEF IInv, TypeOK, Points, Ended
  <2> QED BY <1>1, <1>2, <1>4, <2>1 DEF IInv, Unsimplified
<1>5. ASSUME NEW text \in {<<>>, Equation}, Write("eqntott.simplified", text),
             lost' \in BOOLEAN, ~ lost' => text = Equation
      PROVE  IInv'
  <2>1. /\ DOMAIN disk' = DOMAIN disk \cup {"eqntott.simplified"}
        /\ disk'["eqntott.simplified"] = text
        /\ \A f \in DOMAIN disk : f # "eqntott.simplified" => disk'[f] = disk[f]
    BY <1>5, WriteFacts
  <2>2. TypeOK'
    BY <1>1, <1>3, <1>5, <2>1 DEF IInv, TypeOK, Points, Files, Ended
  <2>3. ~ lost' => Content("eqntott.simplified")' = Equation'
    BY <1>2, <1>5, <2>1 DEF Content
  <2> QED BY <1>1, <1>2, <1>5, <2>1, <2>2, <2>3 DEF IInv, Unsimplified
<1>6. CASE Write("eqntott.simplified", Equation) /\ lost' = lost
  <2>1. lost \in BOOLEAN
    BY DEF IInv, TypeOK
  <2> QED BY <1>5, <1>6, <2>1
<1>7. CASE Write("eqntott.simplified", <<>>) /\ lost' = TRUE
  BY <1>5, <1>7
<1> QED BY <1>1, <1>3, <1>4, <1>6, <1>7

LEMMA KissStep ==
    ASSUME IInv, kissCommand
    PROVE  IInv'
<1>1. /\ at = "kiss" /\ at' = "read eqn"
      /\ UNCHANGED <<yesChoices, invalidInputRIX, formula, kissChoices>>
      /\ \/ Write("kiss.simplified", kiss_output(Simplified)) /\ lost' = lost
         \/ lost' = TRUE /\ (Write("kiss.simplified", <<>>) \/ disk' = disk)
  BY DEF kissCommand, RunEspresso
<1>2. Rows' = Rows /\ Equation' = Equation
  BY <1>1, SameOutputs
<1>3. kiss_output(Simplified) = Rows /\ ".tt" \in DOMAIN disk
  BY <1>1, SimplifiedRight DEF Rows
<1>4. CASE disk' = disk /\ lost'
  <2>1. TypeOK'
    BY <1>1, <1>3, <1>4 DEF IInv, TypeOK, Points, Ended
  <2> QED BY <1>1, <1>2, <1>4, <2>1 DEF IInv, Unsimplified
<1>5. ASSUME NEW text \in {<<>>, Rows}, Write("kiss.simplified", text),
             lost' \in BOOLEAN, ~ lost' => text = Rows /\ ~ lost
      PROVE  IInv'
  <2>1. /\ DOMAIN disk' = DOMAIN disk \cup {"kiss.simplified"}
        /\ disk'["kiss.simplified"] = text
        /\ \A f \in DOMAIN disk : f # "kiss.simplified" => disk'[f] = disk[f]
    BY <1>5, WriteFacts
  <2>2. TypeOK'
    BY <1>1, <1>3, <1>5, <2>1 DEF IInv, TypeOK, Points, Files, Ended
  <2>3. ~ lost' => Content("kiss.simplified")' = Rows'
    BY <1>2, <1>5, <2>1 DEF Content
  <2>4. ~ lost' => Content("eqntott.simplified")' = Equation'
    <3>1. ~ lost' => Content("eqntott.simplified") = Equation
      BY <1>1, <1>5 DEF IInv, Unsimplified
    <3>2. Content("eqntott.simplified")' = Content("eqntott.simplified")
      BY <2>1 DEF Content
    <3> QED BY <1>2, <3>1, <3>2
  <2> QED BY <1>1, <1>2, <1>5, <2>1, <2>2, <2>3, <2>4 DEF IInv, Unsimplified
<1>6. CASE Write("kiss.simplified", Rows) /\ lost' = lost
  <2>1. lost \in BOOLEAN
    BY DEF IInv, TypeOK
  <2> QED BY <1>5, <1>6, <2>1
<1>7. CASE Write("kiss.simplified", <<>>) /\ lost' = TRUE
  BY <1>5, <1>7
<1> QED BY <1>1, <1>3, <1>4, <1>6, <1>7

LEMMA ReadEquationStep ==
    ASSUME IInv, readSimplifiedFormulaEqnToTT
    PROVE  IInv'
<1>1. /\ at = "read eqn" /\ at' = "read kiss"
      /\ formula' = Read(Content("eqntott.simplified"))
      /\ UNCHANGED <<yesChoices, invalidInputRIX, disk, kissChoices, lost>>
  BY DEF readSimplifiedFormulaEqnToTT, Read
<1>2. Rows' = Rows /\ Equation' = Equation
  BY <1>1, SameOutputs
<1>3. TypeOK'
  BY <1>1 DEF IInv, TypeOK, Points, Ended
<1>4. \A file : Content(file)' = Content(file)
  BY <1>1 DEF Content
<1>5. ~ lost => Content("eqntott.simplified") = Equation /\ Content("kiss.simplified") = Rows
  BY <1>1 DEF IInv, Unsimplified
<1>6. ~ lost' => formula' = Read(Equation)'
  BY <1>1, <1>2, <1>5 DEF Read
<1> QED BY <1>1, <1>2, <1>3, <1>4, <1>5, <1>6 DEF IInv, Unsimplified

LEMMA ReadRowsStep ==
    ASSUME IInv, readSimplifiedFormulaKiss
    PROVE  IInv'
<1>1. /\ at = "read kiss" /\ at' = "abccmd"
      /\ kissChoices' = Content("kiss.simplified")
      /\ UNCHANGED <<yesChoices, invalidInputRIX, disk, formula, lost>>
  BY DEF readSimplifiedFormulaKiss
<1>2. Rows' = Rows /\ Equation' = Equation
  BY <1>1, SameOutputs
<1>3. Content("kiss.simplified") \in {<<>>, Rows}
  BY DEF IInv, Content
<1>4. kissChoices' \in Seq(PartialEvaluation)
  <2>1. Rows \in Seq(PartialEvaluation)
    BY RowsTyped
  <2>2. <<>> \in Seq(PartialEvaluation)
    OBVIOUS
  <2> QED BY <1>1, <1>3, <2>1, <2>2
<1>5. TypeOK'
  BY <1>1, <1>4 DEF IInv, TypeOK, Points, Ended
<1>6. \A file : Content(file)' = Content(file)
  BY <1>1 DEF Content
<1>7. ~ lost => Content("eqntott.simplified") = Equation /\ Content("kiss.simplified") = Rows
  BY <1>1 DEF IInv, Unsimplified
<1>8. ".abc.blif" \notin DOMAIN disk'
  BY <1>1 DEF IInv
<1> QED BY <1>1, <1>2, <1>3, <1>5, <1>6, <1>7, <1>8 DEF IInv

LEMMA HandOnStep ==
    ASSUME IInv, writeCommands \/ writeBlif
    PROVE  IInv'
<1>1. /\ at \in {"abccmd", "blif"} /\ at' \in {"blif", "done", "not handed on"}
      /\ UNCHANGED <<yesChoices, invalidInputRIX, formula, kissChoices, lost>>
      /\ \/ disk' = disk
         \/ Write("abccmd", <<>>)
         \/ at' = "done" /\ Write(".abc.blif", kissChoices)
  BY DEF writeCommands, writeBlif, Create
<1>2. Rows' = Rows /\ Equation' = Equation
  BY <1>1, SameOutputs
<1>3. ~ lost => /\ Content("eqntott.simplified") = Equation /\ Content("kiss.simplified") = Rows
                /\ kissChoices = Rows
  BY <1>1 DEF IInv, Unsimplified
<1>4. ".abc.blif" \notin DOMAIN disk /\ ".tt" \in DOMAIN disk
  BY <1>1 DEF IInv, TypeOK
<1>5. CASE disk' = disk
  <2>1. TypeOK'
    BY <1>1, <1>4, <1>5 DEF IInv, TypeOK, Points, Ended
  <2>2. \A file : Content(file)' = Content(file)
    BY <1>5 DEF Content
  <2> QED BY <1>1, <1>2, <1>3, <1>4, <1>5, <2>1, <2>2 DEF IInv
<1>6. ASSUME NEW file \in {"abccmd", ".abc.blif"}, NEW content, Write(file, content),
             file = ".abc.blif" => at' = "done" /\ content = kissChoices
      PROVE  IInv'
  <2>1. /\ DOMAIN disk' = DOMAIN disk \cup {file} /\ disk'[file] = content
        /\ \A f \in DOMAIN disk : f # file => disk'[f] = disk[f]
    BY <1>6, WriteFacts
  <2>2. TypeOK'
    BY <1>1, <1>4, <2>1 DEF IInv, TypeOK, Points, Files, Ended
  <2>3. /\ Content("eqntott.simplified")' = Content("eqntott.simplified")
        /\ Content("kiss.simplified")' = Content("kiss.simplified")
    BY <2>1 DEF Content
  <2> QED BY <1>1, <1>2, <1>3, <1>4, <1>6, <2>1, <2>2, <2>3 DEF IInv
<1> QED BY <1>1, <1>5, <1>6

LEMMA Inductive == IInv /\ [Next]_vars => IInv'
<1> SUFFICES ASSUME IInv, [Next]_vars PROVE IInv'
  OBVIOUS
<1>1. CASE UNCHANGED vars
  <2>1. Rows' = Rows /\ Equation' = Equation
    BY <1>1, SameOutputs DEF vars
  <2>2. \A file : Content(file)' = Content(file)
    BY <1>1 DEF vars, Content
  <2>3. TypeOK'
    BY <1>1 DEF IInv, TypeOK, vars
  <2>4. Read(Equation)' = Read(Equation)
    BY <2>1 DEF Read
  <2> QED BY <1>1, <2>1, <2>2, <2>3, <2>4 DEF IInv, vars
<1> QED BY <1>1, WriteTableStep, DialogStep, EqnStep, KissStep, ReadEquationStep, ReadRowsStep, HandOnStep
        DEF Next

LEMMA Invariant == Spec => []IInv
BY Initially, Inductive, PTL DEF Spec

(* Whatever the number of formulae, and whatever was accepted: each file   *)
(* is written at its statement, and nothing is read, or handed on, of a    *)
(* table that was never written.                                           *)
THEOREM TypeCorrect == Spec => []TypeOK
<1>1. IInv => TypeOK
  BY DEF IInv
<1> QED BY <1>1, Invariant, PTL

LEMMA RowsExactly == IInv => RowsExact
<1> SUFFICES ASSUME IInv, ".abc.blif" \in DOMAIN disk, NEW e \in Evaluation
             PROVE  /\ (\E row \in ToSet(disk[".abc.blif"]) : Admits(row, e)) => e \in ToSet(yesChoices)
                    /\ e \in ToSet(yesChoices) /\ ~ lost =>
                          \E row \in ToSet(disk[".abc.blif"]) : Admits(row, e)
  BY DEF RowsExact
<1> DEFINE F == Printed(yesChoices)
<1>1. /\ disk[".abc.blif"] \in {<<>>, Rows}
      /\ ~ lost => disk[".abc.blif"] = Rows
  BY DEF IInv, Unsimplified
<1>2. /\ F \in Seq(Cube) /\ NoneEmpty(F)
      /\ Covered(F, e) <=> e \in ToSet(yesChoices)
  BY PrintedRight DEF IInv
<1>3. Rows = kiss_output(F)
  BY DEF Rows
<1> HIDE DEF F
<1>4. /\ DOMAIN Rows = DOMAIN F
      /\ \A i \in DOMAIN F : Admits(Rows[i], e) <=> Holds(F[i], e)
  <2>1. kiss_output(F) \in Seq(PartialEvaluation) /\ Len(kiss_output(F)) = Len(F)
    BY <1>2, KissRight
  <2>2. \A i \in DOMAIN F : Admits(kiss_output(F)[i], e) <=> Holds(F[i], e)
    BY <1>2, KissRight
  <2>3. DOMAIN kiss_output(F) = DOMAIN F
    BY <1>2, <2>1
  <2> QED BY <1>3, <2>2, <2>3
<1>5. (\E row \in ToSet(Rows) : Admits(row, e)) <=> e \in ToSet(yesChoices)
  BY <1>2, <1>4 DEF ToSet, Covered
<1>6. ToSet(<<>>) = {}
  BY DEF ToSet
<1> QED BY <1>1, <1>5, <1>6

(* Whatever was accepted, the rows handed to ABC admit exactly the         *)
(* accepted evaluations, and none but accepted ones when a command or a    *)
(* file of Espresso's output failed.                                       *)
THEOREM RowsRight == Spec => []RowsExact
BY RowsExactly, Invariant, PTL

LEMMA RowsSimply == IInv => RowsSimpler
<1> SUFFICES ASSUME IInv PROVE RowsSimpler
  OBVIOUS
<1> DEFINE F == Printed(yesChoices)
<1>1. kissChoices \in {<<>>, Rows} /\ yesChoices \in Seq(Evaluation)
  BY DEF IInv
<1>2. F \in Seq(Cube) /\ NoneEmpty(F) /\ Antichain(F) /\ Len(F) <= Len(yesChoices)
  BY PrintedRight DEF IInv
<1>3. Rows = kiss_output(F)
  BY DEF Rows
<1> HIDE DEF F
<1>4. /\ Rows \in Seq(PartialEvaluation) /\ Len(Rows) = Len(F)
      /\ \A i \in DOMAIN F : read_cube(Rows[i]) = F[i]
  BY <1>2, <1>3, KissRight
<1>5. DOMAIN Rows = DOMAIN F
  BY <1>2, <1>4
<1>6. \A i, j \in DOMAIN Rows : i # j => ~ setp_implies(read_cube(Rows[i]), read_cube(Rows[j]))
  BY <1>2, <1>4, <1>5 DEF Antichain
<1>7. CASE kissChoices = Rows
  BY <1>2, <1>4, <1>6, <1>7 DEF RowsSimpler
<1>8. CASE kissChoices = <<>>
  <2>1. Len(kissChoices) = 0 /\ DOMAIN kissChoices = {} /\ Len(yesChoices) \in Nat
    BY <1>1, <1>8
  <2> QED BY <2>1 DEF RowsSimpler
<1> QED BY <1>1, <1>7, <1>8

(* No more rows come back than were accepted, and none lies within         *)
(* another, however the halves were lifted and joined.                     *)
THEOREM RowsAreSimpler == Spec => []RowsSimpler
BY RowsSimply, Invariant, PTL

LEMMA EquationExactly == IInv => EquationExact
<1> SUFFICES ASSUME IInv, at = "read kiss", ~ lost, FormulaNamed, NEW e \in Evaluation
             PROVE  (\E term \in ToSet(formula) : \A l \in ToSet(term) : Satisfies(e, l))
                        <=> e \in ToSet(yesChoices)
  BY DEF EquationExact
<1> DEFINE F == Printed(yesChoices)
<1>1. formula = Read(eqn_output(F))
  BY DEF IInv, Equation
<1>2. /\ F \in Seq(Cube) /\ NoneEmpty(F)
      /\ Covered(F, e) <=> e \in ToSet(yesChoices)
  BY PrintedRight DEF IInv
<1> HIDE DEF F
<1>3. \A term \in ToSet(Read(eqn_output(F))) : \A l \in ToSet(term) : l.v # NoName
  BY <1>1 DEF FormulaNamed
<1>4. (\E term \in ToSet(Read(eqn_output(F))) : \A l \in ToSet(term) : Satisfies(e, l))
          <=> Covered(F, e)
  BY <1>2, <1>3, EquationReadRight
<1> QED BY <1>1, <1>2, <1>4

(* The equation read back holds for exactly the accepted evaluations when  *)
(* no line break has cost it a name.                                       *)
THEOREM EquationRight == Spec => []EquationExact
BY EquationExactly, Invariant, PTL
===============================================================================
