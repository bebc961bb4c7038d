--------------------------- MODULE TheoryMain_proofs ---------------------------
(***************************************************************************)
(* Proofs about main up to the traversal: for every theory file and every  *)
(* combination of switches, what TheoryReader_proofs shows of reading      *)
(* holds of injection, generation, propagation and instantiation too; what *)
(* is generated obeys the rules of the theory, the elements are what       *)
(* relations connect to the accesses, and what is instantiated consists of *)
(* instances.                                                              *)
(***************************************************************************)
EXTENDS TheoryMain, TheoryReader_proofs, FiniteSetTheorems

-----------------------------------------------------------------------------
(* Sequences                                                               *)

(* s has x.                                                                *)
Has(s, x) == \E k \in 1 .. Len(s) : s[k] = x

(* The members of a sequence of sequences, one behind the other.           *)
LEMMA FlattenIs ==
    ASSUME NEW X, NEW ss \in Seq(Seq(X))
    PROVE  /\ FlattenSeq(ss) \in Seq(X)
           /\ \A x : (\E k \in 1 .. Len(FlattenSeq(ss)) : FlattenSeq(ss)[k] = x)
                        <=> \E i \in 1 .. Len(ss) : \E j \in 1 .. Len(ss[i]) : ss[i][j] = x
<1> DEFINE n == Len(ss)
           rhs(f, i) == IF i = 1 THEN ss[i] ELSE f[i - 1] \o ss[i]
           Eq(f) == f = [i \in 1 .. n |-> rhs(f, i)]
           Good1(m, f) == \A i \in 1 .. m : f[i] = rhs(f, i)
           T == {m \in Nat : m <= n => \E f \in [1 .. n -> Seq(X)] : Good1(m, f)}
<1>1. n \in Nat /\ \A i \in 1 .. n : ss[i] \in Seq(X)
  OBVIOUS
<1> HIDE DEF n
<1>2. 0 \in T
  <2> DEFINE f0 == [i \in 1 .. n |-> <<>>]
  <2>1. f0 \in [1 .. n -> Seq(X)]
    OBVIOUS
  <2> HIDE DEF f0
  <2>2. Good1(0, f0)
    OBVIOUS
  <2>3. \E f \in [1 .. n -> Seq(X)] : Good1(0, f)
    BY <2>1, <2>2
  <2> QED BY <2>3
<1>3. ASSUME NEW m \in Nat, m \in T
      PROVE  m + 1 \in T
  <2> SUFFICES ASSUME m + 1 <= n PROVE \E f \in [1 .. n -> Seq(X)] : Good1(m + 1, f)
    OBVIOUS
  <2>1. PICK f \in [1 .. n -> Seq(X)] : Good1(m, f)
    BY <1>1, <1>3
  <2> DEFINE g == [f EXCEPT ![m + 1] = rhs(f, m + 1)]
  <2>2. rhs(f, m + 1) \in Seq(X)
    BY <1>1
  <2>3. g \in [1 .. n -> Seq(X)] /\ g[m + 1] = rhs(f, m + 1)
        /\ \A i \in 1 .. n : i # m + 1 => g[i] = f[i]
    BY <2>2
  <2> HIDE DEF g
  <2>4. ASSUME NEW i \in 1 .. m + 1
        PROVE  g[i] = rhs(g, i)
    <3>1. i \in 1 .. n /\ (i # 1 => i - 1 \in 1 .. n /\ i - 1 # m + 1)
      BY <1>1
    <3>2. rhs(g, i) = rhs(f, i)
      BY <2>3, <3>1
    <3> HIDE DEF rhs
    <3>3. CASE i = m + 1
      BY <2>3, <3>2, <3>3
    <3>4. CASE i # m + 1
      <4>1. i \in 1 .. m
        BY <3>4
      <4> QED BY <2>1, <2>3, <3>1, <3>2, <3>4, <4>1
    <3> QED BY <3>3, <3>4
  <2> QED BY <2>3, <2>4
<1>4. n \in T
  <2> HIDE DEF T
  <2> QED BY <1>1, <1>2, <1>3, Induction
<1>5. PICK f \in [1 .. n -> Seq(X)] : Good1(n, f)
  <2> HIDE DEF Good1
  <2> QED BY <1>1, <1>4
<1>6. Eq(f)
  BY <1>5
<1> DEFINE g == CHOOSE f1 : Eq(f1)
<1>7. Eq(g)
  <2> HIDE DEF Eq
  <2> QED BY <1>6
<1>8. n # 0 => FlattenSeq(ss) = g[n]
  BY DEF FlattenSeq, n
<1> HIDE DEF g
<1>9. \A i \in 1 .. n : g[i] = rhs(g, i)
  BY <1>7
<1> DEFINE Of(i, x) == \E j \in 1 .. Len(ss[i]) : ss[i][j] = x
           In(s, x) == \E k \in 1 .. Len(s) : s[k] = x
           S == {m \in Nat : 1 <= m /\ m <= n =>
                    /\ g[m] \in Seq(X)
                    /\ \A x : In(g[m], x) <=> \E i \in 1 .. m : Of(i, x)}
<1>10. \A s, t \in Seq(X) : \A x : In(s \o t, x) <=> In(s, x) \/ In(t, x)
  <2> SUFFICES ASSUME NEW s \in Seq(X), NEW t \in Seq(X), NEW x
               PROVE  In(s \o t, x) <=> In(s, x) \/ In(t, x)
    OBVIOUS
  <2>1. Len(s) \in Nat /\ Len(t) \in Nat /\ Len(s \o t) = Len(s) + Len(t)
        /\ \A k \in 1 .. Len(s) + Len(t) :
              (s \o t)[k] = IF k <= Len(s) THEN s[k] ELSE t[k - Len(s)]
    OBVIOUS
  <2>2. In(s \o t, x) => In(s, x) \/ In(t, x)
    <3> SUFFICES ASSUME NEW k \in 1 .. Len(s) + Len(t), (s \o t)[k] = x
                 PROVE  In(s, x) \/ In(t, x)
      BY <2>1
    <3>1. CASE k <= Len(s)
      BY <2>1, <3>1
    <3>2. CASE ~ (k <= Len(s))
      <4>1. k - Len(s) \in 1 .. Len(t) /\ t[k - Len(s)] = x
        BY <2>1, <3>2
      <4> QED BY <4>1
    <3> QED BY <3>1, <3>2
  <2>3. In(s, x) => In(s \o t, x)
    <3> SUFFICES ASSUME NEW k \in 1 .. Len(s), s[k] = x
                 PROVE  In(s \o t, x)
      OBVIOUS
    <3>1. k \in 1 .. Len(s \o t) /\ (s \o t)[k] = x
      BY <2>1
    <3> QED BY <3>1
  <2>4. In(t, x) => In(s \o t, x)
    <3> SUFFICES ASSUME NEW k \in 1 .. Len(t), t[k] = x
                 PROVE  In(s \o t, x)
      OBVIOUS
    <3>1. k + Len(s) \in 1 .. Len(s \o t) /\ (s \o t)[k + Len(s)] = x
      BY <2>1
    <3> QED BY <3>1
  <2> QED BY <2>2, <2>3, <2>4
<1> HIDE DEF Of, In
<1>11. 0 \in S
  OBVIOUS
<1>12. ASSUME NEW m \in Nat, m \in S
       PROVE  m + 1 \in S
  <2> SUFFICES ASSUME m + 1 <= n
               PROVE  /\ g[m + 1] \in Seq(X)
                      /\ \A x : In(g[m + 1], x) <=> \E i \in 1 .. m + 1 : Of(i, x)
    OBVIOUS
  <2>1. ss[m + 1] \in Seq(X) /\ g[m + 1] = rhs(g, m + 1)
    BY <1>1, <1>9
  <2>2. \A x : In(ss[m + 1], x) <=> Of(m + 1, x)
    BY DEF In, Of
  <2>3. CASE m = 0
    <3>1. g[m + 1] = ss[m + 1] /\ 1 .. m + 1 = {m + 1}
      BY <2>1, <2>3
    <3> HIDE DEF rhs
    <3> QED BY <2>1, <2>2, <3>1
  <2>4. CASE m # 0
    <3>1. g[m] \in Seq(X) /\ \A x : In(g[m], x) <=> \E i \in 1 .. m : Of(i, x)
      BY <1>1, <1>12, <2>4
    <3>2. g[m + 1] = g[m] \o ss[m + 1]
      <4>1. m + 1 # 1 /\ (m + 1) - 1 = m
        BY <2>4
      <4>2. rhs(g, m + 1) = g[m] \o ss[m + 1]
        BY <4>1
      <4> HIDE DEF rhs
      <4> QED BY <2>1, <4>2
    <3>3. 1 .. m + 1 = 1 .. m \cup {m + 1}
      OBVIOUS
    <3> HIDE DEF rhs
    <3>4. \A x : In(g[m] \o ss[m + 1], x) <=> In(g[m], x) \/ In(ss[m + 1], x)
      BY <1>10, <2>1, <3>1
    <3>5. g[m + 1] \in Seq(X)
      <4>1. \A s, t \in Seq(X) : s \o t \in Seq(X)
        OBVIOUS
      <4> QED BY <2>1, <3>1, <3>2, <4>1
    <3>6. \A x : In(g[m + 1], x) <=> In(g[m], x) \/ In(ss[m + 1], x)
      BY <3>2, <3>4
    <3> QED BY <2>2, <3>1, <3>3, <3>5, <3>6
  <2> QED BY <2>3, <2>4
<1>13. n \in S
  <2> HIDE DEF S
  <2> QED BY <1>1, <1>11, <1>12, Induction
<1>14. CASE n = 0
  <2>1. FlattenSeq(ss) = ss /\ ss = <<>>
    BY <1>14 DEF FlattenSeq, n
  <2> QED BY <1>14, <2>1 DEF n
<1>15. CASE n # 0
  <2>1. g[n] \in Seq(X) /\ \A x : In(g[n], x) <=> \E i \in 1 .. n : Of(i, x)
    BY <1>1, <1>13, <1>15
  <2> QED BY <1>8, <1>15, <2>1 DEF In, Of, n
<1> QED BY <1>14, <1>15

LEMMA FlattenHas ==
    ASSUME NEW X, NEW ss \in Seq(Seq(X))
    PROVE  /\ FlattenSeq(ss) \in Seq(X)
           /\ \A x : Has(FlattenSeq(ss), x) <=> \E i \in 1 .. Len(ss) : Has(ss[i], x)
<1> DEFINE all == FlattenSeq(ss)
<1>1. all \in Seq(X)
  BY FlattenIs
<1>2. \A x : (\E k \in 1 .. Len(all) : all[k] = x) <=> \E i \in 1 .. Len(ss) : \E j \in 1 .. Len(ss[i]) : ss[i][j] = x
  BY FlattenIs
<1> HIDE DEF all
<1>3. \A x : Has(all, x) <=> \E i \in 1 .. Len(ss) : Has(ss[i], x)
  BY <1>2 DEF Has
<1> QED BY <1>1, <1>3 DEF all

(* A pair of a member of s and one of t.                                   *)
Paired(s, t, x) == \E i \in 1 .. Len(s), j \in 1 .. Len(t) : x = <<s[i], t[j]>>

LEMMA PairsHave ==
    ASSUME NEW X, NEW Y, NEW s \in Seq(X), NEW t \in Seq(Y)
    PROVE  /\ Pairs(s, t) \in Seq(X \X Y)
           /\ \A x : Has(Pairs(s, t), x) <=> Paired(s, t, x)
<1> DEFINE row(i) == [j \in DOMAIN t |-> <<s[i], t[j]>>]
           ss == [i \in DOMAIN s |-> row(i)]
<1>1. Len(s) \in Nat /\ Len(t) \in Nat /\ DOMAIN s = 1 .. Len(s) /\ DOMAIN t = 1 .. Len(t)
      /\ (\A i \in 1 .. Len(s) : s[i] \in X) /\ (\A j \in 1 .. Len(t) : t[j] \in Y)
  OBVIOUS
<1>2. ASSUME NEW i \in 1 .. Len(s)
      PROVE  row(i) \in Seq(X \X Y) /\ Len(row(i)) = Len(t)
             /\ \A j \in 1 .. Len(t) : row(i)[j] = <<s[i], t[j]>>
  <2>1. row(i) \in [1 .. Len(t) -> X \X Y]
    BY <1>1
  <2>2. row(i) \in Seq(X \X Y) /\ Len(row(i)) = Len(t)
    BY <1>1, <2>1
  <2> QED BY <1>1, <2>2
<1> HIDE DEF row
<1>3. ss \in Seq(Seq(X \X Y)) /\ Len(ss) = Len(s) /\ \A i \in 1 .. Len(s) : ss[i] = row(i)
  <2>1. ss \in [1 .. Len(s) -> Seq(X \X Y)]
    BY <1>1, <1>2
  <2> QED BY <1>1, <2>1
<1>4. Pairs(s, t) = FlattenSeq(ss)
  BY DEF Pairs, row
<1> HIDE DEF ss
<1> DEFINE Z == X \X Y
<1>5. /\ FlattenSeq(ss) \in Seq(Z)
      /\ \A x : Has(FlattenSeq(ss), x) <=> \E i \in 1 .. Len(ss) : Has(ss[i], x)
  <2>1. ss \in Seq(Seq(Z))
    BY <1>3
  <2> HIDE DEF Z
  <2> QED BY <2>1, FlattenHas
<1>6. \A x : (\E i \in 1 .. Len(ss) : \E j \in 1 .. Len(ss[i]) : ss[i][j] = x)
         <=> \E i \in 1 .. Len(s), j \in 1 .. Len(t) : x = <<s[i], t[j]>>
  <2>1. \A i \in 1 .. Len(s) : \A x : (\E j \in 1 .. Len(ss[i]) : ss[i][j] = x)
            <=> \E j \in 1 .. Len(t) : x = <<s[i], t[j]>>
    <3> SUFFICES ASSUME NEW i \in 1 .. Len(s), NEW x
                 PROVE  (\E j \in 1 .. Len(ss[i]) : ss[i][j] = x)
                           <=> \E j \in 1 .. Len(t) : x = <<s[i], t[j]>>
      OBVIOUS
    <3>1. ss[i] = row(i) /\ Len(row(i)) = Len(t) /\ \A j \in 1 .. Len(t) : row(i)[j] = <<s[i], t[j]>>
      BY <1>2, <1>3
    <3> QED BY ONLY <3>1
  <2> SUFFICES ASSUME NEW x
               PROVE  (\E i \in 1 .. Len(s) : \E j \in 1 .. Len(ss[i]) : ss[i][j] = x)
                         <=> \E i \in 1 .. Len(s), j \in 1 .. Len(t) : x = <<s[i], t[j]>>
    BY <1>3
  <2> QED BY ZenonT(30), <2>1
<1>7. \A x : (\E i \in 1 .. Len(ss) : Has(ss[i], x)) <=> Paired(s, t, x)
  BY <1>6 DEF Has, Paired
<1> QED BY <1>4, <1>5, <1>7

(* A finite set of numbers, each once.                                     *)
LEMMA AscendingIs ==
    ASSUME NEW m \in Nat, NEW S \in SUBSET (0 .. m)
    PROVE  /\ Ascending(S) \in Seq(S)
           /\ \A x : Has(Ascending(S), x) <=> x \in S
           /\ IsFiniteSet(S) /\ Len(Ascending(S)) = Cardinality(S)
<1> DEFINE n == Cardinality(S)
           Up(x) == {y \in S : y <= x}
           rank(x) == Cardinality(Up(x))
           f == [x \in S |-> rank(x)]
           K == 1 .. n
<1>1. IsFiniteSet(S) /\ n \in Nat /\ \A x \in S : x \in Nat
  <2>1. IsFiniteSet(0 .. m)
    BY FS_Interval
  <2>2. IsFiniteSet(S)
    BY <2>1, FS_Subset
  <2> QED BY <2>2, FS_CardinalityType
<1>2. ASSUME NEW x \in S
      PROVE  rank(x) \in K
  <2>1. Up(x) \in SUBSET S /\ x \in Up(x)
    BY <1>1
  <2> HIDE DEF Up
  <2>2. IsFiniteSet(Up(x)) /\ rank(x) <= n
    BY <1>1, <2>1, FS_Subset
  <2>3. rank(x) \in Nat /\ rank(x) # 0
    BY <2>1, <2>2, FS_CardinalityType, FS_EmptySet
  <2> HIDE DEF n
  <2> QED BY <1>1, <2>2, <2>3
<1>3. ASSUME NEW x \in S, NEW y \in S, x < y
      PROVE  rank(x) # rank(y)
  <2>1. Up(x) \in SUBSET Up(y) /\ y \in Up(y) /\ y \notin Up(x) /\ Up(y) \in SUBSET S
    <3>1. x \in Nat /\ y \in Nat /\ \A z \in S : z \in Nat
      BY <1>1
    <3>2. \A z \in S : z <= x => z <= y
      BY <1>3, <3>1
    <3>3. y <= y /\ ~ (y <= x)
      BY <1>3, <3>1
    <3> QED BY <3>2, <3>3
  <2> HIDE DEF Up
  <2>2. IsFiniteSet(Up(y))
    BY <1>1, <2>1, FS_Subset
  <2> QED BY <2>1, <2>2, FS_Subset
<1>4. f \in Injection(S, K)
  <2>1. f \in [S -> K]
    <3> HIDE DEF n, rank
    <3> QED BY <1>1, <1>2
  <2>2. \A x, y \in S : f[x] = f[y] => x = y
    <3> HIDE DEF rank
    <3> QED BY <1>1, <1>3
  <2> QED BY <2>1, <2>2 DEF Injection, IsInjective
<1>5. IsFiniteSet(K) /\ Cardinality(K) = n
  <2>1. 1 \in Int /\ n \in Int /\ (IF 1 > n THEN 0 ELSE n - 1 + 1) = n
    BY <1>1
  <2> HIDE DEF n
  <2> QED BY <2>1, FS_Interval
<1>6. f \in Surjection(S, K)
  BY <1>4, <1>5, FS_Injection
<1>7. \A k \in K : \E x \in S : rank(x) = k
  BY <1>6 DEF Surjection
<1> DEFINE s == Ascending(S)
<1>8. DOMAIN s = 1 .. n /\ \A k \in 1 .. n : s[k] = CHOOSE x \in S : rank(x) = k
  BY DEF Ascending
<1> HIDE DEF s, rank, n
<1>9. \A k \in 1 .. n : s[k] \in S /\ rank(s[k]) = k
  BY <1>7, <1>8
<1>10. s \in [1 .. n -> S]
  <2>1. s = [k \in 1 .. n |-> CHOOSE x \in S : rank(x) = k]
    BY DEF s, Ascending, rank, n
  <2> QED BY <1>8, <1>9, <2>1
<1>11. s \in Seq(S) /\ Len(s) = n
  BY <1>1, <1>10
<1>12. ASSUME NEW x \in S
       PROVE  \E k \in 1 .. n : s[k] = x
  <2>1. rank(x) \in 1 .. n
    BY <1>2
  <2>2. s[rank(x)] \in S /\ rank(s[rank(x)]) = rank(x)
    BY <1>9, <2>1
  <2>3. s[rank(x)] = x
    <3>1. \A z \in S : z = x \/ z < x \/ x < z
      BY <1>1
    <3> QED BY <1>3, <2>2, <3>1
  <2> QED BY <2>1, <2>3
<1> QED BY <1>1, <1>9, <1>11, <1>12 DEF s, n, Has

-----------------------------------------------------------------------------
(* Loops                                                                   *)

(* There is a function like f below m, and x at m.                         *)
Continuable(f, m, x) == \E g : g[m] = x /\ \A k \in 0 .. m - 1 : g[k] = f[k]

LEMMA Continued == \A m \in Nat : \A f, x : Continuable(f, m, x)
<1> SUFFICES ASSUME NEW m \in Nat, NEW f, NEW x
             PROVE  Continuable(f, m, x)
  OBVIOUS
<1> DEFINE g == [k \in 0 .. m |-> IF k = m THEN x ELSE f[k]]
<1>1. g[m] = x /\ \A k \in 0 .. m - 1 : g[k] = f[k]
  OBVIOUS
<1> HIDE DEF g
<1> QED BY <1>1 DEF Continuable

(* What one turn of each loop makes of a and x: with the turns under one   *)
(* name, one induction serves every loop.                                  *)
Turn(loop, p, q, r, a, x) ==
    CASE loop = "Indexed" -> indexArray(a, x, p)
      [] loop = "InjectedAll" -> injectOne(a, x, IF p THEN "local" ELSE "global")
      [] loop = "MadeTerms" -> makeTerm(a, x[1], x[2], x[3])
      [] loop = "SplitTerms" -> generateTermsNIJ(a, p[x], p[q + 1 - x])
      [] loop = "AllTerms" -> generateTermsN(a, x)
      [] loop = "MadeFormulae" -> generateFormula(a, x[1], x[2], x[3])
      [] loop = "Passed" -> propagateNode(a, x)
      [] loop = "PassedAll" -> propagatePass(a)
      [] loop = "Cloned" -> cloneAndSubstituteNode(a, x, p, q)
      [] loop = "Chosen" -> Longer(a, p, 1)
      [] loop = "ClonedAll" -> cloneAndSubstitute(a, p, q, [i \in DOMAIN x |-> r[x[i]]])
      [] loop = "Untaken" -> Renamed(a, p)
      [] loop = "Reached" -> Neighbours(p, a)

Turns(loop, p, q, r, base, s) ==
    LET made[k \in 0 .. Len(s)] == IF k = 0 THEN base ELSE Turn(loop, p, q, r, made[k - 1], s[k])
    IN  made

AreTurns(made, loop, p, q, r, base, s) ==
    /\ made[0] = base
    /\ \A k \in 1 .. Len(s) : made[k] = Turn(loop, p, q, r, made[k - 1], s[k])

LEMMA TurnsAre ==
    ASSUME NEW loop, NEW p, NEW q, NEW r, NEW base, NEW s, Len(s) \in Nat
    PROVE  AreTurns(Turns(loop, p, q, r, base, s), loop, p, q, r, base, s)
<1> DEFINE rhs(f, k) == IF k = 0 THEN base ELSE Turn(loop, p, q, r, f[k - 1], s[k])
           Eq(f) == f = [k \in 0 .. Len(s) |-> rhs(f, k)]
           Runs(f, m) == \A k \in 0 .. m - 1 : f[k] = rhs(f, k)
           T == {m \in Nat : \E f : Runs(f, m)}
           made == CHOOSE f : Eq(f)
<1>1. Turns(loop, p, q, r, base, s) = made
  BY DEF Turns
<1>2. ASSUME NEW f, NEW g, NEW k \in Nat, \A j \in 0 .. k - 1 : g[j] = f[j]
      PROVE  rhs(g, k) = rhs(f, k)
  BY <1>2
<1>3. \A f : rhs(f, 0) = base /\ \A k \in 1 .. Len(s) : rhs(f, k) = Turn(loop, p, q, r, f[k - 1], s[k])
  OBVIOUS
<1> HIDE DEF rhs
<1>4. ASSUME NEW m \in Nat, NEW f, Runs(f, m)
      PROVE  m + 1 \in T
  <2> DEFINE x == rhs(f, m)
  <2> HIDE DEF x
  <2>1. Continuable(f, m, x)
    BY Continued
  <2>2. PICK g : g[m] = x /\ \A k \in 0 .. m - 1 : g[k] = f[k]
    BY <2>1 DEF Continuable
  <2> QED BY <1>2, <1>4, <2>2 DEF x
<1>5. 0 \in T /\ \A m \in Nat : m \in T => m + 1 \in T
  BY <1>4
<1>6. PICK f : Runs(f, Len(s) + 1)
  <2> HIDE DEF T
  <2>1. Len(s) + 1 \in T
    BY <1>5, Induction
  <2> QED BY <2>1 DEF T
<1>7. Eq([k \in 0 .. Len(s) |-> f[k]])
  BY <1>2, <1>6
<1>8. \A k \in 0 .. Len(s) : made[k] = rhs(made, k)
  BY <1>7
<1> HIDE DEF made
<1> QED BY <1>1, <1>3, <1>8 DEF AreTurns

(* The loop of addQuantifiedIndex.                                         *)
Indexed(base, s, idx) == Loop(LAMBDA t, id : indexArray(t, id, idx), base, s)

LEMMA IndexedIs ==
    ASSUME NEW idx, NEW base, NEW s, Len(s) \in Nat
    PROVE  \E made : /\ Indexed(base, s, idx) = made[Len(s)]
                     /\ made[0] = base
                     /\ \A k \in 1 .. Len(s) : made[k] = indexArray(made[k - 1], s[k], idx)
<1> DEFINE made == Turns("Indexed", idx, 0, 0, base, s)
<1>1. Indexed(base, s, idx) = made[Len(s)]
  BY DEF Indexed, Turns, Turn, Loop
<1>2. AreTurns(made, "Indexed", idx, 0, 0, base, s)
  BY TurnsAre
<1> HIDE DEF made
<1> QED BY <1>1, <1>2 DEF AreTurns, Turn

(* The loop of injectQuantifierVars.                                       *)
InjectedAll(base, s, injectLocal) == Loop(LAMBDA acc, num : injectOne(acc, num, IF injectLocal THEN "local" ELSE "global"), base, s)

LEMMA InjectedAllIs ==
    ASSUME NEW injectLocal, NEW base, NEW s, Len(s) \in Nat
    PROVE  \E made : /\ InjectedAll(base, s, injectLocal) = made[Len(s)]
                     /\ made[0] = base
                     /\ \A k \in 1 .. Len(s) : made[k] = injectOne(made[k - 1], s[k], IF injectLocal THEN "local" ELSE "global")
<1> DEFINE made == Turns("InjectedAll", injectLocal, 0, 0, base, s)
<1>1. InjectedAll(base, s, injectLocal) = made[Len(s)]
  BY DEF InjectedAll, Turns, Turn, Loop
<1>2. AreTurns(made, "InjectedAll", injectLocal, 0, 0, base, s)
  BY TurnsAre
<1> HIDE DEF made
<1> QED BY <1>1, <1>2 DEF AreTurns, Turn

(* The loop of generateTermsNIJ.                                           *)
MadeTerms(base, s) == Loop(LAMBDA b, join : makeTerm(b, join[1], join[2], join[3]), base, s)

LEMMA MadeTermsIs ==
    ASSUME NEW base, NEW s, Len(s) \in Nat
    PROVE  \E made : /\ MadeTerms(base, s) = made[Len(s)]
                     /\ made[0] = base
                     /\ \A k \in 1 .. Len(s) : made[k] = makeTerm(made[k - 1], s[k][1], s[k][2], s[k][3])
<1> DEFINE made == Turns("MadeTerms", 0, 0, 0, base, s)
<1>1. MadeTerms(base, s) = made[Len(s)]
  BY DEF MadeTerms, Turns, Turn, Loop
<1>2. AreTurns(made, "MadeTerms", 0, 0, 0, base, s)
  BY TurnsAre
<1> HIDE DEF made
<1> QED BY <1>1, <1>2 DEF AreTurns, Turn

(* The loop of generateTermsN.                                             *)
SplitTerms(base, s, terms, n) == Loop(LAMBDA b, i : generateTermsNIJ(b, terms[i], terms[n + 1 - i]), base, s)

IsSplit(made, base, s, terms, n) ==
    /\ SplitTerms(base, s, terms, n) = made[Len(s)]
    /\ made[0] = base
    /\ \A k \in 1 .. Len(s) : made[k] = generateTermsNIJ(made[k - 1], terms[s[k]], terms[n + 1 - s[k]])

LEMMA SplitTermsIs ==
    ASSUME NEW terms, NEW n, NEW base, NEW s, Len(s) \in Nat
    PROVE  \E made : IsSplit(made, base, s, terms, n)
<1> DEFINE made == Turns("SplitTerms", terms, n, 0, base, s)
<1>1. SplitTerms(base, s, terms, n) = made[Len(s)]
  BY DEF SplitTerms, Turns, Turn, Loop
<1>2. AreTurns(made, "SplitTerms", terms, n, 0, base, s)
  BY TurnsAre
<1> HIDE DEF made
<1> QED BY <1>1, <1>2 DEF AreTurns, Turn, IsSplit

(* The loop of generateTerms.                                              *)
AllTerms(base, s) == Loop(generateTermsN, base, s)

LEMMA AllTermsIs ==
    ASSUME NEW base, NEW s, Len(s) \in Nat
    PROVE  \E made : /\ AllTerms(base, s) = made[Len(s)]
                     /\ made[0] = base
                     /\ \A k \in 1 .. Len(s) : made[k] = generateTermsN(made[k - 1], s[k])
<1> DEFINE made == Turns("AllTerms", 0, 0, 0, base, s)
<1>1. AllTerms(base, s) = made[Len(s)]
  BY DEF AllTerms, Turns, Turn, Loop
<1>2. AreTurns(made, "AllTerms", 0, 0, 0, base, s)
  BY TurnsAre
<1> HIDE DEF made
<1> QED BY <1>1, <1>2 DEF AreTurns, Turn

(* The loop of generateFormulae.                                           *)
MadeFormulae(base, s) == Loop(LAMBDA t, join : generateFormula(t, join[1], join[2], join[3]), base, s)

IsMadeFormulae(made, base, s) ==
    /\ MadeFormulae(base, s) = made[Len(s)]
    /\ made[0] = base
    /\ \A k \in 1 .. Len(s) : made[k] = generateFormula(made[k - 1], s[k][1], s[k][2], s[k][3])

LEMMA MadeFormulaeIs ==
    ASSUME NEW base, NEW s, Len(s) \in Nat
    PROVE  \E made : IsMadeFormulae(made, base, s)
<1> DEFINE made == Turns("MadeFormulae", 0, 0, 0, base, s)
<1>1. MadeFormulae(base, s) = made[Len(s)]
  BY DEF MadeFormulae, Turns, Turn, Loop
<1>2. AreTurns(made, "MadeFormulae", 0, 0, 0, base, s)
  BY TurnsAre
<1> HIDE DEF made
<1> QED BY <1>1, <1>2 DEF AreTurns, Turn, IsMadeFormulae

(* The loop of propagatePass.                                              *)
Passed(base, s) == Loop(propagateNode, base, s)

IsPassed(made, base, s) ==
    /\ Passed(base, s) = made[Len(s)]
    /\ made[0] = base
    /\ \A k \in 1 .. Len(s) : made[k] = propagateNode(made[k - 1], s[k])

LEMMA PassedIs ==
    ASSUME NEW base, NEW s, Len(s) \in Nat
    PROVE  \E made : IsPassed(made, base, s)
<1> DEFINE made == Turns("Passed", 0, 0, 0, base, s)
<1>1. Passed(base, s) = made[Len(s)]
  BY DEF Passed, Turns, Turn, Loop
<1>2. AreTurns(made, "Passed", 0, 0, 0, base, s)
  BY TurnsAre
<1> HIDE DEF made
<1> QED BY <1>1, <1>2 DEF AreTurns, Turn, IsPassed

(* The passes of propagateElementAttribute.                                *)
PassedAll(base, s) == Loop(LAMBDA acc, k : propagatePass(acc), base, s)

IsPassedAll(made, base, s) ==
    /\ PassedAll(base, s) = made[Len(s)]
    /\ made[0] = base
    /\ \A k \in 1 .. Len(s) : made[k] = propagatePass(made[k - 1])

LEMMA PassedAllIs ==
    ASSUME NEW base, NEW s, Len(s) \in Nat
    PROVE  \E made : IsPassedAll(made, base, s)
<1> DEFINE made == Turns("PassedAll", 0, 0, 0, base, s)
<1>1. PassedAll(base, s) = made[Len(s)]
  BY DEF PassedAll, Turns, Turn, Loop
<1>2. AreTurns(made, "PassedAll", 0, 0, 0, base, s)
  BY TurnsAre
<1> HIDE DEF made
<1> QED BY <1>1, <1>2 DEF AreTurns, Turn, IsPassedAll

(* The rounds of Reached.                                                  *)
IsReached(made, th, S) ==
    /\ Reached(th, S) = made[Len(th.nodes)]
    /\ made[0] = S
    /\ \A k \in 1 .. Len(th.nodes) : made[k] = Neighbours(th, made[k - 1])

LEMMA ReachedIs ==
    ASSUME NEW th, NEW S, Len(th.nodes) \in Nat
    PROVE  \E made : IsReached(made, th, S)
<1> DEFINE s == th.nodes
           made == Turns("Reached", th, 0, 0, S, s)
<1>1. Reached(th, S) = made[Len(s)]
  BY DEF Reached, Turns, Turn, Loop
<1>2. AreTurns(made, "Reached", th, 0, 0, S, s)
  BY TurnsAre
<1> HIDE DEF made
<1> QED BY <1>1, <1>2 DEF AreTurns, Turn, IsReached

(* The nodes of cloneAndSubstituteRec.                                     *)
Cloned(base, s, uvars, combination) == Loop(LAMBDA acc, i : cloneAndSubstituteNode(acc, i, uvars, combination), base, s)

IsCloned(made, base, s, uvars, combination) ==
    /\ Cloned(base, s, uvars, combination) = made[Len(s)]
    /\ made[0] = base
    /\ \A k \in 1 .. Len(s) : made[k] = cloneAndSubstituteNode(made[k - 1], s[k], uvars, combination)

LEMMA ClonedIs ==
    ASSUME NEW uvars, NEW combination, NEW base, NEW s, Len(s) \in Nat
    PROVE  \E made : IsCloned(made, base, s, uvars, combination)
<1> DEFINE made == Turns("Cloned", uvars, combination, 0, base, s)
<1>1. Cloned(base, s, uvars, combination) = made[Len(s)]
  BY DEF Cloned, Turns, Turn, Loop
<1>2. AreTurns(made, "Cloned", uvars, combination, 0, base, s)
  BY TurnsAre
<1> HIDE DEF made
<1> QED BY <1>1, <1>2 DEF AreTurns, Turn, IsCloned

(* The places of Combinations.                                             *)
Chosen(base, s, n) == Loop(LAMBDA choices, j : Longer(choices, n, 1), base, s)

IsChosen(made, base, s, n) ==
    /\ Chosen(base, s, n) = made[Len(s)]
    /\ made[0] = base
    /\ \A k \in 1 .. Len(s) : made[k] = Longer(made[k - 1], n, 1)

LEMMA ChosenIs ==
    ASSUME NEW n, NEW base, NEW s, Len(s) \in Nat
    PROVE  \E made : IsChosen(made, base, s, n)
<1> DEFINE made == Turns("Chosen", n, 0, 0, base, s)
<1>1. Chosen(base, s, n) = made[Len(s)]
  BY DEF Chosen, Turns, Turn, Loop
<1>2. AreTurns(made, "Chosen", n, 0, 0, base, s)
  BY TurnsAre
<1> HIDE DEF made
<1> QED BY <1>1, <1>2 DEF AreTurns, Turn, IsChosen

(* The loop of combinationClone.                                           *)
ClonedAll(base, s, id, uvars, indices) == Loop(LAMBDA t, places : cloneAndSubstitute(t, id, uvars, [i \in DOMAIN places |-> indices[places[i]]]), base, s)

IsClonedAll(made, base, s, id, uvars, indices) ==
    /\ ClonedAll(base, s, id, uvars, indices) = made[Len(s)]
    /\ made[0] = base
    /\ \A k \in 1 .. Len(s) : made[k] = cloneAndSubstitute(made[k - 1], id, uvars, [i \in DOMAIN s[k] |-> indices[s[k][i]]])

LEMMA ClonedAllIs ==
    ASSUME NEW id, NEW uvars, NEW indices, NEW base, NEW s, Len(s) \in Nat
    PROVE  \E made : IsClonedAll(made, base, s, id, uvars, indices)
<1> DEFINE made == Turns("ClonedAll", id, uvars, indices, base, s)
<1>1. ClonedAll(base, s, id, uvars, indices) = made[Len(s)]
  BY DEF ClonedAll, Turns, Turn, Loop
<1>2. AreTurns(made, "ClonedAll", id, uvars, indices, base, s)
  BY TurnsAre
<1> HIDE DEF made
<1> QED BY <1>1, <1>2 DEF AreTurns, Turn, IsClonedAll

-----------------------------------------------------------------------------
(* What a handler leaves alone                                             *)

(* No handler touches the vocabularies or the bounds of the generation.    *)
Frame(th, new) ==
    /\ new.vocabIds = th.vocabIds /\ new.generatedVocabIds = th.generatedVocabIds
    /\ new.quantFreeVocIds = th.quantFreeVocIds /\ new.boundTerms = th.boundTerms
    /\ new.numClauseOperationBound = th.numClauseOperationBound
    /\ new.numQuantifierBound = th.numQuantifierBound

(* Nor does one that makes a term or a formula declare anything.           *)
TermFrame(th, new) ==
    /\ Frame(th, new)
    /\ new.rulemap = th.rulemap /\ new.varIds = th.varIds /\ new.constantIds = th.constantIds
    /\ new.var2idMap = th.var2idMap
    /\ th.trueId # NoId => new.trueId = th.trueId

Binary == {"binary-relational", "binary-arithmetic", "binary-boolean", "access"}
Unary == {"unary-boolean", "unary-arithmetic"}

(* A type that goes with one operator, an access being an element.         *)
Worded(n) ==
    /\ n.type = "access" => n.op = "[]" /\ n.element
    /\ n.type = "unary-boolean" => n.op = "not"
    /\ n.type = "unary-arithmetic" => n.op = "-"

(* What cloning asserts of a universal node it enters, and reads of it.    *)
Shape(n) ==
    /\ ~ n.isVar /\ n.global => n.type \in Binary \cup Unary
    /\ n.type \in Binary => n.operandIds = <<>> \/ Len(n.operandIds) = 2
    /\ n.type \in Unary => Len(n.operandIds) = 1
    /\ Worded(n)

(* What a variable or a literal ends in and begins with is itself.         *)
Own(n, id) ==
    n.isVar \/ n.type = "literal" => n.leftVars = <<id>> /\ n.rightVars = <<id>> /\ n.operandIds = <<>>

(* S has the accesses, and whatever a relation connects to one of its own. *)
ClosedIn(N, S) ==
    \A k \in 1 .. Len(N) :
        /\ N[k].type = "access" => k - 1 \in S
        /\ N[k].type = "binary-relational" =>
              \A i, j \in DOMAIN N[k].operandIds :
                  N[k].operandIds[i] \in S => N[k].operandIds[j] \in S

(* No node is an element for another reason.                               *)
Linked(N) == \A S : ClosedIn(N, S) => \A k \in 1 .. Len(N) : N[k].element => k - 1 \in S

Shaped(th) ==
    /\ \A k \in 1 .. Len(th.nodes) : Shape(th.nodes[k]) /\ Own(th.nodes[k], k - 1)
    /\ Linked(th.nodes)

(* The nodes made of others are neither.                                   *)
Made(n) == Shape(n) /\ ~ n.isVar /\ n.type # "literal"

(* And not elements from the start, but for the accesses.                  *)
Plain(n) == n.element => n.type = "access"

(* Nodes of some shape are added, and others marked as elements.           *)
Marked(a, b) == [a EXCEPT !.element = b.element] = b /\ (a.element => b.element)

Adds(th, new) ==
    /\ TermFrame(th, new)
    /\ Len(th.nodes) <= Len(new.nodes)
    /\ \A k \in 1 .. Len(th.nodes) : Marked(th.nodes[k], new.nodes[k])
    /\ \A k \in Len(th.nodes) + 1 .. Len(new.nodes) : Made(new.nodes[k])
    /\ Linked(th.nodes) => Linked(new.nodes)

(* The k-th node is compared with the e-th.                                *)
Compared(N, e, k) ==
    \E r \in 1 .. Len(N) :
        /\ N[r].type = "binary-relational"
        /\ \E i, j \in DOMAIN N[r].operandIds :
              N[r].operandIds[i] = e - 1 /\ N[r].operandIds[j] = k - 1

LEMMA LinkedStays ==
    ASSUME NEW N \in Seq(Node), NEW M \in Seq(Node), Linked(N), Len(N) <= Len(M),
           \A k \in 1 .. Len(N) : M[k].type = N[k].type /\ M[k].operandIds = N[k].operandIds,
           \A k \in 1 .. Len(M) : M[k].element =>
               \/ M[k].type = "access" \/ (k <= Len(N) /\ N[k].element)
               \/ \E e \in 1 .. Len(N) : N[e].element /\ Compared(M, e, k)
    PROVE  Linked(M)
<1> SUFFICES ASSUME NEW S, ClosedIn(M, S), NEW k \in 1 .. Len(M), M[k].element
             PROVE  k - 1 \in S
  BY DEF Linked
<1>1. Len(N) \in Nat /\ Len(M) \in Nat /\ 1 .. Len(N) \subseteq 1 .. Len(M)
  OBVIOUS
<1>2. ClosedIn(N, S)
  BY <1>1 DEF ClosedIn
<1>3. CASE M[k].type = "access"
  BY <1>3 DEF ClosedIn
<1>4. CASE k <= Len(N) /\ N[k].element
  BY <1>1, <1>2, <1>4 DEF Linked
<1>5. CASE \E e \in 1 .. Len(N) : N[e].element /\ Compared(M, e, k)
  <2>1. PICK e \in 1 .. Len(N) : N[e].element /\ Compared(M, e, k)
    BY <1>5
  <2>2. e - 1 \in S
    BY <1>2, <2>1 DEF Linked
  <2> QED BY <2>1, <2>2 DEF Compared, ClosedIn
<1> QED BY <1>3, <1>4, <1>5

LEMMA MarkedIs ==
    ASSUME NEW a \in Node, NEW b \in Node
    PROVE  Marked(a, b) <=>
              /\ a.op = b.op /\ a.name = b.name /\ a.type = b.type /\ a.isVar = b.isVar
              /\ a.const = b.const /\ a.value = b.value /\ a.operandIds = b.operandIds
              /\ a.leftVars = b.leftVars /\ a.rightVars = b.rightVars
              /\ a.global = b.global /\ a.local = b.local
              /\ a.arrSizeMinusOneId = b.arrSizeMinusOneId /\ a.boundIds = b.boundIds
              /\ a.element => b.element
BY DEF Marked, Node

LEMMA AddsTransitive ==
    ASSUME NEW th, NEW new, NEW more, th.nodes \in Seq(Node), new.nodes \in Seq(Node),
           more.nodes \in Seq(Node), Adds(th, new), Adds(new, more)
    PROVE  Adds(th, more)
<1> DEFINE N == th.nodes
           M == new.nodes
           K == more.nodes
<1>1. Len(N) \in Nat /\ Len(M) \in Nat /\ Len(K) \in Nat /\ Len(N) <= Len(M) /\ Len(M) <= Len(K)
      /\ (\A k \in 1 .. Len(N) : N[k] \in Node) /\ (\A k \in 1 .. Len(M) : M[k] \in Node)
      /\ (\A k \in 1 .. Len(K) : K[k] \in Node)
  BY DEF Adds
<1>2. TermFrame(th, more)
  BY DEF Adds, TermFrame, Frame
<1>3. (\A k \in 1 .. Len(N) : Marked(N[k], M[k])) /\ (\A k \in 1 .. Len(M) : Marked(M[k], K[k]))
      /\ (\A k \in Len(N) + 1 .. Len(M) : Made(M[k])) /\ (\A k \in Len(M) + 1 .. Len(K) : Made(K[k]))
  BY DEF Adds
<1> HIDE DEF N, M, K
<1>4. \A k \in 1 .. Len(N) : Marked(N[k], K[k])
  <2> SUFFICES ASSUME NEW k \in 1 .. Len(N)
               PROVE  Marked(N[k], K[k])
    OBVIOUS
  <2>1. k \in 1 .. Len(M) /\ k \in 1 .. Len(K)
    BY <1>1
  <2>2. N[k] \in Node /\ M[k] \in Node /\ K[k] \in Node /\ Marked(N[k], M[k]) /\ Marked(M[k], K[k])
    BY <1>1, <1>3, <2>1
  <2> QED BY <2>2, MarkedIs
<1>5. \A k \in Len(N) + 1 .. Len(K) : Made(K[k])
  <2> SUFFICES ASSUME NEW k \in Len(N) + 1 .. Len(K), k <= Len(M)
               PROVE  Made(K[k])
    BY <1>1, <1>3
  <2>1. k \in 1 .. Len(M) /\ k \in 1 .. Len(K) /\ k \in Len(N) + 1 .. Len(M)
    BY <1>1
  <2>2. M[k] \in Node /\ K[k] \in Node /\ Marked(M[k], K[k]) /\ Made(M[k])
    BY <1>1, <1>3, <2>1
  <2> QED BY <2>2, MarkedIs DEF Made, Shape, Worded
<1>6. Linked(N) => Linked(K)
  BY DEF Adds, N, M, K
<1> QED BY <1>1, <1>2, <1>4, <1>5, <1>6 DEF Adds, N, M, K

LEMMA AddsField ==
    ASSUME NEW th, NEW new, th.nodes \in Seq(Node), new.nodes = th.nodes, TermFrame(th, new)
    PROVE  Adds(th, new)
<1>1. \A k \in 1 .. Len(th.nodes) : th.nodes[k] \in Node
  OBVIOUS
<1>2. \A k \in 1 .. Len(th.nodes) : Marked(th.nodes[k], new.nodes[k])
  BY <1>1, MarkedIs
<1>3. Len(th.nodes) \in Nat
  OBVIOUS
<1> QED BY <1>2, <1>3 DEF Adds

LEMMA AddsNode ==
    ASSUME NEW th, IsTheory(th), NEW n \in Node, Made(n), Plain(n)
    PROVE  Adds(th, makeNode(th, n))
<1> DEFINE new == makeNode(th, n)
<1>1. TermFrame(th, new) /\ new.nodes = Append(th.nodes, n) /\ th.nodes \in Seq(Node)
  BY DEF makeNode, IsTheory, Frame, TermFrame
<1> HIDE DEF new
<1>2. /\ Len(th.nodes) \in Nat /\ Len(new.nodes) = Len(th.nodes) + 1
      /\ \A k \in 1 .. Len(th.nodes) : new.nodes[k] = th.nodes[k] /\ th.nodes[k] \in Node
      /\ new.nodes[Len(th.nodes) + 1] = n
  BY <1>1
<1>3. \A k \in 1 .. Len(th.nodes) : Marked(th.nodes[k], new.nodes[k])
  BY <1>2, MarkedIs
<1>4. Linked(th.nodes) => Linked(new.nodes)
  <2>1. new.nodes \in Seq(Node)
    BY <1>1
  <2>2. \A k \in 1 .. Len(new.nodes) : new.nodes[k].element =>
           new.nodes[k].type = "access" \/ (k <= Len(th.nodes) /\ th.nodes[k].element)
    <3>1. \A k \in 1 .. Len(new.nodes) : k \in 1 .. Len(th.nodes) \/ k = Len(th.nodes) + 1
      BY <1>2
    <3> QED BY <1>2, <3>1 DEF Plain
  <2> DEFINE N == th.nodes
             M == new.nodes
  <2>3. N \in Seq(Node) /\ M \in Seq(Node) /\ Len(N) <= Len(M)
        /\ \A k \in 1 .. Len(N) : M[k].type = N[k].type /\ M[k].operandIds = N[k].operandIds
    BY <1>1, <1>2, <2>1
  <2>4. \A k \in 1 .. Len(M) : M[k].element =>
           \/ M[k].type = "access" \/ (k <= Len(N) /\ N[k].element)
           \/ \E e \in 1 .. Len(N) : N[e].element /\ Compared(M, e, k)
    BY <2>2
  <2> HIDE DEF N, M
  <2>6. Linked(N) => Linked(M)
    BY <2>3, <2>4, LinkedStays
  <2> QED BY <2>6 DEF N, M
<1> QED BY <1>1, <1>2, <1>3, <1>4 DEF Adds, new

LEMMA AddsElement ==
    ASSUME NEW th, IsTheory(th), NEW id \in Ids(th),
           NEW e \in 1 .. Len(th.nodes), th.nodes[e].element, Compared(th.nodes, e, id + 1)
    PROVE  Adds(th, setElement(th, id))
<1> DEFINE N == th.nodes
           n == N[id + 1]
           m == [n EXCEPT !.element = TRUE]
           M == [N EXCEPT ![id + 1] = m]
           new == setElement(th, id)
<1>1. N \in Seq(Node) /\ Len(N) \in Nat /\ id + 1 \in 1 .. Len(N)
  BY DEF IsTheory, Ids
<1>2. TermFrame(th, new) /\ new.nodes = M
  BY DEF setElement, IsTheory, Frame, TermFrame
<1>3. \A k \in 1 .. Len(N) : N[k] \in Node
  BY <1>1
<1>4. m \in Node /\ Marked(n, m)
  <2>1. n \in Node
    BY <1>1, <1>3
  <2> HIDE DEF n
  <2>2. m \in Node
    BY <2>1 DEF Node
  <2> QED BY <2>1, <2>2 DEF Marked, Node
<1> HIDE DEF m
<1>5. Len(M) = Len(N) /\ (\A k \in 1 .. Len(N) : M[k] = IF k = id + 1 THEN m ELSE N[k]) /\ M \in Seq(Node)
  BY <1>1, <1>4
<1>8. N[e].element /\ Compared(N, e, id + 1) /\ e \in 1 .. Len(N)
  OBVIOUS
<1> HIDE DEF M, new, N
<1>6. \A k \in 1 .. Len(N) : Marked(N[k], M[k])
  BY <1>1, <1>3, <1>4, <1>5, MarkedIs DEF n
<1>7. Linked(N) => Linked(M)
  <2>1. \A k \in 1 .. Len(N) : M[k].type = N[k].type /\ M[k].operandIds = N[k].operandIds /\ M[k] \in Node
                                /\ (M[k].element => k = id + 1 \/ N[k].element)
    BY <1>1, <1>3, <1>4, <1>5, <1>6, MarkedIs DEF n
  <2>2. PICK r \in 1 .. Len(N) :
           /\ N[r].type = "binary-relational"
           /\ \E i, j \in DOMAIN N[r].operandIds :
                 N[r].operandIds[i] = e - 1 /\ N[r].operandIds[j] = (id + 1) - 1
    BY <1>8 DEF Compared
  <2>3. M[r].type = N[r].type /\ M[r].operandIds = N[r].operandIds /\ r \in 1 .. Len(M)
    BY <1>5, <2>1
  <2>4. Compared(M, e, id + 1)
    BY <2>2, <2>3 DEF Compared
  <2> QED BY <1>1, <1>5, <1>8, <2>1, <2>4, LinkedStays
<1> QED BY <1>1, <1>2, <1>5, <1>6, <1>7 DEF Adds, new, N

LEMMA ShapedByAdds ==
    ASSUME NEW th, NEW new, th.nodes \in Seq(Node), new.nodes \in Seq(Node), Adds(th, new), Shaped(th)
    PROVE  Shaped(new)
<1> SUFFICES ASSUME NEW k \in 1 .. Len(new.nodes)
             PROVE  Shape(new.nodes[k]) /\ Own(new.nodes[k], k - 1)
  BY DEF Shaped, Adds
<1>1. Len(th.nodes) \in Nat /\ Len(new.nodes) \in Nat
  OBVIOUS
<1>2. CASE k \in 1 .. Len(th.nodes)
  <2>1. th.nodes[k] \in Node /\ new.nodes[k] \in Node /\ Shape(th.nodes[k]) /\ Own(th.nodes[k], k - 1)
        /\ Marked(th.nodes[k], new.nodes[k])
    BY <1>2 DEF Shaped, Adds
  <2>2. LET a == th.nodes[k]
            b == new.nodes[k]
        IN  /\ a.type = b.type /\ a.isVar = b.isVar /\ a.global = b.global /\ a.operandIds = b.operandIds
            /\ a.leftVars = b.leftVars /\ a.rightVars = b.rightVars /\ a.op = b.op /\ (a.element => b.element)
    BY <2>1, MarkedIs
  <2>3. Shape(new.nodes[k])
    BY <2>1, <2>2 DEF Shape, Worded
  <2> QED BY <2>1, <2>2, <2>3 DEF Own
<1>3. CASE k \notin 1 .. Len(th.nodes)
  BY <1>1, <1>3 DEF Adds, Made, Own
<1> QED BY <1>2, <1>3

LEMMA PlainShape ==
    ASSUME NEW op \in NodeOps, NEW type \in NodeTypes, type \notin Unary \cup {"literal", "access"}
    PROVE  Made(VocabNode(op, type)) /\ Plain(VocabNode(op, type))
<1>1. LET n == VocabNode(op, type)
      IN  n.type = type /\ n.operandIds = <<>> /\ ~ n.global /\ ~ n.isVar /\ ~ n.element
  BY VocabNodeIsNode, VocabNodeIsFresh
<1> QED BY <1>1 DEF Made, Plain, Shape, Worded, Unary

LEMMA TrueAdds ==
    ASSUME NEW th, Good(th)
    PROVE  Adds(th, handleTrue(th).th) /\ Adds(th, handleFalse(th).th)
<1>1. IsTheory(th) /\ th.nodes \in Seq(Node)
  BY DEF Good, IsTheory
<1>2. ASSUME NEW op \in {"true", "false"}
      PROVE  LET n == [VocabNode(op, "bliteral") EXCEPT !.const = TRUE, !.value = 1]
             IN  n \in Node /\ Made(n) /\ Plain(n)
  <2>1. op \in NodeOps /\ "bliteral" \in NodeTypes /\ "bliteral" \notin Unary \cup {"literal", "access"}
    BY NodeWords DEF Unary
  <2>2. VocabNode(op, "bliteral") \in Node /\ Made(VocabNode(op, "bliteral")) /\ Plain(VocabNode(op, "bliteral"))
    BY <2>1, PlainShape, VocabNodeIsNode
  <2>3. ASSUME NEW n \in Node, Made(n), Plain(n)
        PROVE  LET p == [n EXCEPT !.const = TRUE, !.value = 1]
               IN  p \in Node /\ Made(p) /\ Plain(p)
    <3> DEFINE p == [n EXCEPT !.const = TRUE, !.value = 1]
    <3>1. p \in Node /\ p.isVar = n.isVar /\ p.global = n.global /\ p.type = n.type
          /\ p.operandIds = n.operandIds /\ p.op = n.op /\ p.element = n.element
      <4>1. ASSUME NEW x \in Int
            PROVE  LET q == [n EXCEPT !.const = TRUE, !.value = x]
                   IN  q \in Node /\ q.isVar = n.isVar /\ q.global = n.global /\ q.type = n.type
                       /\ q.operandIds = n.operandIds /\ q.op = n.op /\ q.element = n.element
        BY DEF Node
      <4>2. 1 \in Int
        OBVIOUS
      <4> QED BY <4>1, <4>2
    <3> HIDE DEF p
    <3>2. Made(p) /\ Plain(p)
      BY <2>3, <3>1 DEF Made, Plain, Shape, Worded
    <3> QED BY <3>1, <3>2 DEF p
  <2> QED BY <2>2, <2>3
<1>3. ASSUME NEW n \in Node, Made(n), Plain(n), NEW x
      PROVE  /\ th.trueId = NoId => Adds(th, [makeNode(th, n) EXCEPT !.trueId = x])
             /\ Adds(th, [makeNode(th, n) EXCEPT !.falseId = x])
  <2> DEFINE mid == makeNode(th, n)
  <2>1. Adds(th, mid) /\ mid.nodes \in Seq(Node)
    <3>1. Append(th.nodes, n) \in Seq(Node) /\ mid.nodes = Append(th.nodes, n)
      BY <1>1 DEF makeNode, IsTheory
    <3> QED BY <1>1, <1>3, <3>1, AddsNode
  <2>2. /\ TermFrame(mid, [mid EXCEPT !.falseId = x]) /\ [mid EXCEPT !.falseId = x].nodes = mid.nodes
        /\ th.trueId = NoId => TermFrame(mid, [mid EXCEPT !.trueId = x])
        /\ [mid EXCEPT !.trueId = x].nodes = mid.nodes
    BY <1>1 DEF makeNode, IsTheory, Frame, TermFrame
  <2> HIDE DEF mid
  <2>3. /\ Adds(mid, [mid EXCEPT !.falseId = x])
        /\ th.trueId = NoId => Adds(mid, [mid EXCEPT !.trueId = x])
    BY <2>1, <2>2, AddsField
  <2> QED BY <1>1, <2>1, <2>2, <2>3, AddsTransitive DEF mid
<1>4. Adds(th, th)
  BY <1>1, AddsField DEF TermFrame, Frame
<1> QED BY <1>2, <1>3, <1>4 DEF handleTrue, handleFalse

LEMMA ShareAdds ==
    ASSUME NEW th, Good(th), NEW t1 \in Ids(th), NEW t2 \in Ids(th), Compared(th.nodes, t1 + 1, t2 + 1)
    PROVE  Adds(th, ShareElement(th, t1, t2))
<1>1. IsTheory(th) /\ th.nodes \in Seq(Node)
  BY DEF Good, IsTheory
<1>2. Adds(th, th)
  BY <1>1, AddsField DEF TermFrame, Frame
<1>3. t1 + 1 \in 1 .. Len(th.nodes) /\ t2 + 1 \in 1 .. Len(th.nodes) /\ Compared(th.nodes, t2 + 1, t1 + 1)
  BY <1>1 DEF Compared, Ids
<1> QED BY <1>1, <1>2, <1>3, AddsElement DEF ShareElement, getNode

LEMMA RelationalAdds ==
    ASSUME NEW th, Good(th), NEW op \in NodeOps, NEW t1 \in Ids(th), NEW t2 \in Ids(th)
    PROVE  Adds(th, handleTermRelationalTerm(th, op, t1, t2).th)
<1> DEFINE node == VocabNode(op, "binary-relational")
           full == [node EXCEPT !.operandIds = Ordered(op = "=", t1, t2)]
           mid == makeNode(th, propagateIsGlobal(th, full, {t1, t2}))
           left == makeNode(th, node)
           new == handleTermRelationalTerm(th, op, t1, t2).th
<1>0. t1 \in Nat /\ t2 \in Nat /\ "binary-relational" \in NodeTypes /\ IsTheory(th) /\ th.nodes \in Seq(Node)
  BY NodesOf, NodeWords DEF Good
<1>1. node \in Node /\ ~ node.isVar /\ node.operandIds = <<>>
  BY <1>0, VocabNodeIsNode
<1>2. full \in Node /\ ~ full.isVar /\ \A i \in DOMAIN full.operandIds : full.operandIds[i] \in {t1, t2}
  BY <1>0, BinaryNode
<1>3. Made(node) /\ Plain(node)
  BY <1>0, PlainShape DEF Unary
<1>4. LET n == propagateIsGlobal(th, full, {t1, t2})
      IN  /\ n \in Node /\ Made(n) /\ Plain(n) /\ n.type = "binary-relational"
          /\ \E i, j \in DOMAIN n.operandIds : n.operandIds[i] = t1 /\ n.operandIds[j] = t2
  <2>1. full.type = "binary-relational" /\ Len(full.operandIds) = 2 /\ ~ full.isVar /\ ~ full.element
        /\ \E i, j \in DOMAIN full.operandIds : full.operandIds[i] = t1 /\ full.operandIds[j] = t2
    <3>1. LET o == Ordered(op = "=", t1, t2)
          IN  Len(o) = 2 /\ 1 \in DOMAIN o /\ 2 \in DOMAIN o
              /\ ((o[1] = t1 /\ o[2] = t2) \/ (o[2] = t1 /\ o[1] = t2))
      BY DEF Ordered
    <3>2. full.type = "binary-relational" /\ ~ full.isVar /\ ~ full.element
          /\ full.operandIds = Ordered(op = "=", t1, t2)
      BY <1>0, <1>1, <1>2 DEF VocabNode
    <3> QED BY <3>1, <3>2
  <2> HIDE DEF full
  <2>2. LET n == propagateIsGlobal(th, full, {t1, t2})
        IN  n \in Node /\ n.type = full.type /\ n.isVar = full.isVar /\ n.operandIds = full.operandIds
            /\ n.element = full.element
    BY <1>2 DEF propagateIsGlobal, Node
  <2> QED BY <2>1, <2>2 DEF Made, Plain, Shape, Worded, Binary, Unary
<1>5. Good(left) /\ left.nodes \in Seq(Node) /\ Adds(th, left)
  BY <1>0, <1>1, <1>3, ExtendsByNode, AddsNode, NodesOf DEF Extends
<1>6. Good(mid) /\ mid.nodes \in Seq(Node) /\ Adds(th, mid) /\ t1 \in Ids(mid) /\ t2 \in Ids(mid)
      /\ Compared(mid.nodes, t1 + 1, t2 + 1)
  <2>1. Yields(th, [th |-> mid, id |-> NextId(th)]) /\ Good(mid)
    BY <1>2, YieldsNode
  <2>2. t1 \in Ids(mid) /\ t2 \in Ids(mid)
    BY <2>1, IdsKept DEF Yields
  <2>3. Adds(th, mid)
    BY <1>0, <1>4, AddsNode
  <2>4. Compared(mid.nodes, t1 + 1, t2 + 1)
    <3> DEFINE n == propagateIsGlobal(th, full, {t1, t2})
    <3>1. n \in Node /\ n.type = "binary-relational" /\ (t1 + 1) - 1 = t1 /\ (t2 + 1) - 1 = t2
          /\ \E i, j \in DOMAIN n.operandIds : n.operandIds[i] = t1 /\ n.operandIds[j] = t2
      <4>1. (t1 + 1) - 1 = t1 /\ (t2 + 1) - 1 = t2
        BY <1>0
      <4> QED BY <1>4, <4>1
    <3>2. mid.nodes = Append(th.nodes, n)
      BY <1>0 DEF makeNode, IsTheory
    <3> HIDE DEF n, mid
    <3>3. Len(mid.nodes) \in 1 .. Len(mid.nodes) /\ mid.nodes[Len(mid.nodes)] = n
      BY <1>0, <3>1, <3>2
    <3> QED BY <3>1, <3>3 DEF Compared
  <2> QED BY <2>1, <2>2, <2>3, <2>4, NodesOf
<1>7. new = IF op \in {"=", "<="} /\ t1 = t2 THEN handleTrue(left).th ELSE ShareElement(mid, t1, t2)
  BY DEF handleTermRelationalTerm
<1>8. Yields(th, handleTermRelationalTerm(th, op, t1, t2))
  BY RelationalYields
<1>9. new.nodes \in Seq(Node)
  BY <1>8, NodesOf DEF Yields, Extends
<1> HIDE DEF left, mid, new
<1>10. CASE op \in {"=", "<="} /\ t1 = t2
  <2>1. Adds(left, new)
    BY <1>5, <1>7, <1>10, TrueAdds
  <2> QED BY <1>0, <1>5, <1>9, <2>1, AddsTransitive DEF new
<1>11. CASE ~ (op \in {"=", "<="} /\ t1 = t2)
  <2>1. Adds(mid, new)
    BY <1>6, <1>7, <1>11, ShareAdds
  <2> QED BY <1>0, <1>6, <1>9, <2>1, AddsTransitive DEF new
<1> QED BY <1>10, <1>11

LEMMA ComposedAdds ==
    ASSUME NEW th, Good(th), NEW op \in NodeOps, NEW t1 \in Ids(th), NEW t2 \in Ids(th)
    PROVE  /\ Adds(th, handleTermArithTerm(th, op, t1, t2).th)
           /\ Adds(th, handleBEBoolBE(th, op, t1, t2).th)
           /\ Adds(th, handleNot(th, t1).th)
           /\ Adds(th, handleUnaryMinus(th, t1).th)
<1>1. IsTheory(th) /\ th.nodes \in Seq(Node) /\ t1 \in Nat /\ t2 \in Nat
      /\ getNode(th, t1) \in Node /\ getNode(th, t2) \in Node
  BY NodesOf DEF Good
<1>2. ASSUME NEW v \in Node, v.type \in Binary \cup Unary, ~ v.isVar, NEW s \in Seq(Nat), NEW ids,
             v.type \in Binary => Len(s) = 2, v.type \in Unary => Len(s) = 1, Worded(v), ~ v.element
      PROVE  Adds(th, makeNode(th, propagateIsGlobal(th, [v EXCEPT !.operandIds = s], ids)))
  <2> DEFINE n == [v EXCEPT !.operandIds = s]
             m == propagateIsGlobal(th, n, ids)
  <2>1. n \in Node /\ n.type = v.type /\ ~ n.isVar /\ n.operandIds = s /\ n.op = v.op /\ ~ n.element
    BY <1>2 DEF Node
  <2> HIDE DEF n
  <2>2. m \in Node /\ m.type = v.type /\ ~ m.isVar /\ m.operandIds = s /\ m.op = v.op /\ ~ m.element
    BY <2>1 DEF propagateIsGlobal, Node
  <2> HIDE DEF m
  <2>3. Made(m) /\ Plain(m)
    BY <1>2, <2>2 DEF Made, Plain, Shape, Worded, Binary, Unary
  <2> QED BY <1>1, <2>2, <2>3, AddsNode DEF m, n
<1>3. ASSUME NEW o \in NodeOps, NEW type \in NodeTypes
      PROVE  /\ VocabNode(o, type) \in Node /\ VocabNode(o, type).type = type /\ ~ VocabNode(o, type).isVar
             /\ VocabNode(o, type).op = o /\ ~ VocabNode(o, type).element
  BY VocabNodeIsNode, VocabNodeIsFresh DEF VocabNode
<1>4. <<t1>> \in Seq(Nat) /\ <<t1, t2>> \in Seq(Nat) /\ \A c : Ordered(c, t1, t2) \in Seq(Nat)
      /\ Len(<<t1>>) = 1 /\ Len(<<t1, t2>>) = 2 /\ \A d : Len(Ordered(d, t1, t2)) = 2
  BY <1>1 DEF Ordered
<1>5. {"not", "-"} \subseteq NodeOps /\ Unary \cup Binary \subseteq NodeTypes
  BY NodeWords DEF Unary, Binary
<1>6. Adds(th, handleTermArithTerm(th, op, t1, t2).th)
  <2> DEFINE u == VocabNode(op, "binary-arithmetic")
             l == getNode(th, t1).leftVars
             r == getNode(th, t2).rightVars
             c == op \in {"+", "*"}
             v == [u EXCEPT !.leftVars = l, !.rightVars = r]
             n == [u EXCEPT !.operandIds = Ordered(c, t1, t2), !.leftVars = l, !.rightVars = r]
  <2>1. l \in Seq(Nat) /\ r \in Seq(Nat)
    BY <1>1 DEF Node
  <2>2. "binary-arithmetic" \in Binary /\ "binary-arithmetic" \notin Unary
    BY DEF Binary, Unary
  <2>3. u \in Node /\ u.type = "binary-arithmetic" /\ ~ u.isVar /\ ~ u.element
    BY <1>3, <1>5, <2>2
  <2> HIDE DEF u, l, r, c
  <2>4. v \in Node /\ v.type = "binary-arithmetic" /\ ~ v.isVar /\ Worded(v) /\ ~ v.element
    BY <2>1, <2>3 DEF Node, Worded
  <2>5. n = [v EXCEPT !.operandIds = Ordered(c, t1, t2)]
    BY <2>3 DEF Node
  <2>7. handleTermArithTerm(th, op, t1, t2).th = makeNode(th, propagateIsGlobal(th, n, {t1, t2}))
    BY DEF handleTermArithTerm, u, l, r, c
  <2> HIDE DEF v, n
  <2> DEFINE s == Ordered(c, t1, t2)
  <2>6. s \in Seq(Nat) /\ Len(s) = 2
    BY <1>4
  <2> HIDE DEF s
  <2>8. Adds(th, makeNode(th, propagateIsGlobal(th, [v EXCEPT !.operandIds = s], {t1, t2})))
    BY <1>2, <2>2, <2>4, <2>6
  <2> QED BY <2>5, <2>7, <2>8 DEF s
<1>7. Adds(th, handleBEBoolBE(th, op, t1, t2).th)
  <2>2. "binary-boolean" \in Binary /\ "binary-boolean" \notin Unary
    BY DEF Binary, Unary
  <2> DEFINE s == <<t1, t2>>
  <2>3. s \in Seq(Nat) /\ Len(s) = 2
    BY <1>4
  <2>4. handleBEBoolBE(th, op, t1, t2).th =
           makeNode(th, propagateIsGlobal(th, [VocabNode(op, "binary-boolean") EXCEPT !.operandIds = s], {t1, t2}))
    BY DEF handleBEBoolBE
  <2> HIDE DEF s
  <2> DEFINE v == VocabNode(op, "binary-boolean")
  <2>5. v \in Node /\ v.type = "binary-boolean" /\ ~ v.isVar /\ Worded(v) /\ ~ v.element
    BY <1>3, <1>5, <2>2 DEF Worded
  <2> HIDE DEF v
  <2>6. Adds(th, makeNode(th, propagateIsGlobal(th, [v EXCEPT !.operandIds = s], {t1, t2})))
    BY <1>2, <2>2, <2>3, <2>5
  <2> QED BY <2>4, <2>6 DEF v
<1>8. Adds(th, handleNot(th, t1).th)
  <2>2. "unary-boolean" \in Unary /\ "unary-boolean" \notin Binary
    BY DEF Binary, Unary
  <2> DEFINE s == <<t1>>
  <2>3. s \in Seq(Nat) /\ Len(s) = 1
    BY <1>4
  <2>4. handleNot(th, t1).th =
           makeNode(th, propagateIsGlobal(th, [VocabNode("not", "unary-boolean") EXCEPT !.operandIds = s], {t1}))
    BY DEF handleNot
  <2> HIDE DEF s
  <2> DEFINE v == VocabNode("not", "unary-boolean")
  <2>5. v \in Node /\ v.type = "unary-boolean" /\ ~ v.isVar /\ Worded(v) /\ ~ v.element
    BY <1>3, <1>5, <2>2 DEF Worded
  <2> HIDE DEF v
  <2>6. Adds(th, makeNode(th, propagateIsGlobal(th, [v EXCEPT !.operandIds = s], {t1})))
    BY <1>2, <2>2, <2>3, <2>5
  <2> QED BY <2>4, <2>6 DEF v
<1>9. Adds(th, handleUnaryMinus(th, t1).th)
  <2>2. "unary-arithmetic" \in Unary /\ "unary-arithmetic" \notin Binary
    BY DEF Binary, Unary
  <2> DEFINE s == <<t1>>
  <2>3. s \in Seq(Nat) /\ Len(s) = 1
    BY <1>4
  <2>4. handleUnaryMinus(th, t1).th =
           makeNode(th, propagateIsGlobal(th, [VocabNode("-", "unary-arithmetic") EXCEPT !.operandIds = s], {t1}))
    BY DEF handleUnaryMinus
  <2> HIDE DEF s
  <2> DEFINE v == VocabNode("-", "unary-arithmetic")
  <2>5. v \in Node /\ v.type = "unary-arithmetic" /\ ~ v.isVar /\ Worded(v) /\ ~ v.element
    BY <1>3, <1>5, <2>2 DEF Worded
  <2> HIDE DEF v
  <2>6. Adds(th, makeNode(th, propagateIsGlobal(th, [v EXCEPT !.operandIds = s], {t1})))
    BY <1>2, <2>2, <2>3, <2>5
  <2> QED BY <2>4, <2>6 DEF v
<1> QED BY <1>6, <1>7, <1>8, <1>9

LEMMA AccessAdds ==
    ASSUME NEW th, Good(th), NEW a \in Ids(th), NEW t \in Ids(th)
    PROVE  Adds(th, handleArrayAccess(th, a, t).th)
<1> DEFINE v == VocabNode("[]", "access")
           n == [v EXCEPT !.element = TRUE, !.operandIds = <<a, t>>, !.leftVars = <<a>>, !.rightVars = <<a>>]
           m == propagateIsGlobal(th, n, {t})
           mid == makeNode(th, m)
           new == handleArrayAccess(th, a, t).th
<1>1. IsTheory(th) /\ th.nodes \in Seq(Node) /\ a \in Nat /\ t \in Nat
  BY NodesOf DEF Good
<1>2. v \in Node /\ v.type = "access" /\ ~ v.isVar /\ v.op = "[]"
  BY VocabNodeIsNode, VocabNodeIsFresh, NodeWords DEF VocabNode
<1> HIDE DEF v
<1>3. n \in Node /\ n.type = "access" /\ ~ n.isVar /\ n.op = "[]" /\ n.operandIds = <<a, t>> /\ n.element
  <2>1. <<a, t>> \in Seq(Nat) /\ <<a>> \in Seq(Nat)
    BY <1>1
  <2> QED BY <1>2, <2>1 DEF Node
<1> HIDE DEF n
<1>4. m \in Node /\ m.type = "access" /\ ~ m.isVar /\ m.op = "[]" /\ m.operandIds = <<a, t>> /\ m.element
  BY <1>3 DEF propagateIsGlobal, Node
<1> HIDE DEF m
<1>5. Made(m) /\ Plain(m)
  BY <1>4 DEF Made, Plain, Shape, Worded, Binary, Unary
<1>6. Adds(th, mid) /\ mid.nodes \in Seq(Node)
  <2>1. Append(th.nodes, m) \in Seq(Node) /\ mid.nodes = Append(th.nodes, m)
    BY <1>1, <1>4 DEF makeNode, IsTheory
  <2> QED BY <1>1, <1>4, <1>5, <2>1, AddsNode
<1>7. new.nodes = mid.nodes /\ TermFrame(mid, new)
  BY <1>1 DEF handleArrayAccess, m, n, v, makeNode, IsTheory, TermFrame, Frame
<1> HIDE DEF mid, new
<1> QED BY <1>1, <1>6, <1>7, AddsField, AddsTransitive DEF new

-----------------------------------------------------------------------------
(* Declarations and rules                                                  *)

Keeps(th, new) == Frame(th, new) /\ (Shaped(th) => Shaped(new))

LEMMA KeepsTransitive ==
    ASSUME NEW th, NEW new, NEW more, Keeps(th, new), Keeps(new, more)
    PROVE  Keeps(th, more)
BY DEF Keeps, Frame

LEMMA KeepsByAdds ==
    ASSUME NEW th, NEW new, Good(th), Good(new), Adds(th, new)
    PROVE  Keeps(th, new)
BY NodesOf, ShapedByAdds DEF Keeps, Adds, TermFrame

LEMMA ShapedByAppend ==
    ASSUME NEW th, th.nodes \in Seq(Node), NEW n \in Node, Shape(n), Own(n, NextId(th)), Plain(n),
           NEW new, new.nodes = Append(th.nodes, n), Shaped(th)
    PROVE  Shaped(new)
<1>1. Len(new.nodes) = Len(th.nodes) + 1 /\ Len(th.nodes) \in Nat
      /\ new.nodes[Len(th.nodes) + 1] = n /\ \A k \in 1 .. Len(th.nodes) : new.nodes[k] = th.nodes[k]
  OBVIOUS
<1>2. \A k \in 1 .. Len(new.nodes) : k \in 1 .. Len(th.nodes) \/ k = Len(th.nodes) + 1
  BY <1>1
<1>3. (Len(th.nodes) + 1) - 1 = NextId(th)
  BY <1>1 DEF NextId
<1>4. Linked(new.nodes)
  <2> DEFINE N == th.nodes
             M == new.nodes
  <2>1. N \in Seq(Node) /\ M \in Seq(Node) /\ Len(N) <= Len(M) /\ Linked(N)
        /\ \A k \in 1 .. Len(N) : M[k].type = N[k].type /\ M[k].operandIds = N[k].operandIds
    BY <1>1 DEF Shaped
  <2>2. \A k \in 1 .. Len(M) : M[k].element =>
           \/ M[k].type = "access" \/ (k <= Len(N) /\ N[k].element)
           \/ \E e \in 1 .. Len(N) : N[e].element /\ Compared(M, e, k)
    BY <1>1, <1>2 DEF Plain
  <2> HIDE DEF N, M
  <2>3. Linked(M)
    BY <2>1, <2>2, LinkedStays
  <2> QED BY <2>3 DEF M
<1> QED BY <1>1, <1>2, <1>3, <1>4 DEF Shaped

LEMMA ShapedByUpdate ==
    ASSUME NEW th, th.nodes \in Seq(Node), NEW id \in Ids(th), NEW m \in Node,
           Shape(getNode(th, id)) => Shape(m), Own(getNode(th, id), id) => Own(m, id),
           m.type = getNode(th, id).type, m.operandIds = getNode(th, id).operandIds,
           m.element = getNode(th, id).element,
           NEW new, new.nodes = [th.nodes EXCEPT ![id + 1] = m], Shaped(th)
    PROVE  Shaped(new)
<1>1. id + 1 \in 1 .. Len(th.nodes) /\ Len(new.nodes) = Len(th.nodes)
      /\ \A k \in 1 .. Len(th.nodes) : new.nodes[k] = IF k = id + 1 THEN m ELSE th.nodes[k]
  BY DEF Ids
<1>2. (id + 1) - 1 = id
  BY DEF Ids
<1>3. Shape(m) /\ Own(m, id)
  BY <1>1, <1>2 DEF Shaped, getNode
<1>4. Linked(new.nodes)
  <2> DEFINE N == th.nodes
             M == new.nodes
  <2>1. N \in Seq(Node) /\ M \in Seq(Node) /\ Len(N) <= Len(M) /\ Linked(N)
        /\ \A k \in 1 .. Len(N) : M[k].type = N[k].type /\ M[k].operandIds = N[k].operandIds
    BY <1>1 DEF Shaped, getNode
  <2>2. \A k \in 1 .. Len(M) : k <= Len(N) /\ (M[k].element => N[k].element)
    BY <1>1 DEF getNode
  <2> HIDE DEF N, M
  <2>3. Linked(M)
    BY <2>1, <2>2, LinkedStays
  <2> QED BY <2>3 DEF M
<1> QED BY <1>1, <1>2, <1>3, <1>4 DEF Shaped

LEMMA DeclareVarKeeps ==
    ASSUME NEW th, Good(th), NEW name \in Seq(Word), NEW type \in DeclaredTypes, NEW mode
    PROVE  Keeps(th, DeclareVar(th, name, type, mode))
<1> DEFINE id == NextId(th)
           v == VocabNode("", type)
           c == mode = "const"
           g == mode = "global"
           l == mode = "local"
           n == [v EXCEPT !.name = name, !.isVar = TRUE, !.const = c, !.global = g, !.local = l]
           m == [n EXCEPT !.leftVars = <<id>>, !.rightVars = <<id>>]
           new == DeclareVar(th, name, type, mode)
<1>1. IsTheory(th) /\ th.nodes \in Seq(Node) /\ id \in Nat
  BY NodesOf DEF Good, NextId
<1>2. type \in NodeTypes /\ v \in Node /\ v.operandIds = <<>> /\ v.type = type /\ ~ v.element
  <2>1. type \in NodeTypes /\ "" \in NodeOps
    BY NodeWords
  <2> QED BY <2>1, VocabNodeIsNode, VocabNodeIsFresh
<1>3. Frame(th, new) /\ new.nodes = Append(th.nodes, m)
  BY <1>1 DEF DeclareVar, VarNode, makeNode, IsTheory, Frame
<1> HIDE DEF id, new, v
<1>4. m \in Node /\ m.isVar /\ m.operandIds = <<>> /\ m.type = type /\ ~ m.element
      /\ m.leftVars = <<id>> /\ m.rightVars = <<id>>
  <2>1. n \in Node /\ n.isVar /\ n.operandIds = <<>> /\ n.type = type /\ ~ n.element
    BY <1>2 DEF Node
  <2> HIDE DEF n
  <2>2. <<id>> \in Seq(Nat)
    BY <1>1
  <2> QED BY <2>1, <2>2 DEF Node
<1> HIDE DEF m
<1>5. Shape(m)
  <2>1. type \notin Unary
    BY DEF DeclaredTypes, Unary
  <2>2. type # "access"
    BY DEF DeclaredTypes
  <2> QED BY <1>4, <2>1, <2>2 DEF Shape, Worded, Unary
<1>6. Own(m, NextId(th)) /\ Plain(m)
  BY <1>4 DEF Own, Plain, id
<1> QED BY <1>1, <1>3, <1>4, <1>5, <1>6, ShapedByAppend DEF Keeps, new

LEMMA DeclareSizeKeeps ==
    ASSUME NEW th, Good(th), NEW id \in Ids(th), NEW name \in Seq(Word)
    PROVE  Keeps(th, DeclareSize(th, id, name))
<1> DEFINE szname == SizeName(name)
           sized == IF szname \in DOMAIN th.var2idMap THEN th
                    ELSE DeclareVar(th, szname, "int", "none")
           new == DeclareSize(th, id, name)
           n == getNode(sized, id)
           x == sized.var2idMap[szname]
           m == [n EXCEPT !.arrSizeMinusOneId = x]
<1>1. szname \in Seq(Word) /\ "int" \in DeclaredTypes /\ "int" \in NodeTypes
  <2>1. "size_minus_1" \in Word /\ "int" \in DeclaredTypes /\ "int" \in NodeTypes
    BY NodeWords DEF Word, DeclaredTypes
  <2> QED BY <2>1 DEF SizeName
<1>7. new = [sized EXCEPT !.nodes[id + 1].arrSizeMinusOneId = sized.var2idMap[szname]]
  BY DEF DeclareSize
<1> HIDE DEF szname, new
<1>2. Keeps(th, sized) /\ Extends(th, sized) /\ szname \in DOMAIN sized.var2idMap
  <2>1. Keeps(th, th)
    BY DEF Keeps, Frame
  <2>2. CASE szname \in DOMAIN th.var2idMap
    BY <2>1, <2>2, ExtendsReflexive
  <2>3. CASE szname \notin DOMAIN th.var2idMap
    BY <1>1, <2>3, DeclareVarKeeps, DeclareVarExtends
  <2> QED BY <2>2, <2>3
<1> HIDE DEF sized
<1>3. Good(sized) /\ IsTheory(sized) /\ id \in Ids(sized) /\ sized.nodes \in Seq(Node)
  BY <1>2, IdsKept, NodesOf DEF Extends, Good
<1>4. n \in Node /\ n = sized.nodes[id + 1] /\ id + 1 \in DOMAIN sized.nodes
  BY <1>3, NodesOf DEF getNode, Ids
<1>5. x \in Nat
  <2>1. PICK S \in SUBSET Seq(Word) : sized.var2idMap \in [S -> Nat]
    BY <1>3 DEF IsTheory, Maps
  <2> QED BY <1>2, <2>1
<1>6. Frame(sized, new) /\ new.nodes = [sized.nodes EXCEPT ![id + 1] = m]
  BY <1>3, <1>4, <1>7 DEF IsTheory, Frame
<1> HIDE DEF n, x
<1>8. m \in Node /\ (Shape(n) => Shape(m)) /\ (Own(n, id) => Own(m, id))
      /\ m.type = n.type /\ m.operandIds = n.operandIds /\ m.element = n.element
  <2>1. m \in Node /\ m.type = n.type /\ m.isVar = n.isVar /\ m.global = n.global /\ m.operandIds = n.operandIds
        /\ m.element = n.element
        /\ m.leftVars = n.leftVars /\ m.rightVars = n.rightVars /\ m.op = n.op
    BY <1>4, <1>5 DEF Node
  <2> HIDE DEF m
  <2> QED BY <2>1 DEF Shape, Worded, Own
<1> HIDE DEF m
<1>9. Keeps(sized, new)
  BY <1>3, <1>6, <1>8, ShapedByUpdate DEF Keeps, n
<1> QED BY <1>2, <1>9, KeepsTransitive DEF new

LEMMA DeclarationKeeps ==
    ASSUME NEW th, Good(th), NEW name \in Seq(Word), NEW type \in DeclaredTypes, NEW mode
    PROVE  Keeps(th, handleDeclaration(th, name, type, mode).th)
<1> DEFINE declared == DeclareVar(th, name, type, mode)
           new == handleDeclaration(th, name, type, mode).th
<1>1. type \in NodeTypes
  BY NodeWords
<1>2. CASE name \in DOMAIN th.var2idMap
  BY <1>2 DEF handleDeclaration, Keeps, Frame
<1>3. CASE name \notin DOMAIN th.var2idMap
  <2>1. Keeps(th, declared) /\ Extends(th, declared) /\ NextId(th) \in Ids(declared)
    BY <1>1, <1>3, DeclareVarKeeps, DeclareVarExtends
  <2>2. new = IF type \in ArrayTypes THEN DeclareSize(declared, NextId(th), name) ELSE declared
    BY <1>3 DEF handleDeclaration
  <2> HIDE DEF declared, new
  <2>3. Keeps(declared, DeclareSize(declared, NextId(th), name))
    BY <2>1, DeclareSizeKeeps DEF Extends
  <2>4. Keeps(th, new)
    BY <2>1, <2>2, <2>3, KeepsTransitive
  <2> QED BY <2>4 DEF new
<1> QED BY <1>2, <1>3

LEMMA ConstantKeeps ==
    ASSUME NEW th, Good(th), NEW value \in Int
    PROVE  Keeps(th, handleConstantDeclaration(th, value))
<1> DEFINE id == NextId(th)
           v == VocabNode("lit", "literal")
           m == [v EXCEPT !.const = TRUE, !.value = value, !.leftVars = <<id>>, !.rightVars = <<id>>]
           new == handleConstantDeclaration(th, value)
<1>1. IsTheory(th) /\ th.nodes \in Seq(Node) /\ id \in Nat
  BY NodesOf DEF Good, NextId
<1>2. CASE LiteralsOf(th, value) # {}
  BY <1>2 DEF handleConstantDeclaration, Keeps, Frame
<1>3. CASE LiteralsOf(th, value) = {}
  <2>1. Frame(th, new) /\ new.nodes = Append(th.nodes, m)
    BY <1>1, <1>3 DEF handleConstantDeclaration, makeNode, IsTheory, Frame
  <2>2. v \in Node /\ v.operandIds = <<>> /\ v.type = "literal" /\ ~ v.global /\ ~ v.element
    <3>1. "lit" \in NodeOps /\ "literal" \in NodeTypes
      BY NodeWords
    <3> QED BY <3>1, VocabNodeIsNode, VocabNodeIsFresh
  <2> HIDE DEF v, id, new
  <2>3. m \in Node /\ m.operandIds = <<>> /\ m.type = "literal" /\ ~ m.global /\ ~ m.element
        /\ m.leftVars = <<id>> /\ m.rightVars = <<id>>
    <3>1. <<id>> \in Seq(Nat)
      BY <1>1
    <3> QED BY <2>2, <3>1 DEF Node
  <2> HIDE DEF m
  <2>4. Shape(m)
    BY <2>3 DEF Shape, Worded, Unary
  <2>5. Own(m, NextId(th)) /\ Plain(m)
    BY <2>3 DEF Own, Plain, id
  <2> QED BY <1>1, <2>1, <2>3, <2>4, <2>5, ShapedByAppend DEF Keeps, new
<1> QED BY <1>2, <1>3

LEMMA BoundKeeps ==
    ASSUME NEW th, Good(th), NEW a \in Ids(th), NEW id \in Nat
    PROVE  Keeps(th, AddBound(th, a, id))
<1> DEFINE n == getNode(th, a)
           b == Append(n.boundIds, id)
           m == [n EXCEPT !.boundIds = b]
           new == AddBound(th, a, id)
<1>1. IsTheory(th) /\ th.nodes \in Seq(Node) /\ n \in Node /\ n = th.nodes[a + 1] /\ a + 1 \in DOMAIN th.nodes
  BY NodesOf DEF Good, Ids, getNode
<1>2. b \in Seq(Nat)
  <2>1. n.boundIds \in Seq(Nat)
    BY <1>1 DEF Node
  <2> QED BY <2>1
<1>3. Frame(th, new) /\ new.nodes = [th.nodes EXCEPT ![a + 1] = m]
  BY <1>1 DEF AddBound, IsTheory, Frame
<1> HIDE DEF n, b, new
<1>4. m \in Node /\ m.type = n.type /\ m.isVar = n.isVar /\ m.global = n.global /\ m.operandIds = n.operandIds
      /\ m.element = n.element
      /\ m.leftVars = n.leftVars /\ m.rightVars = n.rightVars /\ m.op = n.op
  BY <1>1, <1>2 DEF Node
<1> HIDE DEF m
<1>5. (Shape(n) => Shape(m)) /\ (Own(n, a) => Own(m, a))
  BY <1>4 DEF Shape, Worded, Own
<1> QED BY <1>1, <1>3, <1>4, <1>5, ShapedByUpdate DEF Keeps, n, new

LEMMA RuleKept ==
    ASSUME NEW th, Good(th), NEW a \in Ids(th), NEW id \in Nat, NEW ops
    PROVE  Keeps(th, handleGrammarRule(th, a, id, ops))
<1> DEFINE plain == {<<a, id, op>> : op \in UNION {Expanded(o) : o \in ops}}
           ruled == [th EXCEPT !.rulemap = @ \cup plain]
           once == AddBound(ruled, a, id)
           none == ops \cap {"bound", "index"} = {}
           both == {"bound", "index"} \subseteq ops
<1>1. Extends(th, ruled)
  BY RulesExtend
<1>2. Keeps(th, ruled)
  <2>1. ruled.nodes = th.nodes /\ Frame(th, ruled)
    BY DEF Good, IsTheory, Frame
  <2> HIDE DEF ruled
  <2> QED BY <2>1 DEF Keeps, Shaped
<1>3. handleGrammarRule(th, a, id, ops)
         = IF none THEN ruled ELSE IF both THEN AddBound(once, a, id) ELSE once
  BY DEF handleGrammarRule
<1> HIDE DEF ruled, none, both
<1>4. Good(ruled) /\ a \in Ids(ruled)
  BY <1>1, IdsKept DEF Extends
<1>5. Extends(ruled, once) /\ Keeps(ruled, once)
  BY <1>4, BoundExtends, BoundKeeps
<1> HIDE DEF once
<1>6. Good(once) /\ a \in Ids(once)
  BY <1>4, <1>5, IdsKept DEF Extends
<1>7. Keeps(once, AddBound(once, a, id))
  BY <1>6, BoundKeeps
<1>8. Keeps(th, once) /\ Keeps(th, AddBound(once, a, id))
  BY <1>2, <1>5, <1>7, KeepsTransitive
<1> QED BY <1>2, <1>3, <1>8

LEMMA QuantifierShaped ==
    ASSUME NEW th, Good(th), NEW v \in Ids(th), getNode(th, v).isVar, NEW be \in Ids(th), Shaped(th)
    PROVE  Shaped(handleForall(th, v, be).th) /\ Shaped(handleExists(th, v, be).th)
<1>1. IsTheory(th) /\ th.nodes \in Seq(Node) /\ v \in Nat /\ be \in Nat
  BY NodesOf DEF Good
<1>2. ASSUME NEW op \in {"forall", "exists"}
      PROVE  LET n == [VocabNode(op, "quantifier") EXCEPT !.operandIds = <<v, be>>]
                 mid == makeNode(th, n)
             IN  /\ IsTheory(mid) /\ mid.nodes \in Seq(Node) /\ Shaped(mid)
                 /\ v \in Ids(mid) /\ getNode(mid, v) = getNode(th, v) /\ getNode(th, v) \in Node
  <2> DEFINE n == [VocabNode(op, "quantifier") EXCEPT !.operandIds = <<v, be>>]
             mid == makeNode(th, n)
  <2>1. VocabNode(op, "quantifier") \in Node /\ VocabNode(op, "quantifier").type = "quantifier"
        /\ ~ VocabNode(op, "quantifier").global /\ ~ VocabNode(op, "quantifier").isVar
        /\ ~ VocabNode(op, "quantifier").element
    <3>1. op \in NodeOps /\ "quantifier" \in NodeTypes
      BY NodeWords
    <3> QED BY <3>1, VocabNodeIsNode, VocabNodeIsFresh
  <2>2. n \in Node /\ n.type = "quantifier" /\ ~ n.global /\ ~ n.isVar /\ ~ n.element
    <3>1. <<v, be>> \in Seq(Nat)
      BY <1>1
    <3> QED BY <2>1, <3>1 DEF Node
  <2> HIDE DEF n
  <2>3. Shape(n) /\ Own(n, NextId(th)) /\ Plain(n)
    BY <2>2 DEF Shape, Worded, Binary, Unary, Own, Plain
  <2>4. mid.nodes = Append(th.nodes, n) /\ mid.nodes \in Seq(Node) /\ IsTheory(mid)
    <3>1. Append(th.nodes, n) \in Seq(Node)
      BY <1>1, <2>2
    <3> QED BY <1>1, <3>1 DEF makeNode, IsTheory
  <2> HIDE DEF mid
  <2>5. Shaped(mid)
    BY <1>1, <2>2, <2>3, <2>4, ShapedByAppend
  <2>6. v \in Ids(mid) /\ getNode(mid, v) = getNode(th, v) /\ getNode(th, v) \in Node
    BY <1>1, <2>2, <2>4, NodesOf DEF Ids, getNode
  <2> QED BY <2>4, <2>5, <2>6 DEF mid, n
<1>3. ASSUME NEW mid, IsTheory(mid), mid.nodes \in Seq(Node), Shaped(mid), v \in Ids(mid),
             getNode(mid, v) = getNode(th, v), getNode(th, v) \in Node
      PROVE  /\ Shaped([mid EXCEPT !.nodes[v + 1].global = TRUE])
             /\ Shaped([mid EXCEPT !.nodes[v + 1].local = TRUE])
  <2> DEFINE n == getNode(mid, v)
             g == [n EXCEPT !.global = TRUE]
             l == [n EXCEPT !.local = TRUE]
             gn == [mid EXCEPT !.nodes[v + 1].global = TRUE]
             ln == [mid EXCEPT !.nodes[v + 1].local = TRUE]
  <2>1. v + 1 \in DOMAIN mid.nodes /\ n = mid.nodes[v + 1] /\ n \in Node /\ n.isVar
    BY <1>1, <1>3 DEF Ids, getNode
  <2>2. gn.nodes = [mid.nodes EXCEPT ![v + 1] = g] /\ ln.nodes = [mid.nodes EXCEPT ![v + 1] = l]
    BY <1>3, <2>1 DEF IsTheory
  <2> HIDE DEF n, gn, ln
  <2>3. g \in Node /\ g.isVar /\ g.type = n.type /\ g.operandIds = n.operandIds
        /\ g.leftVars = n.leftVars /\ g.rightVars = n.rightVars
        /\ l.leftVars = n.leftVars /\ l.rightVars = n.rightVars
        /\ l \in Node /\ l.isVar /\ l.type = n.type /\ l.operandIds = n.operandIds
        /\ g.op = n.op /\ l.op = n.op /\ g.element = n.element /\ l.element = n.element
    BY <2>1 DEF Node
  <2> HIDE DEF g, l
  <2>4. (Shape(n) => Shape(g)) /\ (Shape(n) => Shape(l))
    BY <2>3 DEF Shape, Worded
  <2>8. (Own(n, v) => Own(g, v)) /\ (Own(n, v) => Own(l, v))
    BY <2>1, <2>3 DEF Own
  <2>5. n = getNode(mid, v)
    BY DEF n
  <2>6. Shaped(gn)
    BY <1>3, <2>2, <2>3, <2>4, <2>5, <2>8, ShapedByUpdate
  <2>7. Shaped(ln)
    <3>1. /\ l \in Node /\ (Shape(getNode(mid, v)) => Shape(l)) /\ (Own(getNode(mid, v), v) => Own(l, v))
          /\ l.type = getNode(mid, v).type /\ l.operandIds = getNode(mid, v).operandIds
          /\ l.element = getNode(mid, v).element
          /\ ln.nodes = [mid.nodes EXCEPT ![v + 1] = l]
      BY <2>2, <2>3, <2>4, <2>5, <2>8
    <3> QED BY <1>3, <3>1, ShapedByUpdate
  <2> QED BY <2>6, <2>7 DEF gn, ln
<1> QED BY <1>2, <1>3 DEF handleForall, handleExists

-----------------------------------------------------------------------------
(* And what the reader does                                                *)

Settled(th) ==
    /\ Shaped(th)
    /\ th.numClauseOperationBound \in Nat /\ th.numQuantifierBound \in Nat

LEMMA SettledByKeeps ==
    ASSUME NEW th, NEW new, Settled(th), Keeps(th, new)
    PROVE  Settled(new)
BY DEF Settled, Keeps, Frame

(* Nothing has been generated.                                             *)
Unmade(th) == th.generatedVocabIds = <<>> /\ th.quantFreeVocIds = <<>> /\ th.boundTerms = {}

Begun(th) == Settled(th) /\ Unmade(th)

LEMMA BegunByKeeps ==
    ASSUME NEW th, NEW new, Begun(th), Keeps(th, new)
    PROVE  Begun(new)
BY SettledByKeeps DEF Begun, Unmade, Keeps, Frame

LEMMA ItemSettles ==
    ASSUME ReaderInv, Begun(theory),
           declaration \/ constant \/ operations_bound \/ quantifiers_bound \/ wrong_item
    PROVE  Begun(theory')
<1>0. Good(theory) /\ IsTheory(theory) /\ 0 \in Int
  <2>1. 0 \in Int
    OBVIOUS
  <2> QED BY <2>1 DEF ReaderInv, Good
<1>1. CASE declaration
  <2>1. Completes("declaration") /\ theory' = handleDeclaration(theory, current.name, current.type, current.mode).th
    BY <1>1 DEF declaration, Becomes
  <2>2. current.name \in Seq(Word) /\ current.type \in DeclaredTypes
    BY <2>1, Completed, ProductionFields
  <2> QED BY <1>0, <2>1, <2>2, DeclarationKeeps, BegunByKeeps
<1>2. CASE constant
  <2>1. Completes("constant") /\ theory' = handleConstantDeclaration(theory, current.value)
    BY <1>2 DEF constant, Becomes
  <2>2. current.value \in Int
    BY <2>1, Completed, ProductionFields
  <2> QED BY <1>0, <2>1, <2>2, ConstantKeeps, BegunByKeeps
<1>3. CASE operations_bound \/ quantifiers_bound
  <2>1. PICK rule \in {"operations_bound", "quantifiers_bound"} : Completes(rule)
    BY <1>3 DEF operations_bound, quantifiers_bound
  <2>2. current \in Productions /\ current.rule = rule
    BY <2>1, Completed
  <2>3. current.value \in Nat
    BY <2>2 DEF Productions
  <2>4. /\ theory'.nodes = theory.nodes
        /\ theory'.generatedVocabIds = theory.generatedVocabIds
        /\ theory'.quantFreeVocIds = theory.quantFreeVocIds /\ theory'.boundTerms = theory.boundTerms
        /\ theory'.numClauseOperationBound \in {theory.numClauseOperationBound, current.value}
        /\ theory'.numQuantifierBound \in {theory.numQuantifierBound, current.value}
    BY <1>0, <1>3 DEF operations_bound, quantifiers_bound, Becomes, IsTheory
  <2> QED BY <2>3, <2>4 DEF Begun, Unmade, Settled, Shaped
<1>4. CASE wrong_item
  <2>1. CASE /\ Completes("wrong_declaration")
             /\ Becomes(handleDeclaration(theory, Missing, current.type, current.mode).th)
    <3>1. current.type \in DeclaredTypes
      BY <2>1, Completed, ProductionFields
    <3>2. Missing \in Seq(Word)
      <4>1. "<missing IDENTIFIER>" \in Word
        BY DEF Word
      <4>2. \A w \in Word : <<w>> \in Seq(Word)
        OBVIOUS
      <4> QED BY <4>1, <4>2 DEF Missing
    <3> QED BY <1>0, <2>1, <3>1, <3>2, DeclarationKeeps, BegunByKeeps DEF Becomes
  <2>2. CASE Completes("wrong_constant") /\ Becomes(handleConstantDeclaration(theory, 0))
    BY <1>0, <2>2, ConstantKeeps, BegunByKeeps DEF Becomes
  <2>3. CASE Completes("wrong_rule") /\ Becomes(theory)
    BY <2>3 DEF Becomes
  <2> QED BY <1>4, <2>1, <2>2, <2>3 DEF wrong_item
<1> QED BY <1>1, <1>2, <1>3, <1>4

LEMMA GrammarSettles ==
    ASSUME ReaderInv, Begun(theory), grammar_rule
    PROVE  Begun(theory')
<1>1. Good(theory)
  BY DEF ReaderInv
<1>2. PICK id1, id2, ops : /\ id1 \in Ids(theory) \cup {NoId}
                           /\ id2 \in Ids(theory) \cup {NoId}
                           /\ Ruled(id1, id2, ops)
  BY <1>1, UsedIsId, ConstantId DEF grammar_rule
<1>3. CASE theory' = theory
  BY <1>3
<1>4. CASE id1 \in Ids(theory) /\ id2 \in Ids(theory) /\ theory' = handleGrammarRule(theory, id1, id2, ops)
  <2>1. id2 \in Nat
    BY <1>1, <1>4, NodesOf
  <2> QED BY <1>1, <1>4, <2>1, RuleKept, BegunByKeeps
<1> QED BY <1>2, <1>3, <1>4 DEF Ruled, Becomes, Stop

LEMMA SettledByAdds ==
    ASSUME NEW th, NEW result, Good(th), Settled(th), Yields(th, result), Adds(th, result.th)
    PROVE  Settled(result.th)
BY KeepsByAdds, SettledByKeeps DEF Yields, Extends

LEMMA BegunByAdds ==
    ASSUME NEW th, NEW result, Good(th), Begun(th), Yields(th, result), Adds(th, result.th)
    PROVE  Begun(result.th)
BY SettledByAdds DEF Begun, Unmade, Adds, TermFrame, Frame

LEMMA TermSettles ==
    ASSUME ReaderInv, Begun(theory),
           atom_literal \/ atom_variable \/ atom_access \/ unaryop \/ additionop_productop
    PROVE  Begun(theory')
<1>0. Good(theory)
  BY DEF ReaderInv
<1>1. CASE atom_literal
  <2>1. Completes("atom_literal") /\ theory' = handleConstantDeclaration(theory, current.value)
    BY <1>1 DEF atom_literal, Reduce
  <2>2. current.value \in Int
    BY <2>1, Completed, ProductionFields
  <2> QED BY <1>0, <2>1, <2>2, ConstantKeeps, BegunByKeeps
<1>2. CASE atom_variable
  BY <1>2 DEF atom_variable, Reduce, Undeclared, Stop
<1>3. CASE atom_access
  <2>1. Operand(1, 1) \in Ids(theory)
    BY <1>3, OperandsAreIds DEF atom_access
  <2>2. PICK id \in UsedVariable(current.name) :
           \/ Undeclared(id)
           \/ id # NoId /\ Reduce(1, "term", handleArrayAccess(theory, id, Operand(1, 1)))
    BY <1>3 DEF atom_access
  <2>3. CASE Undeclared(id)
    BY <2>3 DEF Undeclared, Stop
  <2>4. CASE id # NoId /\ Reduce(1, "term", handleArrayAccess(theory, id, Operand(1, 1)))
    BY <1>0, <2>1, <2>4, UsedIsId, AccessYields, AccessAdds, BegunByAdds DEF Reduce
  <2> QED BY <2>2, <2>3, <2>4
<1>4. CASE unaryop
  <2>1. Operand(1, 1) \in Ids(theory) /\ theory' = handleUnaryMinus(theory, Operand(1, 1)).th
    BY <1>4, OperandsAreIds DEF unaryop, Reduce
  <2> QED BY <1>0, <2>1, BooleanYields, ComposedAdds, BegunByAdds, NodeWords
<1>5. CASE additionop_productop
  <2>1. /\ Completes("arithmetic")
        /\ Operand(1, 2) \in Ids(theory) /\ Operand(2, 2) \in Ids(theory)
        /\ theory' = handleTermArithTerm(theory, current.op, Operand(1, 2), Operand(2, 2)).th
    BY <1>5, OperandsAreIds DEF additionop_productop, Reduce
  <2>2. current.op \in NodeOps
    BY <2>1, Completed, ProductionFields
  <2> QED BY <1>0, <2>1, <2>2, ArithYields, ComposedAdds, BegunByAdds
<1> QED BY <1>1, <1>2, <1>3, <1>4, <1>5

LEMMA FormulaSettles ==
    ASSUME ReaderInv, Begun(theory),
           be_literal \/ be_variable \/ be_relational \/ be_boolean \/ be_not \/ be_quantified
    PROVE  Begun(theory')
<1>0. Good(theory)
  BY DEF ReaderInv
<1>1. CASE be_literal
  <2>1. Begun(handleTrue(theory).th) /\ Begun(handleFalse(theory).th)
    BY <1>0, TrueYields, TrueAdds, BegunByAdds
  <2> QED BY <1>1, <2>1 DEF be_literal, Reduce
<1>2. CASE be_variable
  BY <1>2 DEF be_variable, Reduce, Undeclared, Stop
<1>3. CASE be_relational
  <2>1. /\ Completes("relational")
        /\ Operand(1, 2) \in Ids(theory) /\ Operand(2, 2) \in Ids(theory)
        /\ theory' = handleTermRelationalTerm(theory, current.op, Operand(1, 2), Operand(2, 2)).th
    BY <1>3, OperandsAreIds DEF be_relational, Reduce
  <2>2. current.op \in NodeOps
    BY <2>1, Completed, ProductionFields
  <2> QED BY <1>0, <2>1, <2>2, RelationalYields, RelationalAdds, BegunByAdds
<1>4. CASE be_boolean
  <2>1. /\ Completes("boolean")
        /\ Operand(1, 2) \in Ids(theory) /\ Operand(2, 2) \in Ids(theory)
        /\ theory' = handleBEBoolBE(theory, current.op, Operand(1, 2), Operand(2, 2)).th
    BY <1>4, OperandsAreIds DEF be_boolean, Reduce
  <2>2. current.op \in NodeOps
    BY <2>1, Completed, ProductionFields
  <2> QED BY <1>0, <2>1, <2>2, BooleanYields, ComposedAdds, BegunByAdds
<1>5. CASE be_not
  <2>1. Operand(1, 1) \in Ids(theory) /\ theory' = handleNot(theory, Operand(1, 1)).th
    BY <1>5, OperandsAreIds DEF be_not, Reduce
  <2> QED BY <1>0, <2>1, BooleanYields, ComposedAdds, BegunByAdds, NodeWords
<1>6. CASE be_quantified
  <2>1. Operand(1, 1) \in Ids(theory)
    BY <1>6, OperandsAreIds DEF be_quantified
  <2>2. PICK id \in UsedVariable(current.name) :
           \/ Undeclared(id)
           \/ id # NoId /\ Reduce(1, "be", handleForall(theory, id, Operand(1, 1)))
           \/ id # NoId /\ Reduce(1, "be", handleExists(theory, id, Operand(1, 1)))
    BY <1>6 DEF be_quantified
  <2>3. CASE Undeclared(id)
    BY <2>3 DEF Undeclared, Stop
  <2>4. CASE id # NoId
    <3>1. id \in Ids(theory) /\ getNode(theory, id).isVar
      BY <2>4, UsedIsVariable
    <3>2. /\ Shaped(handleForall(theory, id, Operand(1, 1)).th)
          /\ Shaped(handleExists(theory, id, Operand(1, 1)).th)
      BY <1>0, <2>1, <3>1, QuantifierShaped DEF Begun, Unmade, Settled
    <3>3. /\ Frame(theory, handleForall(theory, id, Operand(1, 1)).th)
          /\ Frame(theory, handleExists(theory, id, Operand(1, 1)).th)
      BY <1>0 DEF handleForall, handleExists, makeNode, Good, IsTheory, Frame
    <3> QED BY <2>2, <2>3, <3>2, <3>3 DEF Reduce, Begun, Unmade, Settled, Frame
  <2> QED BY <2>2, <2>3, <2>4
<1> QED BY <1>1, <1>2, <1>3, <1>4, <1>5, <1>6

LEMMA RestSettles ==
    ASSUME ReaderInv, Begun(theory),
           clause \/ translation_unit \/ wrong_expression \/ wrong_clause \/ wrong_unit
    PROVE  Begun(theory')
<1>1. CASE clause
  <2>1. theory' = [theory EXCEPT !.vocabIds = Append(@, Operand(1, 1))] /\ IsTheory(theory)
    BY <1>1 DEF clause, ReaderInv, Good
  <2>2. theory'.nodes = theory.nodes
        /\ theory'.generatedVocabIds = theory.generatedVocabIds
        /\ theory'.quantFreeVocIds = theory.quantFreeVocIds /\ theory'.boundTerms = theory.boundTerms
        /\ theory'.numClauseOperationBound = theory.numClauseOperationBound
        /\ theory'.numQuantifierBound = theory.numQuantifierBound
    BY <2>1 DEF IsTheory
  <2> QED BY <2>2 DEF Begun, Unmade, Settled, Shaped
<1>2. CASE translation_unit \/ wrong_expression \/ wrong_clause \/ wrong_unit
  BY <1>2 DEF translation_unit, wrong_expression, wrong_clause, wrong_unit, Stop
<1> QED BY <1>1, <1>2

LEMMA InitSettled == ReaderInit => Begun(theory)
BY DEF ReaderInit, EmptyTheory, Begun, Unmade, Settled, Shaped, Linked

LEMMA NextSettles ==
    ASSUME ReaderInv, Begun(theory), [ReaderNext]_readerVars
    PROVE  Begun(theory')
<1>1. CASE ReaderNext
  BY <1>1, ItemSettles, GrammarSettles, TermSettles, FormulaSettles, RestSettles DEF ReaderNext
<1>2. CASE UNCHANGED readerVars
  BY <1>2 DEF readerVars
<1> QED BY <1>1, <1>2

-----------------------------------------------------------------------------
(* Injection                                                               *)

LEMMA LoopInduction ==
    ASSUME NEW n \in Nat, NEW K, 0 \in K, \A k \in 1 .. n : k - 1 \in K => k \in K
    PROVE  n \in K /\ \A k \in 0 .. n : k \in K
<1> DEFINE T == {m \in Nat : m <= n => m \in K}
<1>1. 0 \in T
  OBVIOUS
<1>2. ASSUME NEW m \in Nat, m \in T
      PROVE  m + 1 \in T
  <2> SUFFICES ASSUME m + 1 <= n
               PROVE  m + 1 \in K
    OBVIOUS
  <2>1. m \in K /\ m + 1 \in 1 .. n /\ (m + 1) - 1 = m
    BY <1>2
  <2> QED BY <2>1
<1> HIDE DEF T
<1>3. Nat \subseteq T
  BY <1>1, <1>2, Induction
<1> QED BY <1>3 DEF T

(* Everything that is kept up of a theory.                                 *)
Fine(th) == Good(th) /\ Right(th) /\ Settled(th)

Leads(th, new) == Fine(new) /\ Grows(th.nodes, new.nodes)

LEMMA LeadsIs ==
    ASSUME NEW th, Fine(th), NEW new
    PROVE  /\ Leads(th, new) => Extends(th, new) /\ Ids(th) \subseteq Ids(new) /\ Fine(new)
           /\ Extends(th, new) /\ Right(new) /\ Settled(new) => Leads(th, new)
           /\ Leads(th, th)
<1>1. Good(th) /\ th.nodes \in Seq(Node)
  BY NodesOf DEF Fine
<1>2. Leads(th, new) => Extends(th, new)
  BY DEF Leads, Fine, Extends
<1> QED BY <1>1, <1>2, IdsKept, GrowsReflexive DEF Fine, Leads, Extends

LEMMA LeadsTransitive ==
    ASSUME NEW th, NEW new, NEW more, Fine(th), Leads(th, new), Leads(new, more)
    PROVE  Leads(th, more)
BY NodesOf, GrowsTransitive DEF Leads, Fine

LEMMA FrameTransitive ==
    ASSUME NEW th, NEW new, NEW more, Frame(th, new), Frame(new, more)
    PROVE  Frame(th, more)
BY DEF Frame

LEMMA IndexLeads ==
    ASSUME NEW th, Fine(th), NEW id \in Ids(th), NEW idx \in Ids(th)
    PROVE  Leads(th, indexArray(th, id, idx)) /\ Frame(th, indexArray(th, id, idx))
<1>1. idx \in Nat /\ Good(th) /\ Right(th) /\ Settled(th)
  BY NodesOf DEF Fine
<1>2. LET new == handleGrammarRule(th, id, idx, {"index"})
      IN  Extends(th, new) /\ Right(new) /\ Keeps(th, new)
  BY <1>1, RuleExtends, RuleRight, RuleKept
<1>3. LET new == handleGrammarRule(th, id, idx, {"index"}) IN Leads(th, new) /\ Frame(th, new)
  BY <1>1, <1>2, SettledByKeeps, LeadsIs DEF Keeps
<1>4. Leads(th, th) /\ Frame(th, th)
  BY LeadsIs DEF Frame
<1> QED BY <1>3, <1>4 DEF indexArray

LEMMA IndexedLeads ==
    ASSUME NEW th, Fine(th), NEW s \in Seq(Ids(th)), NEW idx \in Ids(th)
    PROVE  Leads(th, Indexed(th, s, idx)) /\ Frame(th, Indexed(th, s, idx))
<1>1. Len(s) \in Nat /\ \A k \in 1 .. Len(s) : s[k] \in Ids(th)
  OBVIOUS
<1>2. PICK made : /\ Indexed(th, s, idx) = made[Len(s)]
                  /\ made[0] = th
                  /\ \A k \in 1 .. Len(s) : made[k] = indexArray(made[k - 1], s[k], idx)
  BY <1>1, IndexedIs
<1> DEFINE K == {k \in 0 .. Len(s) : Leads(th, made[k]) /\ Frame(th, made[k])}
<1>3. 0 \in K
  BY <1>1, <1>2, LeadsIs DEF Frame
<1>4. ASSUME NEW k \in 1 .. Len(s), k - 1 \in K
      PROVE  k \in K
  <2>1. Leads(th, made[k - 1]) /\ Frame(th, made[k - 1])
    BY <1>4
  <2>2. Fine(made[k - 1]) /\ s[k] \in Ids(made[k - 1]) /\ idx \in Ids(made[k - 1])
    BY <1>1, <2>1, LeadsIs
  <2>3. Leads(made[k - 1], made[k]) /\ Frame(made[k - 1], made[k])
    BY <1>2, <2>2, IndexLeads
  <2>4. Leads(th, made[k]) /\ Frame(th, made[k])
    BY <2>1, <2>3, LeadsTransitive, FrameTransitive
  <2> QED BY <1>1, <2>4
<1> HIDE DEF K
<1>5. Len(s) \in K
  BY <1>1, <1>3, <1>4, LoopInduction
<1> QED BY <1>2, <1>5 DEF K

LEMMA VarIdsOf ==
    ASSUME NEW th, Good(th)
    PROVE  th.varIds \in Seq(Ids(th)) /\ th.constantIds \in Seq(Ids(th))
<1>1. ASSUME NEW s \in Seq(Nat), \A i \in 1 .. Len(s) : s[i] \in Ids(th)
      PROVE  s \in Seq(Ids(th))
  BY <1>1
<1>2. th.varIds \in Seq(Nat) /\ \A i \in 1 .. Len(th.varIds) : th.varIds[i] \in Ids(th)
  BY DEF Good, IsTheory, Sound, NamedIn, Ids
<1>3. th.constantIds \in Seq(Nat) /\ \A i \in 1 .. Len(th.constantIds) : th.constantIds[i] \in Ids(th)
  BY DEF Good, IsTheory, Sound, LiteralsIn, Ids
<1> QED BY <1>1, <1>2, <1>3

LEMMA QuantifiedIndexLeads ==
    ASSUME NEW th, Fine(th), NEW idx \in Ids(th)
    PROVE  Leads(th, addQuantifiedIndex(th, idx)) /\ Frame(th, addQuantifiedIndex(th, idx))
<1> DEFINE indexed == Indexed(th, th.varIds, idx)
           one == handleConstantDeclaration(indexed, 1)
           id == getIdOfUsedConstant(one, 1)
           new == handleGrammarRule(one, idx, id, {"+"})
<1>1. addQuantifiedIndex(th, idx) = IF th.numClauseOperationBound > 1 THEN new ELSE indexed
  BY DEF addQuantifiedIndex, Indexed, Loop
<1>2. Leads(th, indexed) /\ Frame(th, indexed)
  BY VarIdsOf, IndexedLeads DEF Fine
<1> HIDE DEF indexed
<1>3. Fine(indexed) /\ Good(indexed) /\ Right(indexed) /\ Settled(indexed) /\ idx \in Ids(indexed)
  BY <1>2, LeadsIs DEF Fine
<1>4. Extends(indexed, one) /\ LiteralsOf(one, 1) # {} /\ Right(one) /\ Keeps(indexed, one)
  <2>1. 1 \in Int
    OBVIOUS
  <2> QED BY <1>3, <2>1, ConstantExtends, ConstantRight, ConstantKeeps
<1> HIDE DEF one
<1>5. Leads(indexed, one) /\ Frame(indexed, one)
  BY <1>3, <1>4, SettledByKeeps, LeadsIs DEF Keeps
<1>6. Fine(one) /\ Good(one) /\ Right(one) /\ Settled(one) /\ idx \in Ids(one) /\ id \in Ids(one) /\ id \in Nat
  BY <1>3, <1>4, <1>5, LeadsIs, ConstantId, NodesOf DEF Fine
<1> HIDE DEF id
<1>7. Extends(one, new) /\ Right(new) /\ Keeps(one, new)
  BY <1>6, RuleExtends, RuleRight, RuleKept
<1> HIDE DEF new
<1>8. Leads(one, new) /\ Frame(one, new)
  BY <1>6, <1>7, SettledByKeeps, LeadsIs DEF Keeps
<1>9. Leads(th, new) /\ Frame(th, new)
  BY <1>2, <1>3, <1>5, <1>6, <1>8, LeadsTransitive, FrameTransitive
<1> QED BY <1>1, <1>2, <1>9

LEMMA DeclarationLeads ==
    ASSUME NEW th, Fine(th), NEW name \in Seq(Word), NEW type \in DeclaredTypes, NEW mode
    PROVE  LET declared == handleDeclaration(th, name, type, mode)
           IN  Leads(th, declared.th) /\ Frame(th, declared.th) /\ declared.id \in Ids(declared.th)
<1> DEFINE new == handleDeclaration(th, name, type, mode).th
           id == handleDeclaration(th, name, type, mode).id
<1>1. Good(th) /\ Right(th) /\ Settled(th) /\ type \in NodeTypes
  BY NodeWords DEF Fine
<1>2. Extends(th, new) /\ Right(new) /\ Keeps(th, new)
  BY <1>1, DeclarationExtends, DeclarationRight, DeclarationKeeps
<1>3. Leads(th, new) /\ Frame(th, new)
  BY <1>1, <1>2, SettledByKeeps, LeadsIs DEF Keeps
<1>4. CASE name \in DOMAIN th.var2idMap
  <2>1. id = th.var2idMap[name] /\ new = th
    BY <1>4 DEF handleDeclaration
  <2>2. th.var2idMap[name] \in Ids(th)
    BY <1>1, <1>4 DEF Good, Sound, NamedIn, Ids
  <2> QED BY <1>3, <2>1, <2>2
<1>5. CASE name \notin DOMAIN th.var2idMap
  <2> DEFINE declared == DeclareVar(th, name, type, mode)
  <2>1. id = NextId(th) /\ new = IF type \in ArrayTypes THEN DeclareSize(declared, NextId(th), name) ELSE declared
    BY <1>5 DEF handleDeclaration
  <2>2. Good(declared) /\ NextId(th) \in Ids(declared)
    BY <1>1, <1>5, DeclareVarExtends DEF Extends
  <2> HIDE DEF declared, new, id
  <2>3. NextId(th) \in Ids(new)
    BY <2>1, <2>2, DeclareSizeExtends, IdsKept
  <2>4. id \in Ids(new)
    BY <2>1, <2>3
  <2> QED BY <1>3, <2>4 DEF new, id
<1> QED BY <1>4, <1>5

(* There are no more names than nodes.                                     *)
LEMMA NamesFew ==
    ASSUME NEW th, Good(th), NEW f,
           \A k \in 0 .. Len(th.nodes) : f[k] \in DOMAIN th.var2idMap
    PROVE  \E j, k \in 0 .. Len(th.nodes) : j < k /\ f[j] = f[k]
<1> DEFINE n == Len(th.nodes)
           S == 0 .. n
           T == 0 .. n - 1
           g == [k \in S |-> th.var2idMap[f[k]]]
<1>1. n \in Nat
  BY NodesOf
<1> HIDE DEF n
<1>2. IsFiniteSet(S) /\ IsFiniteSet(T) /\ Cardinality(S) = n + 1 /\ Cardinality(T) = n
  <2>1. 0 \in Int /\ n \in Int /\ n - 1 \in Int
    BY <1>1
  <2>2. IsFiniteSet(S) /\ Cardinality(S) = IF 0 > n THEN 0 ELSE n - 0 + 1
    BY <2>1, FS_Interval
  <2>3. IsFiniteSet(T) /\ Cardinality(T) = IF 0 > n - 1 THEN 0 ELSE (n - 1) - 0 + 1
    BY <2>1, FS_Interval
  <2> QED BY <1>1, <2>2, <2>3
<1>3. \A k \in S : th.var2idMap[f[k]] \in T
  BY DEF Good, Sound, NamedIn, n
<1>4. g \in [S -> T]
  BY <1>3
<1>5. \E x, y \in S : x # y /\ g[x] = g[y]
  <2> HIDE DEF g, S, T
  <2> QED BY <1>1, <1>2, <1>4, FS_PigeonHole
<1>6. PICK x, y \in S : x # y /\ g[x] = g[y]
  BY <1>5
<1>7. f[x] = f[y]
  <2>1. \A m \in DOMAIN th.var2idMap : th.nodes[th.var2idMap[m] + 1].name = m
    BY DEF Good, Sound, NamedIn
  <2> QED BY <1>6, <2>1 DEF n
<1>8. x < y \/ y < x
  BY <1>1, <1>6
<1> QED BY <1>6, <1>7, <1>8 DEF n

Name == [name : Seq(Word), i : Nat]

LEMMA RenamedIs ==
    ASSUME NEW c \in Name, NEW num
    PROVE  Renamed(c, num) \in Name /\ Len(c.name) < Len(Renamed(c, num).name)
<1>1. c.name \in Seq(Word) /\ c.i \in Nat /\ "q" \in Word /\ "#" \in Word
  BY DEF Name, Word
<1>2. CASE num = 0
  <2>1. <<"q">> \o c.name \in Seq(Word) /\ Len(<<"q">> \o c.name) = 1 + Len(c.name)
    BY <1>1
  <2>2. Renamed(c, num) = [c EXCEPT !.name = <<"q">> \o c.name]
    BY <1>2 DEF Renamed
  <2>3. Renamed(c, num) \in Name /\ Renamed(c, num).name = <<"q">> \o c.name
    BY <2>1, <2>2 DEF Name
  <2> QED BY <1>1, <2>1, <2>3
<1>3. CASE num # 0
  <2> DEFINE marks == [k \in 1 .. c.i + 1 |-> "#"]
  <2>1. marks \in Seq(Word) /\ Len(marks) = c.i + 1
    BY <1>1
  <2>2. Renamed(c, num) = [name |-> c.name \o marks, i |-> c.i + 1]
    BY <1>3 DEF Renamed
  <2> HIDE DEF marks
  <2>3. c.name \o marks \in Seq(Word) /\ Len(c.name \o marks) = Len(c.name) + (c.i + 1)
    BY <1>1, <2>1
  <2> QED BY <1>1, <2>2, <2>3 DEF Name
<1> QED BY <1>2, <1>3

(* The names tried, one after the other.                                   *)
Tries(tried, th, c, num) ==
    /\ tried[0] = c
    /\ \A k \in 1 .. Len(th.nodes) : tried[k] = Renamed(tried[k - 1], num)
    /\ LET free == {k \in 0 .. Len(th.nodes) : tried[k].name \notin DOMAIN th.var2idMap}
       IN  Untaken(th, c, num) = tried[CHOOSE k \in free : \A m \in free : k <= m]

LEMMA UntakenIs ==
    ASSUME NEW th, Good(th), NEW c \in Name, NEW num
    PROVE  \E tried : Tries(tried, th, c, num)
<1> DEFINE tried == Turns("Untaken", num, 0, 0, c, th.nodes)
<1>1. LET free == {k \in 0 .. Len(th.nodes) : tried[k].name \notin DOMAIN th.var2idMap}
      IN  Untaken(th, c, num) = tried[CHOOSE k \in free : \A m \in free : k <= m]
  BY DEF Untaken, Turns, Turn
<1>2. AreTurns(tried, "Untaken", num, 0, 0, c, th.nodes)
  BY NodesOf, TurnsAre
<1> HIDE DEF tried
<1> QED BY <1>1, <1>2 DEF AreTurns, Turn, Tries

(* One of the names tried is free, for they are longer and longer.         *)
LEMMA UntakenIsFree ==
    ASSUME NEW th, Good(th), NEW c \in Name, NEW num
    PROVE  Untaken(th, c, num) \in Name /\ Untaken(th, c, num).name \notin DOMAIN th.var2idMap
<1> DEFINE n == Len(th.nodes)
<1>0. n \in Nat
  BY NodesOf
<1>13. PICK tried : Tries(tried, th, c, num)
  BY UntakenIs
<1>1. tried[0] = c /\ \A k \in 1 .. n : tried[k] = Renamed(tried[k - 1], num)
  BY <1>13 DEF Tries
<1> DEFINE free == {k \in 0 .. n : tried[k].name \notin DOMAIN th.var2idMap}
           K == {k \in 0 .. n : (\A j \in 0 .. k : tried[j] \in Name) /\ \A j \in 0 .. k - 1 : Len(tried[j].name) < Len(tried[k].name)}
<1>2. 0 \in K
  BY <1>0, <1>1
<1>3. ASSUME NEW k \in 1 .. n, k - 1 \in K
      PROVE  k \in K
  <2>1. tried[k - 1] \in Name /\ tried[k] = Renamed(tried[k - 1], num)
        /\ \A j \in 0 .. k - 1 : tried[j] \in Name
    BY <1>1, <1>3
  <2>2. tried[k] \in Name /\ Len(tried[k - 1].name) < Len(tried[k].name)
    BY <2>1, RenamedIs
  <2>3. Len(tried[k - 1].name) \in Nat /\ Len(tried[k].name) \in Nat
    BY <2>1, <2>2 DEF Name
  <2>4. ASSUME NEW j \in 0 .. k - 1
        PROVE  Len(tried[j].name) < Len(tried[k].name)
    <3>1. CASE j = k - 1
      BY <2>2, <3>1
    <3>2. CASE j # k - 1
      <4>1. j \in 0 .. (k - 1) - 1
        BY <3>2
      <4>2. Len(tried[j].name) < Len(tried[k - 1].name)
        BY <1>3, <4>1
      <4>3. Len(tried[j].name) \in Nat
        BY <2>1 DEF Name
      <4>4. \A x, y, z \in Nat : x < y /\ y < z => x < z
        OBVIOUS
      <4> QED BY ONLY <2>2, <2>3, <4>2, <4>3, <4>4, Zenon
    <3> QED BY <3>1, <3>2
  <2>5. \A j \in 0 .. k : j \in 0 .. k - 1 \/ j = k
    OBVIOUS
  <2> QED BY <2>1, <2>2, <2>4, <2>5
<1>4. \A k \in 0 .. n : k \in K
  <2> HIDE DEF K, n
  <2> QED BY <1>0, <1>2, <1>3, LoopInduction
<1>5. \A k \in 0 .. n : tried[k] \in Name
  BY <1>4
<1>6. \A j, k \in 0 .. n : j < k => Len(tried[j].name) < Len(tried[k].name)
  <2> SUFFICES ASSUME NEW j \in 0 .. n, NEW k \in 0 .. n, j < k
               PROVE  Len(tried[j].name) < Len(tried[k].name)
    OBVIOUS
  <2>1. j \in 0 .. k - 1 /\ k \in K
    BY <1>4
  <2> QED BY <2>1
<1>7. free # {}
  <2> SUFFICES ASSUME \A k \in 0 .. n : tried[k].name \in DOMAIN th.var2idMap
               PROVE  FALSE
    OBVIOUS
  <2> DEFINE f == [k \in 0 .. n |-> tried[k].name]
  <2>1. \A k \in 0 .. n : f[k] = tried[k].name
    OBVIOUS
  <2> HIDE DEF f
  <2>2. PICK j, k \in 0 .. n : j < k /\ f[j] = f[k]
    BY <2>1, NamesFew
  <2>3. Len(tried[j].name) < Len(tried[k].name) /\ tried[j].name = tried[k].name
    BY <1>6, <2>1, <2>2
  <2>4. Len(tried[k].name) \in Nat
    BY <1>5 DEF Name
  <2> QED BY <2>3, <2>4
<1> DEFINE least == CHOOSE k \in free : \A m \in free : k <= m
<1>8. least \in free
  <2>1. \E k \in free : \A m \in free : k <= m
    <3>1. free \in SUBSET Nat
      BY <1>0
    <3> HIDE DEF free
    <3> QED BY <1>7, <3>1, LeastNat
  <2> HIDE DEF free
  <2> QED BY <2>1
<1>9. Untaken(th, c, num) = tried[least]
  BY <1>13 DEF Tries
<1> HIDE DEF least
<1> QED BY <1>5, <1>8, <1>9

LEMMA InjectOneLeads ==
    ASSUME NEW acc, Fine(acc.th), acc.name \in Name, NEW num, NEW mode
    PROVE  LET new == injectOne(acc, num, mode)
           IN  Leads(acc.th, new.th) /\ Frame(acc.th, new.th) /\ new.name \in Name
<1> DEFINE free == Untaken(acc.th, acc.name, num)
           declared == handleDeclaration(acc.th, free.name, "int", mode)
           new == injectOne(acc, num, mode)
<1>1. free \in Name
  BY UntakenIsFree DEF Fine
<1>2. new.th = addQuantifiedIndex(declared.th, declared.id) /\ new.name = free
  BY DEF injectOne
<1> HIDE DEF free, new
<1>3. Leads(acc.th, declared.th) /\ Frame(acc.th, declared.th) /\ declared.id \in Ids(declared.th)
  <2>1. free.name \in Seq(Word) /\ "int" \in DeclaredTypes
    BY <1>1 DEF Name, DeclaredTypes
  <2> QED BY <2>1, DeclarationLeads
<1> HIDE DEF declared
<1>4. Fine(declared.th)
  BY <1>3 DEF Leads
<1>5. Leads(declared.th, new.th) /\ Frame(declared.th, new.th)
  BY <1>2, <1>3, <1>4, QuantifiedIndexLeads
<1> QED BY <1>1, <1>2, <1>3, <1>5, LeadsTransitive, FrameTransitive DEF new

LEMMA InjectLeads ==
    ASSUME NEW th, Fine(th), NEW injectLocal
    PROVE  Leads(th, injectQuantifierVars(th, injectLocal)) /\ Frame(th, injectQuantifierVars(th, injectLocal))
<1> DEFINE base == [th |-> th, name |-> [name |-> <<"i">>, i |-> 0]]
           s == [n \in 1 .. th.numQuantifierBound |-> n - 1]
           mode == IF injectLocal THEN "local" ELSE "global"
<1>1. injectQuantifierVars(th, injectLocal) = InjectedAll(base, s, injectLocal).th
  BY DEF injectQuantifierVars, InjectedAll, Loop
<1>2. Len(s) \in Nat
  BY DEF Fine, Settled
<1>3. base.th = th /\ base.name \in Name
  <2>1. "i" \in Word
    BY DEF Word
  <2> QED BY <2>1 DEF Name
<1> HIDE DEF base, s
<1>4. PICK made : /\ InjectedAll(base, s, injectLocal) = made[Len(s)]
                  /\ made[0] = base
                  /\ \A k \in 1 .. Len(s) : made[k] = injectOne(made[k - 1], s[k], mode)
  BY <1>2, InjectedAllIs
<1> HIDE DEF mode
<1> DEFINE K == {k \in 0 .. Len(s) : Leads(th, made[k].th) /\ Frame(th, made[k].th) /\ made[k].name \in Name}
<1>5. 0 \in K
  BY <1>2, <1>3, <1>4, LeadsIs DEF Frame
<1>6. ASSUME NEW k \in 1 .. Len(s), k - 1 \in K
      PROVE  k \in K
  <2>1. Leads(th, made[k - 1].th) /\ Frame(th, made[k - 1].th) /\ made[k - 1].name \in Name
    BY <1>6
  <2>2. Leads(made[k - 1].th, made[k].th) /\ Frame(made[k - 1].th, made[k].th) /\ made[k].name \in Name
    BY <1>4, <2>1, InjectOneLeads DEF Leads
  <2>3. Leads(th, made[k].th) /\ Frame(th, made[k].th)
    BY <2>1, <2>2, LeadsTransitive, FrameTransitive
  <2> QED BY <1>2, <2>2, <2>3
<1> HIDE DEF K
<1>7. Len(s) \in K
  BY <1>2, <1>5, <1>6, LoopInduction
<1> QED BY <1>1, <1>4, <1>7 DEF K

-----------------------------------------------------------------------------
(* Recursion along the table                                               *)

LEMMA OperandBelow ==
    ASSUME NEW th, Good(th), NEW id \in Ids(th)
    PROVE  LET operands == getNode(th, id).operandIds
           IN  /\ Len(operands) \in Nat
               /\ operands # <<>> <=> Len(operands) >= 1
               /\ operands # <<>> /\ Len(operands) # 1 => Len(operands) >= 2
               /\ \A i \in DOMAIN operands : operands[i] \in 0 .. id - 1 /\ operands[i] \in Ids(th)
               /\ Len(operands) >= 1 => operands[1] \in 0 .. id - 1 /\ operands[1] \in Ids(th)
               /\ Len(operands) >= 2 => operands[2] \in 0 .. id - 1 /\ operands[2] \in Ids(th)
<1> DEFINE operands == getNode(th, id).operandIds
<1>1. id + 1 \in 1 .. Len(th.nodes) /\ (id + 1) - 2 = id - 1 /\ Len(th.nodes) \in Nat
      /\ th.nodes[id + 1] \in Node /\ AcyclicIn(th.nodes) /\ id \in Nat
  BY NodesOf DEF Good, Sound, Ids
<1>2. operands \in Seq(Nat)
  BY <1>1 DEF Node, getNode
<1>3. \A i \in DOMAIN operands : operands[i] \in 0 .. id - 1
  BY <1>1 DEF AcyclicIn, getNode
<1> HIDE DEF operands
<1>4. \A i \in 0 .. id - 1 : i \in Ids(th)
  BY <1>1 DEF Ids
<1>5. Len(operands) \in Nat /\ DOMAIN operands = 1 .. Len(operands) /\ (operands # <<>> <=> Len(operands) >= 1)
  BY <1>2
<1> DEFINE l == Len(operands)
<1>6. l \in Nat /\ (operands # <<>> <=> l >= 1)
  BY <1>5
<1> HIDE DEF l
<1>7. operands # <<>> /\ l # 1 => l >= 2
  BY <1>6
<1> QED BY <1>3, <1>4, <1>5, <1>7 DEF operands, l

LEMMA IdInduction ==
    ASSUME NEW th, Good(th), NEW K,
           \A id \in Ids(th) : (\A w \in Ids(th) : w < id => w \in K) => id \in K
    PROVE  Ids(th) \subseteq K
<1> DEFINE T == {m \in Nat : \A id \in Ids(th) : id < m => id \in K}
<1>1. Ids(th) \subseteq Nat /\ Len(th.nodes) \in Nat /\ \A id \in Ids(th) : id < Len(th.nodes)
  BY NodesOf DEF Ids
<1>2. 0 \in T
  BY <1>1
<1>3. ASSUME NEW m \in Nat, m \in T
      PROVE  m + 1 \in T
  <2>1. ASSUME NEW id \in Ids(th), id < m + 1
        PROVE  id \in K
    <3>1. \A w \in Ids(th) : w < id => w < m
      BY <1>1, <2>1
    <3> QED BY <1>3, <3>1
  <2> QED BY <2>1
<1> HIDE DEF T
<1>4. Len(th.nodes) \in T
  BY <1>1, <1>2, <1>3, Induction
<1> QED BY <1>1, <1>4 DEF T

(* What each recursive definition makes of id i from f's values below it:  *)
(* as for the loops, one induction serves them all.                        *)
Level(of, th, sigma, f, i) ==
    LET node == getNode(th, i)
        operands == node.operandIds
        operand(p) == IF Whole(node) \/ Len(operands) < p THEN <<>> ELSE f[operands[p]]
    IN  CASE of = "UVars" ->
                IF ~ node.global THEN <<>>
                ELSE IF node.isVar THEN <<i>>
                ELSE (IF Len(operands) >= 1 THEN f[operands[1]] ELSE <<>>)
                  \o (IF Len(operands) >= 2 THEN f[operands[2]] ELSE <<>>)
          [] of = "Occurrences" -> operand(1) \o operand(2) \o <<i>>
          [] of = "Operations" ->
                IF operands = <<>> THEN 0
                ELSE 1 + f[operands[1]] + (IF Len(operands) = 1 THEN 0 ELSE f[operands[2]])
          [] of = "Text" ->
                <<Label(node)>>
                \o (IF Len(operands) = 0 THEN <<>>
                    ELSE IF node.type = "access" THEN <<Label(getNode(th, operands[1]))>>
                    ELSE f[operands[1]])
                \o (IF Len(operands) < 2 THEN <<>> ELSE f[operands[2]])
          [] of = "Instances" ->
                IF ~node.global \/ node.const THEN {i}
                ELSE IF node.isVar THEN {sigma[i]}
                ELSE {id \in Ids(th) :
                        \/ /\ node.op \in {"=", "<="} /\ Len(operands) = 2
                           /\ id = th.trueId /\ f[operands[1]] \cap f[operands[2]] # {}
                        \/ Composed(getNode(th, id), node, f[operands[1]], f[operands[2]])}

Levels(of, th, sigma) ==
    LET made[i \in Ids(th)] == Level(of, th, sigma, made, i)
    IN  made

LEMMA LevelLocal ==
    ASSUME NEW th, Good(th), NEW sigma, NEW f, NEW g, NEW i \in Ids(th), \A w \in 0 .. i - 1 : f[w] = g[w],
           NEW of \in {"UVars", "Occurrences", "Operations", "Text", "Instances"}
    PROVE  Level(of, th, sigma, f, i) = Level(of, th, sigma, g, i)
<1> DEFINE node == getNode(th, i)
           operands == node.operandIds
<1>1. /\ Len(operands) >= 1 => operands[1] \in 0 .. i - 1
      /\ Len(operands) >= 2 => operands[2] \in 0 .. i - 1
      /\ Len(operands) \in Nat /\ (operands # <<>> <=> Len(operands) >= 1)
  BY OperandBelow
<1> DEFINE first == f[operands[1]] = g[operands[1]]
           second == f[operands[2]] = g[operands[2]]
<1>2. /\ ~(Len(operands) < 1) => first
      /\ Len(operands) # 0 => first
      /\ ~(Len(operands) < 2) => second
      /\ operands # <<>> => first /\ (Len(operands) # 1 => second)
  <2> DEFINE l == Len(operands)
  <2>1. (l >= 1 => first) /\ (l >= 2 => second)
    BY <1>1
  <2>2. l \in Nat /\ (operands # <<>> <=> l >= 1)
    BY <1>1
  <2> HIDE DEF first, second, l
  <2>3. /\ ~(l < 1) => first
        /\ l # 0 => first
        /\ ~(l < 2) => second
        /\ operands # <<>> => first /\ (l # 1 => second)
    BY <2>1, <2>2
  <2> QED BY <2>3 DEF l
<1>3. CASE of = "UVars"
  BY <1>1, <1>2, <1>3 DEF Level
<1>4. CASE of = "Occurrences"
  BY <1>1, <1>2, <1>4 DEF Level
<1>5. CASE of = "Operations"
  BY <1>1, <1>2, <1>5 DEF Level
<1>6. CASE of = "Text"
  BY <1>1, <1>2, <1>6 DEF Level
<1>7. CASE of = "Instances"
  <2> DEFINE set(h, id) ==
                 \/ /\ node.op \in {"=", "<="} /\ Len(operands) = 2
                    /\ id = th.trueId /\ h[operands[1]] \cap h[operands[2]] # {}
                 \/ Composed(getNode(th, id), node, h[operands[1]], h[operands[2]])
             rhs(h) == IF ~node.global \/ node.const THEN {i}
                       ELSE IF node.isVar THEN {sigma[i]}
                       ELSE {id \in Ids(th) : set(h, id)}
  <2>1. Level(of, th, sigma, f, i) = rhs(f) /\ Level(of, th, sigma, g, i) = rhs(g)
    BY <1>7 DEF Level
  <2>2. /\ Len(operands) = 1 => f[operands[1]] = g[operands[1]]
        /\ Len(operands) = 2 => f[operands[1]] = g[operands[1]] /\ f[operands[2]] = g[operands[2]]
    BY <1>1, <1>2
  <2>3. \A id \in Ids(th) : set(f, id) <=> set(g, id)
    BY <2>2 DEF Composed
  <2> HIDE DEF set
  <2> QED BY <2>1, <2>3
<1> QED BY <1>3, <1>4, <1>5, <1>6, <1>7

LEMMA LevelsAre ==
    ASSUME NEW th, Good(th), NEW sigma,
           NEW of \in {"UVars", "Occurrences", "Operations", "Text", "Instances"}
    PROVE  \A i \in Ids(th) : Levels(of, th, sigma)[i] = Level(of, th, sigma, Levels(of, th, sigma), i)
<1> DEFINE n == Len(th.nodes)
           rhs(f, i) == Level(of, th, sigma, f, i)
           Eq(f) == f = [i \in Ids(th) |-> rhs(f, i)]
           Runs(f, m) == \A i \in 0 .. m - 1 : f[i] = rhs(f, i)
           T == {m \in Nat : m <= n => \E f : Runs(f, m)}
           made == CHOOSE f : Eq(f)
<1>1. n \in Nat /\ Ids(th) = 0 .. n - 1
  BY NodesOf DEF Ids
<1>2. Levels(of, th, sigma) = made
  BY DEF Levels
<1>3. ASSUME NEW f, NEW g, NEW i \in Ids(th), \A w \in 0 .. i - 1 : f[w] = g[w]
      PROVE  rhs(f, i) = rhs(g, i)
  BY <1>3, LevelLocal
<1> HIDE DEF n, rhs
<1>4. ASSUME NEW m \in Nat, m + 1 <= n, NEW f, Runs(f, m)
      PROVE  m + 1 \in T
  <2> DEFINE x == rhs(f, m)
  <2> HIDE DEF x
  <2>1. Continuable(f, m, x)
    BY Continued
  <2>2. PICK g : g[m] = x /\ \A k \in 0 .. m - 1 : g[k] = f[k]
    BY <2>1 DEF Continuable
  <2>3. ASSUME NEW i \in 0 .. m
        PROVE  g[i] = rhs(g, i)
    <3>1. i \in Ids(th) /\ \A w \in 0 .. i - 1 : f[w] = g[w]
      BY <1>1, <1>4, <2>2
    <3> QED BY <1>3, <1>4, <2>2, <3>1 DEF x
  <2> QED BY <2>3
<1>5. 0 \in T /\ \A m \in Nat : m \in T => m + 1 \in T
  <2>1. ASSUME NEW m \in Nat, m \in T
        PROVE  m + 1 \in T
    <3>1. CASE m + 1 <= n
      <4>1. m <= n
        BY <1>1, <3>1
      <4> QED BY <1>4, <2>1, <3>1, <4>1
    <3>2. CASE ~(m + 1 <= n)
      BY <3>2
    <3> QED BY <3>1, <3>2
  <2> QED BY <2>1
<1>6. PICK f : Runs(f, n)
  <2> HIDE DEF T
  <2>1. n \in T
    BY <1>1, <1>5, Induction
  <2> QED BY <1>1, <2>1 DEF T
<1>7. Eq([i \in Ids(th) |-> f[i]])
  BY <1>1, <1>3, <1>6
<1>8. \A i \in Ids(th) : made[i] = rhs(made, i)
  BY <1>7
<1> HIDE DEF made
<1> QED BY <1>2, <1>8 DEF rhs

(* getUVars, unfolded.                                                     *)
LEMMA UVarsUnfold ==
    ASSUME NEW th, Good(th)
    PROVE  \A i \in Ids(th) : getUVars(th, i) =
              LET node == getNode(th, i)
              IN  IF ~ node.global THEN <<>>
                  ELSE IF node.isVar THEN <<i>>
                  ELSE (IF Len(node.operandIds) >= 1 THEN getUVars(th, node.operandIds[1]) ELSE <<>>)
                    \o (IF Len(node.operandIds) >= 2 THEN getUVars(th, node.operandIds[2]) ELSE <<>>)
<1>1. \A i : getUVars(th, i) = Levels("UVars", th, 0)[i]
  BY DEF getUVars, Levels, Level
<1>2. \A i \in Ids(th) : Levels("UVars", th, 0)[i] = Level("UVars", th, 0, Levels("UVars", th, 0), i)
  BY LevelsAre
<1> QED BY <1>1, <1>2 DEF Level

(* Occurrences, unfolded.                                                  *)
LEMMA OccurrencesUnfold ==
    ASSUME NEW th, Good(th)
    PROVE  \A i \in Ids(th) : Occurrences(th, i) =
              LET node == getNode(th, i)
                  operand(p) == IF Whole(node) \/ Len(node.operandIds) < p THEN <<>>
                                ELSE Occurrences(th, node.operandIds[p])
              IN  operand(1) \o operand(2) \o <<i>>
<1> DEFINE made == Levels("Occurrences", th, 0)
           operand(i, p) == IF Whole(getNode(th, i)) \/ Len(getNode(th, i).operandIds) < p THEN <<>>
                            ELSE made[getNode(th, i).operandIds[p]]
<1>1. \A i : Occurrences(th, i) = made[i]
  BY DEF Occurrences, Levels, Level
<1>2. \A i \in Ids(th) : made[i] = Level("Occurrences", th, 0, made, i)
  BY LevelsAre
<1> HIDE DEF made
<1>3. \A i \in Ids(th) : made[i] = operand(i, 1) \o operand(i, 2) \o <<i>>
  BY <1>2 DEF Level
<1>4. ASSUME NEW i, NEW p
      PROVE  operand(i, p) = IF Whole(getNode(th, i)) \/ Len(getNode(th, i).operandIds) < p THEN <<>>
                             ELSE Occurrences(th, getNode(th, i).operandIds[p])
  BY <1>1
<1> HIDE DEF operand
<1> QED BY <1>1, <1>3, <1>4

(* Operations, unfolded.                                                   *)
LEMMA OperationsUnfold ==
    ASSUME NEW th, Good(th)
    PROVE  \A i \in Ids(th) : Operations(th, i) =
              LET operands == getNode(th, i).operandIds
              IN  IF operands = <<>> THEN 0
                  ELSE 1 + Operations(th, operands[1])
                         + (IF Len(operands) = 1 THEN 0 ELSE Operations(th, operands[2]))
<1>1. \A i : Operations(th, i) = Levels("Operations", th, 0)[i]
  BY DEF Operations, Levels, Level
<1>2. \A i \in Ids(th) : Levels("Operations", th, 0)[i] = Level("Operations", th, 0, Levels("Operations", th, 0), i)
  BY LevelsAre
<1> QED BY <1>1, <1>2 DEF Level

(* Text, unfolded.                                                         *)
LEMMA TextUnfold ==
    ASSUME NEW th, Good(th)
    PROVE  \A i \in Ids(th) : Text(th, i) =
              LET node == getNode(th, i)
              IN  <<Label(node)>>
                  \o (IF Len(node.operandIds) = 0 THEN <<>>
                      ELSE IF node.type = "access" THEN <<Label(getNode(th, node.operandIds[1]))>>
                      ELSE Text(th, node.operandIds[1]))
                  \o (IF Len(node.operandIds) < 2 THEN <<>> ELSE Text(th, node.operandIds[2]))
<1>1. \A i : Text(th, i) = Levels("Text", th, 0)[i]
  BY DEF Text, Levels, Level
<1>2. \A i \in Ids(th) : Levels("Text", th, 0)[i] = Level("Text", th, 0, Levels("Text", th, 0), i)
  BY LevelsAre
<1> QED BY <1>1, <1>2 DEF Level

-----------------------------------------------------------------------------
(* Making a node of others                                                 *)

(* What a handler of terms or formulae does to a theory.                   *)
Makes(th, result) ==
    Leads(th, result.th) /\ Adds(th, result.th) /\ result.id \in Ids(result.th)

LEMMA MakesBy ==
    ASSUME NEW th, Fine(th), NEW result, Yields(th, result), Right(result.th), Adds(th, result.th)
    PROVE  Makes(th, result)
<1>1. Good(th) /\ Good(result.th) /\ Settled(th) /\ Extends(th, result.th)
  BY DEF Fine, Yields, Extends
<1>2. Settled(result.th)
  BY <1>1, SettledByAdds
<1> QED BY <1>1, <1>2, LeadsIs DEF Makes, Yields

LEMMA HandlersMake ==
    ASSUME NEW th, Fine(th), NEW op \in NodeOps, NEW t1 \in Ids(th), NEW t2 \in Ids(th)
    PROVE  /\ Makes(th, handleTermRelationalTerm(th, op, t1, t2))
           /\ Makes(th, handleTermArithTerm(th, op, t1, t2))
           /\ Makes(th, handleBEBoolBE(th, op, t1, t2))
           /\ Makes(th, handleNot(th, t1))
           /\ Makes(th, handleUnaryMinus(th, t1))
           /\ Makes(th, handleArrayAccess(th, t1, t2))
<1>1. Good(th) /\ Right(th)
  BY DEF Fine
<1>2. Makes(th, handleTermRelationalTerm(th, op, t1, t2))
  BY <1>1, RelationalYields, RelationalRight, RelationalAdds, MakesBy
<1>3. Makes(th, handleTermArithTerm(th, op, t1, t2))
  BY <1>1, ArithYields, ArithRight, ComposedAdds, MakesBy
<1>4. Makes(th, handleBEBoolBE(th, op, t1, t2)) /\ Makes(th, handleNot(th, t1))
      /\ Makes(th, handleUnaryMinus(th, t1))
  BY <1>1, BooleanYields, BooleanRight, ComposedAdds, MakesBy
<1>5. Makes(th, handleArrayAccess(th, t1, t2))
  BY <1>1, AccessYields, AccessRight, AccessAdds, MakesBy
<1> QED BY <1>2, <1>3, <1>4, <1>5

(* What was there is described alike, and the grammar is the same.         *)
Like(th, new) ==
    /\ Len(th.nodes) <= Len(new.nodes)
    /\ \A k \in 1 .. Len(th.nodes) : Marked(th.nodes[k], new.nodes[k])
    /\ new.rulemap = th.rulemap /\ new.varIds = th.varIds /\ new.constantIds = th.constantIds
    /\ new.var2idMap = th.var2idMap /\ new.vocabIds = th.vocabIds
    /\ new.numClauseOperationBound = th.numClauseOperationBound
    /\ th.trueId # NoId => new.trueId = th.trueId

(* A step towards the vocabulary, or some of them.                         *)
On(th, new) == Leads(th, new) /\ Like(th, new)

LEMMA LikeTransitive ==
    ASSUME NEW th, NEW new, NEW more, th.nodes \in Seq(Node), new.nodes \in Seq(Node),
           more.nodes \in Seq(Node), Like(th, new), Like(new, more)
    PROVE  Like(th, more)
<1> DEFINE N == th.nodes
           M == new.nodes
           K == more.nodes
<1>1. Len(N) \in Nat /\ Len(M) \in Nat /\ Len(K) \in Nat /\ Len(N) <= Len(M) /\ Len(M) <= Len(K)
      /\ (\A k \in 1 .. Len(N) : N[k] \in Node) /\ (\A k \in 1 .. Len(M) : M[k] \in Node)
      /\ (\A k \in 1 .. Len(K) : K[k] \in Node)
  BY DEF Like
<1>2. (\A k \in 1 .. Len(N) : Marked(N[k], M[k])) /\ (\A k \in 1 .. Len(M) : Marked(M[k], K[k]))
  BY DEF Like
<1> HIDE DEF N, M, K
<1>3. \A k \in 1 .. Len(N) : Marked(N[k], K[k])
  <2> SUFFICES ASSUME NEW k \in 1 .. Len(N)
               PROVE  Marked(N[k], K[k])
    OBVIOUS
  <2>1. k \in 1 .. Len(M) /\ k \in 1 .. Len(K)
    BY <1>1
  <2>2. N[k] \in Node /\ M[k] \in Node /\ K[k] \in Node /\ Marked(N[k], M[k]) /\ Marked(M[k], K[k])
    BY <1>1, <1>2, <2>1
  <2> QED BY <2>2, MarkedIs
<1> QED BY <1>1, <1>3 DEF Like, N, M, K

LEMMA LikeByField ==
    ASSUME NEW th, NEW new, th.nodes \in Seq(Node), new.nodes = th.nodes,
           new.rulemap = th.rulemap, new.varIds = th.varIds, new.constantIds = th.constantIds,
           new.var2idMap = th.var2idMap, new.vocabIds = th.vocabIds,
           new.numClauseOperationBound = th.numClauseOperationBound,
           th.trueId # NoId => new.trueId = th.trueId
    PROVE  Like(th, new)
<1>1. \A k \in 1 .. Len(th.nodes) : th.nodes[k] \in Node
  OBVIOUS
<1>2. \A k \in 1 .. Len(th.nodes) : Marked(th.nodes[k], new.nodes[k])
  BY <1>1, MarkedIs
<1>3. Len(th.nodes) \in Nat
  OBVIOUS
<1> QED BY <1>2, <1>3 DEF Like

LEMMA OnIs ==
    ASSUME NEW th, Fine(th)
    PROVE  /\ On(th, th)
           /\ \A new : On(th, new) => Fine(new) /\ Ids(th) \subseteq Ids(new)
           /\ \A new, more : On(th, new) /\ On(new, more) => On(th, more)
           /\ \A new : Leads(th, new) /\ Adds(th, new) => On(th, new)
<1>1. th.nodes \in Seq(Node) /\ \A new : Fine(new) => new.nodes \in Seq(Node)
  BY NodesOf DEF Fine
<1>2. On(th, th)
  BY <1>1, LeadsIs, LikeByField DEF On
<1>3. ASSUME NEW new, NEW more, On(th, new), On(new, more)
      PROVE  On(th, more)
  <2>1. Fine(new) /\ Fine(more)
    BY <1>3 DEF On, Leads
  <2> QED BY <1>1, <1>3, <2>1, LeadsTransitive, LikeTransitive DEF On
<1>4. \A new : On(th, new) => Fine(new) /\ Ids(th) \subseteq Ids(new)
  BY LeadsIs DEF On
<1>5. \A new : Leads(th, new) /\ Adds(th, new) => On(th, new)
  BY DEF On, Adds, TermFrame, Frame, Like
<1> QED BY <1>2, <1>3, <1>4, <1>5

(* A node is described alike before and after.                             *)
LEMMA NodeStays ==
    ASSUME NEW th, Fine(th), NEW new, On(th, new), NEW id \in Ids(th)
    PROVE  LET a == getNode(th, id)
               b == getNode(new, id)
           IN  /\ a \in Node /\ b \in Node /\ id \in Ids(new)
               /\ a.op = b.op /\ a.name = b.name /\ a.type = b.type /\ a.isVar = b.isVar
               /\ a.const = b.const /\ a.value = b.value /\ a.operandIds = b.operandIds
               /\ a.leftVars = b.leftVars /\ a.rightVars = b.rightVars /\ a.global = b.global
               /\ a.element => b.element
<1>1. Good(th) /\ Good(new) /\ id \in Ids(new)
  BY OnIs DEF Fine
<1>2. getNode(th, id) \in Node /\ getNode(new, id) \in Node
  BY <1>1, NodesOf
<1>3. Marked(getNode(th, id), getNode(new, id))
  <2>1. id + 1 \in 1 .. Len(th.nodes)
    BY <1>1, NodesOf DEF Ids
  <2> QED BY <2>1 DEF On, Like, getNode
<1> QED BY <1>1, <1>2, <1>3, MarkedIs

LEMMA OperationsStay ==
    ASSUME NEW th, Fine(th), NEW new, On(th, new)
    PROVE  \A id \in Ids(th) : Operations(new, id) = Operations(th, id)
<1> DEFINE K == {id \in Ids(th) : Operations(new, id) = Operations(th, id)}
<1>1. Good(th) /\ Good(new) /\ Ids(th) \subseteq Ids(new)
  BY OnIs DEF Fine
<1>2. ASSUME NEW id \in Ids(th), \A w \in Ids(th) : w < id => w \in K
      PROVE  id \in K
  <2> DEFINE operands == getNode(th, id).operandIds
             F(t) == IF operands = <<>> THEN 0
                     ELSE 1 + Operations(t, operands[1])
                            + (IF Len(operands) = 1 THEN 0 ELSE Operations(t, operands[2]))
  <2>1. Operations(th, id) = F(th)
    BY <1>1, OperationsUnfold
  <2>2. Operations(new, id) = F(new)
    <3>1. getNode(new, id).operandIds = operands
      BY NodeStays
    <3> QED BY <1>1, <3>1, OperationsUnfold
  <2>3. ASSUME NEW p \in {1, 2}, Len(operands) >= p
        PROVE  Operations(new, operands[p]) = Operations(th, operands[p])
    <3>1. operands[p] \in 0 .. id - 1 /\ operands[p] \in Ids(th)
      BY <1>1, <2>3, OperandBelow
    <3>2. operands[p] < id
      BY <1>1, <3>1, NodesOf
    <3> QED BY <1>2, <3>1, <3>2
  <2>4. /\ operands # <<>> => Len(operands) >= 1
        /\ operands # <<>> /\ Len(operands) # 1 => Len(operands) >= 2
    BY <1>1, OperandBelow
  <2> HIDE DEF operands
  <2>5. operands # <<>> => Operations(new, operands[1]) = Operations(th, operands[1])
    BY <2>3, <2>4
  <2>6. operands # <<>> /\ Len(operands) # 1 => Operations(new, operands[2]) = Operations(th, operands[2])
    BY <2>3, <2>4
  <2>7. F(new) = F(th)
    BY <2>5, <2>6
  <2> QED BY <2>1, <2>2, <2>7
<1> HIDE DEF K
<1>3. Ids(th) \subseteq K
  BY <1>1, <1>2, IdInduction
<1> QED BY <1>3 DEF K

(* The number of operations is one, which tells the prover to add.         *)
LEMMA OperationsAre ==
    ASSUME NEW th, Good(th)
    PROVE  \A id \in Ids(th) : Operations(th, id) \in Nat
<1> DEFINE K == {id \in Ids(th) : Operations(th, id) \in Nat}
<1>2. ASSUME NEW id \in Ids(th), \A w \in Ids(th) : w < id => w \in K
      PROVE  id \in K
  <2> DEFINE operands == getNode(th, id).operandIds
  <2>1. Operations(th, id) = IF operands = <<>> THEN 0
                     ELSE 1 + Operations(th, operands[1])
                            + (IF Len(operands) = 1 THEN 0 ELSE Operations(th, operands[2]))
    BY OperationsUnfold
  <2>3. ASSUME NEW p \in {1, 2}, Len(operands) >= p
        PROVE  Operations(th, operands[p]) \in Nat
    <3>1. operands[p] \in 0 .. id - 1 /\ operands[p] \in Ids(th)
      BY <2>3, OperandBelow
    <3>2. operands[p] < id
      BY <3>1, NodesOf
    <3> QED BY <1>2, <3>1, <3>2
  <2>4. /\ operands # <<>> => Len(operands) >= 1
        /\ operands # <<>> /\ Len(operands) # 1 => Len(operands) >= 2
    BY OperandBelow
  <2> HIDE DEF operands
  <2>5. operands # <<>> => Operations(th, operands[1]) \in Nat
    BY <2>3, <2>4
  <2>6. operands # <<>> /\ Len(operands) # 1 => Operations(th, operands[2]) \in Nat
    BY <2>3, <2>4
  <2> QED BY <2>1, <2>5, <2>6
<1> HIDE DEF K
<1>3. Ids(th) \subseteq K
  BY <1>2, IdInduction
<1> QED BY <1>3 DEF K

-----------------------------------------------------------------------------
(* The terms                                                               *)

(* The node a handler of terms makes.                                      *)
LEMMA NewTerm ==
    ASSUME NEW th, Fine(th), NEW op \in NodeOps, NEW t1 \in Ids(th), NEW t2 \in Ids(th),
           NEW result,
           result \in {handleTermArithTerm(th, op, t1, t2), handleArrayAccess(th, t1, t2)}
    PROVE  /\ result.id \in Ids(result.th)
           /\ getNode(result.th, result.id).operandIds \in {<<t1, t2>>, <<t2, t1>>}
<1>1. IsTheory(th) /\ th.nodes \in Seq(Node) /\ t1 \in Nat /\ t2 \in Nat
      /\ getNode(th, t1) \in Node /\ getNode(th, t2) \in Node /\ NextId(th) + 1 = Len(th.nodes) + 1
  BY NodesOf DEF Fine, Good, NextId
<1>2. ASSUME NEW n, NEW ids
      PROVE  LET m == propagateIsGlobal(th, n, ids)
             IN  (n \in Node => m.operandIds = n.operandIds) /\ Append(th.nodes, m)[NextId(th) + 1] = m
  <2> DEFINE m == propagateIsGlobal(th, n, ids)
  <2>1. n \in Node => m.operandIds = n.operandIds
    BY DEF Node, propagateIsGlobal
  <2> HIDE DEF m
  <2>2. Append(th.nodes, m)[NextId(th) + 1] = m
    BY <1>1
  <2> QED BY <2>1, <2>2 DEF m
<1>3. CASE result = handleTermArithTerm(th, op, t1, t2)
  <2> DEFINE u == VocabNode(op, "binary-arithmetic")
             l == getNode(th, t1).leftVars
             r == getNode(th, t2).rightVars
             c == op \in {"+", "*"}
             v == [u EXCEPT !.leftVars = l, !.rightVars = r]
             n == [u EXCEPT !.operandIds = Ordered(c, t1, t2), !.leftVars = l, !.rightVars = r]
  <2>1. l \in Seq(Nat) /\ r \in Seq(Nat)
    BY <1>1 DEF Node
  <2>3. u \in Node
    BY VocabNodeIsNode, NodeWords
  <2>7. result.th = makeNode(th, propagateIsGlobal(th, n, {t1, t2})) /\ result.id = NextId(th)
    BY <1>3 DEF handleTermArithTerm
  <2> HIDE DEF u, l, r, c
  <2>4. v \in Node
    BY <2>1, <2>3 DEF Node
  <2>5. n = [v EXCEPT !.operandIds = Ordered(c, t1, t2)]
    BY <2>3 DEF Node
  <2>10. n \in Node /\ n.operandIds = Ordered(c, t1, t2)
    <3> DEFINE s == Ordered(c, t1, t2)
    <3>1. s \in Seq(Nat)
      BY <1>1 DEF Ordered
    <3> HIDE DEF v, n, s
    <3>2. n = [v EXCEPT !.operandIds = s]
      BY <2>5 DEF s
    <3>3. n \in Node /\ n.operandIds = s
      BY <2>4, <3>1, <3>2 DEF Node
    <3> QED BY <3>3 DEF s
  <2> HIDE DEF v, n
  <2>6. LET m == propagateIsGlobal(th, n, {t1, t2})
        IN  m.operandIds = Ordered(c, t1, t2) /\ Append(th.nodes, m)[NextId(th) + 1] = m
    BY <1>2, <2>10
  <2>8. getNode(result.th, result.id).operandIds = Ordered(c, t1, t2)
    BY <1>1, <2>6, <2>7 DEF makeNode, getNode, IsTheory
  <2>9. result.id \in Ids(result.th)
    BY <1>3, HandlersMake DEF Makes
  <2> QED BY <2>8, <2>9 DEF Ordered
<1>4. CASE result = handleArrayAccess(th, t1, t2)
  <2> DEFINE u == VocabNode("[]", "access")
             n == [u EXCEPT !.element = TRUE, !.operandIds = <<t1, t2>>, !.leftVars = <<t1>>, !.rightVars = <<t1>>]
             m == propagateIsGlobal(th, n, {t2})
  <2>1. u \in Node
    BY VocabNodeIsNode, NodeWords
  <2>2. result.th.nodes = Append(th.nodes, m) /\ result.id = NextId(th)
    BY <1>1, <1>4 DEF handleArrayAccess, makeNode, IsTheory
  <2> HIDE DEF u
  <2>4. n \in Node /\ n.operandIds = <<t1, t2>>
    <3>1. <<t1, t2>> \in Seq(Nat) /\ <<t1>> \in Seq(Nat)
      BY <1>1
    <3> QED BY <2>1, <3>1 DEF Node
  <2> HIDE DEF n
  <2>5. m.operandIds = <<t1, t2>> /\ Append(th.nodes, m)[NextId(th) + 1] = m
    BY <1>2, <2>4
  <2> HIDE DEF m
  <2>6. getNode(result.th, result.id).operandIds = <<t1, t2>>
    BY <2>2, <2>5 DEF getNode
  <2>7. result.id \in Ids(result.th)
    BY <1>4, HandlersMake DEF Makes
  <2> QED BY <2>6, <2>7
<1> QED BY <1>3, <1>4

(* Ids of terms with n operations.                                         *)
Counted(th, s, n) == s \in Seq(Ids(th)) /\ \A i \in 1 .. Len(s) : Operations(th, s[i]) = n

LEMMA CountedStays ==
    ASSUME NEW th, Fine(th), NEW new, On(th, new), NEW s, NEW n, Counted(th, s, n)
    PROVE  Counted(new, s, n)
<1>1. Ids(th) \subseteq Ids(new) /\ s \in Seq(Ids(th)) /\ \A i \in 1 .. Len(s) : s[i] \in Ids(th)
  BY OnIs DEF Counted
<1>2. \A i \in 1 .. Len(s) : Operations(new, s[i]) = n
  BY <1>1, OperationsStay DEF Counted
<1>3. s \in Seq(Ids(new))
  BY <1>1, SeqWidens
<1> QED BY <1>2, <1>3 DEF Counted

(* Two operands, one operation more.                                       *)
LEMMA PairCounts ==
    ASSUME NEW th, Good(th), NEW id \in Ids(th), NEW t1, NEW t2,
           getNode(th, id).operandIds \in {<<t1, t2>>, <<t2, t1>>}
    PROVE  /\ t1 \in Ids(th) /\ t2 \in Ids(th)
           /\ Operations(th, id) = 1 + Operations(th, t1) + Operations(th, t2)
<1> DEFINE operands == getNode(th, id).operandIds
<1>1. ASSUME NEW x, NEW y, operands = <<x, y>>
      PROVE  /\ x \in Ids(th) /\ y \in Ids(th)
             /\ Operations(th, id) = 1 + Operations(th, x) + Operations(th, y)
  <2>1. Len(operands) = 2 /\ operands # <<>> /\ operands[1] = x /\ operands[2] = y
    BY <1>1
  <2>2. Operations(th, id) = IF operands = <<>> THEN 0
                     ELSE 1 + Operations(th, operands[1])
                            + (IF Len(operands) = 1 THEN 0 ELSE Operations(th, operands[2]))
    BY OperationsUnfold
  <2>3. x \in Ids(th) /\ y \in Ids(th)
    BY <2>1, OperandBelow
  <2> QED BY <2>1, <2>2, <2>3
<1>2. \A x \in Ids(th) : Operations(th, x) \in Nat
  BY OperationsAre
<1>3. CASE operands = <<t1, t2>>
  BY <1>1, <1>3
<1>4. CASE operands = <<t2, t1>>
  <2>1. /\ t2 \in Ids(th) /\ t1 \in Ids(th)
        /\ Operations(th, id) = 1 + Operations(th, t2) + Operations(th, t1)
    BY <1>1, <1>4
  <2> QED BY <1>2, <2>1
<1> QED BY <1>3, <1>4

(* The fields nothing here touches.                                        *)
Apart(th, new) ==
    /\ new.generatedVocabIds = th.generatedVocabIds /\ new.quantFreeVocIds = th.quantFreeVocIds
    /\ new.boundTerms = th.boundTerms

LEMMA MakeTermCounts ==
    ASSUME NEW acc, Fine(acc.th), NEW n1 \in Ids(acc.th), NEW n2 \in Ids(acc.th), NEW op \in NodeOps,
           NEW n, Counted(acc.th, acc.ids, n),
           n = 1 + Operations(acc.th, n1) + Operations(acc.th, n2)
    PROVE  LET new == makeTerm(acc, n1, n2, op)
           IN  On(acc.th, new.th) /\ Apart(acc.th, new.th) /\ Counted(new.th, new.ids, n)
<1> DEFINE new == makeTerm(acc, n1, n2, op)
<1>1. new = acc \/ \E r \in {handleTermArithTerm(acc.th, op, n1, n2), handleArrayAccess(acc.th, n1, n2)} :
                      new = [th |-> r.th, ids |-> Append(acc.ids, r.id)]
  BY DEF makeTerm
<1> HIDE DEF new
<1>2. CASE new = acc
  BY <1>2, OnIs DEF new, Apart
<1>3. CASE new # acc
  <2>1. PICK r \in {handleTermArithTerm(acc.th, op, n1, n2), handleArrayAccess(acc.th, n1, n2)} :
                      new = [th |-> r.th, ids |-> Append(acc.ids, r.id)]
    BY <1>1, <1>3
  <2>2. Makes(acc.th, r)
    BY <2>1, HandlersMake
  <2>3. On(acc.th, r.th) /\ Apart(acc.th, r.th) /\ r.id \in Ids(r.th) /\ Good(r.th)
    BY <2>2, OnIs DEF Makes, Adds, TermFrame, Frame, Apart, Fine
  <2>4. Operations(r.th, r.id) = n
    <3>1. getNode(r.th, r.id).operandIds \in {<<n1, n2>>, <<n2, n1>>}
      BY NewTerm
    <3>2. Operations(r.th, r.id) = 1 + Operations(r.th, n1) + Operations(r.th, n2)
      BY <2>3, <3>1, PairCounts
    <3> QED BY <2>3, <3>2, OperationsStay
  <2>5. Counted(r.th, acc.ids, n)
    BY <2>3, CountedStays
  <2>6. Counted(r.th, Append(acc.ids, r.id), n)
    BY <2>3, <2>4, <2>5 DEF Counted
  <2> QED BY <2>1, <2>3, <2>6 DEF new
<1> QED BY <1>2, <1>3

(* Some rule lets op join what n1 ends in to what n2 begins with.          *)
Joining(th, n1, n2, op) ==
    /\ Has(OpOrder, op)
    /\ \E i \in 1 .. Len(getNode(th, n1).rightVars), j \in 1 .. Len(getNode(th, n2).leftVars) :
          <<getNode(th, n1).rightVars[i], getNode(th, n2).leftVars[j], op>> \in th.rulemap

LEMMA SeqItem == \A X : \A s \in Seq(X) : \A k \in 1 .. Len(s) : s[k] \in X
OBVIOUS

LEMMA OpOrderIs ==
    /\ DOMAIN OpOrder = 1 .. 11 /\ Len(OpOrder) = 11
    /\ \A k \in 1 .. 11 : OpOrder[k] \in NodeOps
    /\ \A op \in RelationalOps : Has(OpOrder, op)
<1>1. DOMAIN OpOrder = 1 .. 11 /\ Len(OpOrder) = 11
  BY DEF OpOrder
<1>2. OpOrder \in Seq(NodeOps)
  <2>1. {"%", "*", "+", "-", "/", "<", "<=", "=", ">", ">=", "[]"} \subseteq NodeOps
    BY DEF NodeOps, ArithOps, RelationalOps
  <2> HIDE DEF NodeOps
  <2> QED BY <2>1 DEF OpOrder
<1>3. OpOrder[6] = "<" /\ OpOrder[7] = "<=" /\ OpOrder[8] = "=" /\ OpOrder[9] = ">" /\ OpOrder[10] = ">="
  BY DEF OpOrder
<1>4. \A op \in RelationalOps : \E k \in 1 .. 11 : OpOrder[k] = op
  BY <1>3 DEF RelationalOps
<1>5. \A op \in RelationalOps : Has(OpOrder, op)
  BY <1>1, <1>4 DEF Has
<1>6. \A k \in 1 .. 11 : OpOrder[k] \in NodeOps
  BY <1>1, <1>2, SeqItem
<1> QED BY <1>1, <1>5, <1>6

LEMMA RuleOpsAre ==
    ASSUME NEW th, NEW id1, NEW id2
    PROVE  /\ RuleOps(th, id1, id2) \in Seq(NodeOps)
           /\ \A op : Has(RuleOps(th, id1, id2), op) <=> <<id1, id2, op>> \in th.rulemap /\ Has(OpOrder, op)
<1> DEFINE S == {k \in DOMAIN OpOrder : <<id1, id2, OpOrder[k]>> \in th.rulemap}
           places == Ascending(S)
           ops == [m \in DOMAIN places |-> OpOrder[places[m]]]
<1>1. RuleOps(th, id1, id2) = ops
  BY DEF RuleOps
<1>2. S \in SUBSET (0 .. 11) /\ 11 \in Nat
  BY OpOrderIs
<1>3. places \in Seq(S) /\ \A x : Has(places, x) <=> x \in S
  <2> HIDE DEF S
  <2> QED BY <1>2, AscendingIs
<1>4. \A k : k \in S <=> k \in 1 .. 11 /\ <<id1, id2, OpOrder[k]>> \in th.rulemap
  BY OpOrderIs
<1> HIDE DEF S, places
<1>5. DOMAIN places = 1 .. Len(places) /\ Len(places) \in Nat /\ \A m \in 1 .. Len(places) : places[m] \in S
  BY <1>3
<1>6. ops \in Seq(NodeOps) /\ Len(ops) = Len(places) /\ \A m \in 1 .. Len(places) : ops[m] = OpOrder[places[m]]
  <2>1. \A m \in 1 .. Len(places) : OpOrder[places[m]] \in NodeOps
    BY <1>4, <1>5, OpOrderIs
  <2>2. ops \in [1 .. Len(places) -> NodeOps]
    BY <1>5, <2>1
  <2>3. ops \in Seq(NodeOps) /\ DOMAIN ops = 1 .. Len(places)
    BY <1>5, <2>2
  <2> QED BY <1>5, <2>3
<1> HIDE DEF ops
<1>7. ASSUME NEW op, Has(ops, op)
      PROVE  <<id1, id2, op>> \in th.rulemap /\ Has(OpOrder, op)
  <2>1. PICK m \in 1 .. Len(ops) : ops[m] = op
    BY <1>7 DEF Has
  <2>2. places[m] \in S /\ op = OpOrder[places[m]]
    BY <1>5, <1>6, <2>1
  <2> QED BY <1>4, <2>2, OpOrderIs DEF Has
<1>8. ASSUME NEW op, <<id1, id2, op>> \in th.rulemap, Has(OpOrder, op)
      PROVE  Has(ops, op)
  <2>1. PICK k \in 1 .. 11 : OpOrder[k] = op
    BY <1>8, OpOrderIs DEF Has
  <2>2. k \in S
    BY <1>4, <1>8, <2>1
  <2>3. PICK m \in 1 .. Len(places) : places[m] = k
    BY <1>3, <2>2 DEF Has
  <2> QED BY <1>6, <2>1, <2>3 DEF Has
<1> QED BY <1>1, <1>6, <1>7, <1>8

LEMMA JoiningOpsAre ==
    ASSUME NEW th, Good(th), NEW n1 \in Ids(th), NEW n2 \in Ids(th)
    PROVE  /\ JoiningOps(th, n1, n2) \in Seq(NodeOps)
           /\ \A op : Has(JoiningOps(th, n1, n2), op) <=> Joining(th, n1, n2, op)
<1> DEFINE s == getNode(th, n1).rightVars
           t == getNode(th, n2).leftVars
           pairs == Pairs(s, t)
           ss == [p \in DOMAIN pairs |-> RuleOps(th, pairs[p][1], pairs[p][2])]
<1>1. s \in Seq(Nat) /\ t \in Seq(Nat)
  BY NodesOf DEF Node
<1>2. JoiningOps(th, n1, n2) = FlattenSeq(ss)
  BY DEF JoiningOps
<1>0. \A op : Joining(th, n1, n2, op) <=>
         Has(OpOrder, op) /\ \E i \in 1 .. Len(s), j \in 1 .. Len(t) : <<s[i], t[j], op>> \in th.rulemap
  BY DEF Joining
<1> HIDE DEF s, t
<1>3. pairs \in Seq(Nat \X Nat) /\ \A x : Has(pairs, x) <=> Paired(s, t, x)
  BY <1>1, PairsHave
<1> HIDE DEF pairs
<1>4. Len(pairs) \in Nat /\ DOMAIN pairs = 1 .. Len(pairs)
  BY <1>3
<1>5. ss \in Seq(Seq(NodeOps)) /\ Len(ss) = Len(pairs)
      /\ \A p \in 1 .. Len(pairs) : ss[p] = RuleOps(th, pairs[p][1], pairs[p][2])
  <2>1. ss \in [1 .. Len(pairs) -> Seq(NodeOps)]
    BY <1>4, RuleOpsAre
  <2>2. ss \in Seq(Seq(NodeOps)) /\ DOMAIN ss = 1 .. Len(pairs)
    BY <1>4, <2>1
  <2> QED BY <1>4, <2>2
<1> HIDE DEF ss
<1>6. FlattenSeq(ss) \in Seq(NodeOps)
      /\ \A x : Has(FlattenSeq(ss), x) <=> \E i \in 1 .. Len(ss) : Has(ss[i], x)
  BY <1>5, FlattenHas
<1>7. ASSUME NEW op, NEW p \in 1 .. Len(ss), Has(ss[p], op)
      PROVE  Joining(th, n1, n2, op)
  <2>1. <<pairs[p][1], pairs[p][2], op>> \in th.rulemap /\ Has(OpOrder, op)
    <3>1. Has(RuleOps(th, pairs[p][1], pairs[p][2]), op)
      BY <1>5, <1>7
    <3> QED BY <3>1, RuleOpsAre
  <2>2. Paired(s, t, pairs[p])
    BY <1>3, <1>5 DEF Has
  <2>3. PICK a \in 1 .. Len(s), b \in 1 .. Len(t) : pairs[p] = <<s[a], t[b]>>
    BY <2>2 DEF Paired
  <2>4. pairs[p][1] = s[a] /\ pairs[p][2] = t[b]
    BY <2>3
  <2> QED BY <1>0, <2>1, <2>4
<1>8. ASSUME NEW op, Joining(th, n1, n2, op)
      PROVE  \E p \in 1 .. Len(ss) : Has(ss[p], op)
  <2>1. PICK a \in 1 .. Len(s), b \in 1 .. Len(t) : <<s[a], t[b], op>> \in th.rulemap
    BY <1>0, <1>8
  <2>2. Has(pairs, <<s[a], t[b]>>)
    BY <1>3 DEF Paired
  <2>3. PICK p \in 1 .. Len(pairs) : pairs[p] = <<s[a], t[b]>>
    BY <2>2 DEF Has
  <2>4. pairs[p][1] = s[a] /\ pairs[p][2] = t[b]
    BY <2>3
  <2>5. ss[p] = RuleOps(th, s[a], t[b])
    BY <1>5, <2>4
  <2>6. Has(RuleOps(th, s[a], t[b]), op)
    BY <1>0, <1>8, <2>1, RuleOpsAre
  <2> QED BY <1>5, <2>5, <2>6
<1> QED BY <1>2, <1>6, <1>7, <1>8

(* The joins of one pair.                                                  *)
JoinsOf(th, pair) ==
    LET ops == IF pair[1] = pair[2] THEN <<>> ELSE JoiningOps(th, pair[1], pair[2])
    IN  [m \in DOMAIN ops |-> <<pair[1], pair[2], ops[m]>>]

IsJoin(th, n1, n2, x) == \E op : x = <<n1, n2, op>> /\ n1 # n2 /\ Joining(th, n1, n2, op)

LEMMA JoinsOfAre ==
    ASSUME NEW th, Good(th), NEW n1 \in Ids(th), NEW n2 \in Ids(th)
    PROVE  /\ JoinsOf(th, <<n1, n2>>) \in Seq(Ids(th) \X Ids(th) \X NodeOps)
           /\ \A x : Has(JoinsOf(th, <<n1, n2>>), x) <=> IsJoin(th, n1, n2, x)
<1> DEFINE ops == IF n1 = n2 THEN <<>> ELSE JoiningOps(th, n1, n2)
           joins == [m \in DOMAIN ops |-> <<n1, n2, ops[m]>>]
<1>1. JoinsOf(th, <<n1, n2>>) = joins
  BY DEF JoinsOf
<1>2. ops \in Seq(NodeOps)
      /\ \A op : Has(ops, op) <=> n1 # n2 /\ Joining(th, n1, n2, op)
  <2>1. CASE n1 = n2
    BY <2>1 DEF Has
  <2>2. CASE n1 # n2
    BY <2>2, JoiningOpsAre
  <2> QED BY <2>1, <2>2
<1> HIDE DEF ops
<1>3. Len(ops) \in Nat /\ DOMAIN ops = 1 .. Len(ops) /\ \A m \in 1 .. Len(ops) : ops[m] \in NodeOps
  BY <1>2
<1>4. joins \in Seq(Ids(th) \X Ids(th) \X NodeOps) /\ Len(joins) = Len(ops)
      /\ \A m \in 1 .. Len(ops) : joins[m] = <<n1, n2, ops[m]>>
  <2>1. joins \in [1 .. Len(ops) -> Ids(th) \X Ids(th) \X NodeOps]
    BY <1>3
  <2>2. joins \in Seq(Ids(th) \X Ids(th) \X NodeOps) /\ DOMAIN joins = 1 .. Len(ops)
    BY <1>3, <2>1
  <2> QED BY <1>3, <2>2
<1> HIDE DEF joins
<1>5. ASSUME NEW x, Has(joins, x)
      PROVE  IsJoin(th, n1, n2, x)
  <2>1. PICK m \in 1 .. Len(ops) : x = <<n1, n2, ops[m]>>
    BY <1>4, <1>5 DEF Has
  <2>2. n1 # n2 /\ Joining(th, n1, n2, ops[m])
    BY <1>2 DEF Has
  <2> QED BY <2>1, <2>2 DEF IsJoin
<1>6. ASSUME NEW x, IsJoin(th, n1, n2, x)
      PROVE  Has(joins, x)
  <2>1. PICK op : x = <<n1, n2, op>> /\ n1 # n2 /\ Joining(th, n1, n2, op)
    BY <1>6 DEF IsJoin
  <2>2. PICK m \in 1 .. Len(ops) : ops[m] = op
    BY <1>2, <2>1 DEF Has
  <2> QED BY <1>4, <2>1, <2>2 DEF Has
<1> QED BY <1>1, <1>4, <1>5, <1>6

LEMMA JoinedAre ==
    ASSUME NEW th, Good(th), NEW s \in Seq(Ids(th)), NEW t \in Seq(Ids(th))
    PROVE  /\ Joined(th, s, t) \in Seq(Ids(th) \X Ids(th) \X NodeOps)
           /\ \A x : Has(Joined(th, s, t), x)
                        <=> \E i \in 1 .. Len(s), j \in 1 .. Len(t) : IsJoin(th, s[i], t[j], x)
<1> DEFINE pairs == Pairs(s, t)
           J == Ids(th) \X Ids(th) \X NodeOps
           ss == [k \in DOMAIN pairs |-> JoinsOf(th, pairs[k])]
           I == Ids(th)
<1>1. Joined(th, s, t) = FlattenSeq(ss)
  BY DEF Joined, JoinsOf
<1>2. pairs \in Seq(I \X I) /\ \A x : Has(pairs, x) <=> Paired(s, t, x)
  <2>1. s \in Seq(I) /\ t \in Seq(I)
    OBVIOUS
  <2> HIDE DEF I
  <2> QED BY <2>1, PairsHave
<1> HIDE DEF pairs
<1>3. Len(pairs) \in Nat /\ DOMAIN pairs = 1 .. Len(pairs)
      /\ \A p \in 1 .. Len(pairs) : pairs[p] = <<pairs[p][1], pairs[p][2]>> /\ pairs[p][1] \in Ids(th) /\ pairs[p][2] \in Ids(th)
  BY <1>2
<1>4. ASSUME NEW p \in 1 .. Len(pairs)
      PROVE  /\ JoinsOf(th, pairs[p]) \in Seq(J)
             /\ \A x : Has(JoinsOf(th, pairs[p]), x) <=> IsJoin(th, pairs[p][1], pairs[p][2], x)
  <2> DEFINE a == pairs[p][1]
             b == pairs[p][2]
  <2>1. a \in Ids(th) /\ b \in Ids(th) /\ pairs[p] = <<a, b>>
    BY <1>3
  <2> HIDE DEF a, b
  <2>2. /\ JoinsOf(th, <<a, b>>) \in Seq(J)
        /\ \A x : Has(JoinsOf(th, <<a, b>>), x) <=> IsJoin(th, a, b, x)
    BY <2>1, JoinsOfAre
  <2> QED BY <2>1, <2>2 DEF a, b
<1> HIDE DEF J
<1>5. ss \in Seq(Seq(J)) /\ Len(ss) = Len(pairs) /\ \A p \in 1 .. Len(pairs) : ss[p] = JoinsOf(th, pairs[p])
  <2>1. ss \in [1 .. Len(pairs) -> Seq(J)]
    BY <1>3, <1>4
  <2>2. ss \in Seq(Seq(J)) /\ DOMAIN ss = 1 .. Len(pairs)
    BY <1>3, <2>1
  <2> QED BY <1>3, <2>2
<1> HIDE DEF ss
<1>6. FlattenSeq(ss) \in Seq(J)
      /\ \A x : Has(FlattenSeq(ss), x) <=> \E i \in 1 .. Len(ss) : Has(ss[i], x)
  BY <1>5, FlattenHas
<1>7. ASSUME NEW x, NEW p \in 1 .. Len(ss), Has(ss[p], x)
      PROVE  \E i \in 1 .. Len(s), j \in 1 .. Len(t) : IsJoin(th, s[i], t[j], x)
  <2>1. IsJoin(th, pairs[p][1], pairs[p][2], x)
    BY <1>4, <1>5, <1>7
  <2>2. Paired(s, t, pairs[p])
    BY <1>2, <1>5 DEF Has
  <2>3. PICK i \in 1 .. Len(s), j \in 1 .. Len(t) : pairs[p] = <<s[i], t[j]>>
    BY <2>2 DEF Paired
  <2>4. pairs[p][1] = s[i] /\ pairs[p][2] = t[j]
    BY <2>3
  <2> QED BY <2>1, <2>4
<1>8. ASSUME NEW x, NEW i \in 1 .. Len(s), NEW j \in 1 .. Len(t), IsJoin(th, s[i], t[j], x)
      PROVE  \E p \in 1 .. Len(ss) : Has(ss[p], x)
  <2>1. Has(pairs, <<s[i], t[j]>>)
    BY <1>2 DEF Paired
  <2>2. PICK p \in 1 .. Len(pairs) : pairs[p] = <<s[i], t[j]>>
    BY <2>1 DEF Has
  <2>3. pairs[p][1] = s[i] /\ pairs[p][2] = t[j]
    BY <2>2
  <2> QED BY <1>4, <1>5, <1>8, <2>3
<1> QED BY <1>1, <1>6, <1>7, <1>8 DEF J

-----------------------------------------------------------------------------
(* Terms                                                                   *)

(* What making terms does to what was made so far.                         *)
Grown(acc, new, n) ==
    On(acc.th, new.th) /\ Apart(acc.th, new.th) /\ Counted(new.th, new.ids, n)

LEMMA ApartTransitive ==
    ASSUME NEW th, NEW new, NEW more, Apart(th, new), Apart(new, more)
    PROVE  Apart(th, more)
BY DEF Apart

LEMMA ApartIs == \A th : Apart(th, th)
BY DEF Apart

LEMMA TermsNIJGrow ==
    ASSUME NEW acc, Fine(acc.th), NEW a \in Nat, NEW b \in Nat, NEW s, NEW t,
           Counted(acc.th, s, a), Counted(acc.th, t, b), NEW n, n = 1 + a + b,
           Counted(acc.th, acc.ids, n)
    PROVE  Grown(acc, generateTermsNIJ(acc, s, t), n)
<1> DEFINE joins == Joined(acc.th, s, t)
           J == Ids(acc.th) \X Ids(acc.th) \X NodeOps
<1>1. generateTermsNIJ(acc, s, t) = MadeTerms(acc, joins)
  BY DEF generateTermsNIJ, MadeTerms, Loop
<1>2. s \in Seq(Ids(acc.th)) /\ t \in Seq(Ids(acc.th)) /\ Good(acc.th)
  BY DEF Counted, Fine
<1>3. /\ joins \in Seq(J)
      /\ \A x : Has(joins, x) => \E i \in 1 .. Len(s), j \in 1 .. Len(t) : IsJoin(acc.th, s[i], t[j], x)
  BY <1>2, JoinedAre
<1> HIDE DEF joins
<1>4. Len(joins) \in Nat
  BY <1>3
<1>5. PICK made : /\ MadeTerms(acc, joins) = made[Len(joins)]
                  /\ made[0] = acc
                  /\ \A k \in 1 .. Len(joins) :
                        made[k] = makeTerm(made[k - 1], joins[k][1], joins[k][2], joins[k][3])
  BY <1>4, MadeTermsIs
<1> DEFINE K == {k \in 0 .. Len(joins) : Grown(acc, made[k], n)}
<1>6. 0 \in K
  BY <1>4, <1>5, OnIs, ApartIs DEF Grown
<1>7. ASSUME NEW k \in 1 .. Len(joins), k - 1 \in K
      PROVE  k \in K
  <2> DEFINE cur == made[k - 1]
             x == joins[k]
  <2>1. On(acc.th, cur.th) /\ Apart(acc.th, cur.th) /\ Counted(cur.th, cur.ids, n) /\ Fine(cur.th)
        /\ Ids(acc.th) \subseteq Ids(cur.th)
    BY <1>7, OnIs DEF Grown
  <2>2. x \in J /\ Has(joins, x)
    BY <1>3, <1>4, SeqItem DEF Has
  <2>3. PICK i \in 1 .. Len(s), j \in 1 .. Len(t) : IsJoin(acc.th, s[i], t[j], x)
    BY <1>3, <2>2
  <2>4. x[1] = s[i] /\ x[2] = t[j] /\ x[1] \in Ids(cur.th) /\ x[2] \in Ids(cur.th) /\ x[3] \in NodeOps
    BY <2>1, <2>2, <2>3 DEF IsJoin
  <2>5. made[k] = makeTerm(cur, x[1], x[2], x[3])
    BY <1>5
  <2>6. Operations(cur.th, x[1]) = a /\ Operations(cur.th, x[2]) = b
    <3>1. Counted(cur.th, s, a) /\ Counted(cur.th, t, b)
      BY <2>1, CountedStays
    <3> QED BY <2>4, <3>1 DEF Counted
  <2> HIDE DEF cur, x
  <2>7. On(cur.th, made[k].th) /\ Apart(cur.th, made[k].th) /\ Counted(made[k].th, made[k].ids, n)
    <3>1. n = 1 + Operations(cur.th, x[1]) + Operations(cur.th, x[2])
      BY <2>6
    <3> QED BY <2>1, <2>4, <2>5, <3>1, MakeTermCounts
  <2>8. On(acc.th, made[k].th) /\ Apart(acc.th, made[k].th)
    BY <2>1, <2>7, OnIs, ApartTransitive
  <2> QED BY <1>4, <2>7, <2>8 DEF Grown
<1> HIDE DEF K
<1>8. Len(joins) \in K
  BY <1>4, <1>6, <1>7, LoopInduction
<1> QED BY <1>1, <1>5, <1>8 DEF K

(* terms[n + 1]: the terms with n operations.                              *)
Tiers(th, terms) ==
    /\ terms \in Seq(Seq(Nat))
    /\ \A i \in 1 .. Len(terms) : Counted(th, terms[i], i - 1)

LEMMA TiersStay ==
    ASSUME NEW th, Fine(th), NEW new, On(th, new), NEW terms, Tiers(th, terms)
    PROVE  Tiers(new, terms)
BY CountedStays DEF Tiers

(* The terms with n operations, from those with fewer.                     *)
LEMMA TermsNGrow ==
    ASSUME NEW acc, Fine(acc.th), Tiers(acc.th, acc.terms), NEW n \in Nat, n >= 1, Len(acc.terms) = n
    PROVE  LET new == generateTermsN(acc, n)
           IN  /\ On(acc.th, new.th) /\ Apart(acc.th, new.th)
               /\ Tiers(new.th, new.terms) /\ Len(new.terms) = n + 1
               /\ \A i \in 1 .. n : new.terms[i] = acc.terms[i]
<1> DEFINE base == [th |-> acc.th, ids |-> <<>>]
           s == [i \in 1 .. n |-> i]
           grown == SplitTerms(base, s, acc.terms, n)
           new == generateTermsN(acc, n)
<1>1. new = [th |-> grown.th, terms |-> Append(acc.terms, grown.ids)]
  BY DEF generateTermsN, SplitTerms, Loop
<1>2. s \in Seq(Nat) /\ Len(s) = n /\ \A k \in 1 .. n : s[k] = k
  <2>1. s \in [1 .. n -> Nat] /\ DOMAIN s = 1 .. n
    OBVIOUS
  <2> QED BY <2>1
<1> HIDE DEF s
<1>3. PICK made : IsSplit(made, base, s, acc.terms, n)
  BY <1>2, SplitTermsIs
<1>11. grown = made[Len(s)] /\ made[0] = base
       /\ \A k \in 1 .. Len(s) :
            made[k] = generateTermsNIJ(made[k - 1], acc.terms[s[k]], acc.terms[n + 1 - s[k]])
  BY <1>3 DEF IsSplit
<1> HIDE DEF grown
<1> DEFINE K == {k \in 0 .. n : Grown(base, made[k], n)}
<1>4. 0 \in K
  <2>1. Counted(acc.th, <<>>, n)
    BY DEF Counted
  <2> QED BY <1>11, <2>1, OnIs, ApartIs DEF Grown
<1>5. ASSUME NEW k \in 1 .. n, k - 1 \in K
      PROVE  k \in K
  <2> DEFINE cur == made[k - 1]
  <2>1. On(acc.th, cur.th) /\ Apart(acc.th, cur.th) /\ Counted(cur.th, cur.ids, n) /\ Fine(cur.th)
    BY <1>5, OnIs DEF Grown
  <2>2. made[k] = generateTermsNIJ(cur, acc.terms[k], acc.terms[n + 1 - k])
    BY <1>2, <1>11
  <2>3. Counted(cur.th, acc.terms[k], k - 1) /\ Counted(cur.th, acc.terms[n + 1 - k], n - k)
    <3>1. Tiers(cur.th, acc.terms)
      BY <2>1, TiersStay
    <3>2. n + 1 - k \in 1 .. n /\ n + 1 - k - 1 = n - k
      OBVIOUS
    <3> QED BY <3>1, <3>2 DEF Tiers
  <2>4. Grown(cur, made[k], n)
    <3>1. k - 1 \in Nat /\ n - k \in Nat /\ n = 1 + (k - 1) + (n - k)
      OBVIOUS
    <3> HIDE DEF cur
    <3> QED BY <2>1, <2>2, <2>3, <3>1, TermsNIJGrow
  <2>5. On(acc.th, made[k].th) /\ Apart(acc.th, made[k].th)
    BY <2>1, <2>4, OnIs, ApartTransitive DEF Grown
  <2> QED BY <2>4, <2>5 DEF Grown
<1> HIDE DEF K
<1>6. n \in K
  BY <1>4, <1>5, LoopInduction
<1>7. On(acc.th, grown.th) /\ Apart(acc.th, grown.th) /\ Counted(grown.th, grown.ids, n)
  BY <1>2, <1>6, <1>11 DEF K, Grown
<1>8. Tiers(grown.th, acc.terms)
  BY <1>7, TiersStay
<1> DEFINE more == Append(acc.terms, grown.ids)
<1>9. more \in Seq(Seq(Nat)) /\ Len(more) = n + 1 /\ more[n + 1] = grown.ids
      /\ \A i \in 1 .. n : more[i] = acc.terms[i]
  <2> DEFINE X == Seq(Nat)
             old == acc.terms
             ids == grown.ids
  <2>1. old \in Seq(X)
    BY <1>8 DEF Tiers
  <2>2. ids \in X
    <3>1. ids \in Seq(Ids(grown.th)) /\ Ids(grown.th) \subseteq Nat
      BY <1>7 DEF Counted, Ids
    <3> HIDE DEF ids
    <3> QED BY <3>1, SeqWidens
  <2>3. Len(old) = n
    OBVIOUS
  <2> HIDE DEF X, old, ids
  <2>4. /\ Append(old, ids) \in Seq(X) /\ Len(Append(old, ids)) = n + 1
        /\ Append(old, ids)[n + 1] = ids /\ \A i \in 1 .. n : Append(old, ids)[i] = old[i]
    BY <2>1, <2>2, <2>3
  <2> QED BY <2>4 DEF X, old, ids
<1> HIDE DEF more
<1>10. Tiers(grown.th, more)
  <2>1. ASSUME NEW i \in 1 .. n + 1
        PROVE  Counted(grown.th, more[i], i - 1)
    <3>1. CASE i = n + 1
      BY <1>7, <1>9, <3>1
    <3>2. CASE i \in 1 .. n
      BY <1>8, <1>9, <3>2 DEF Tiers
    <3> QED BY <3>1, <3>2
  <2> QED BY <1>9, <2>1 DEF Tiers
<1> QED BY <1>1, <1>7, <1>9, <1>10 DEF more

LEMMA ConcatIs ==
    ASSUME NEW X, NEW c \in Seq(X), NEW v \in Seq(X)
    PROVE  /\ c \o v \in Seq(X) /\ Len(c \o v) = Len(c) + Len(v) /\ Len(c) \in Nat /\ Len(v) \in Nat
           /\ \A i \in 1 .. Len(c) : (c \o v)[i] = c[i] /\ c[i] \in X
           /\ \A i \in 1 .. Len(v) : (c \o v)[Len(c) + i] = v[i] /\ v[i] \in X
OBVIOUS

(* The variables and constants, of which terms are made.                   *)
LEMMA BasicCounts ==
    ASSUME NEW th, Fine(th)
    PROVE  Tiers(th, <<th.constantIds \o th.varIds>>)
<1>1. Good(th) /\ Shaped(th) /\ th.constantIds \in Seq(Ids(th)) /\ th.varIds \in Seq(Ids(th))
  BY VarIdsOf DEF Fine, Settled
<1>2. /\ \A i \in 1 .. Len(th.constantIds) : getNode(th, th.constantIds[i]).type = "literal"
      /\ \A i \in 1 .. Len(th.varIds) : getNode(th, th.varIds[i]).isVar
  BY <1>1 DEF Good, Sound, LiteralsIn, NamedIn, getNode
<1>3. ASSUME NEW id \in Ids(th), getNode(th, id).isVar \/ getNode(th, id).type = "literal"
      PROVE  Operations(th, id) = 0
  <2>1. id + 1 \in 1 .. Len(th.nodes) /\ id \in Nat
    BY <1>1, NodesOf DEF Ids
  <2>2. Own(getNode(th, id), id + 1 - 1)
    BY <1>1, <2>1 DEF Shaped, getNode
  <2>3. getNode(th, id).operandIds = <<>>
    BY <1>3, <2>2 DEF Own
  <2> QED BY <1>1, <2>3, OperationsUnfold
<1> DEFINE c == th.constantIds
           v == th.varIds
           s == c \o v
<1>7. /\ c \in Seq(Ids(th)) /\ v \in Seq(Ids(th))
      /\ \A i \in 1 .. Len(c) : getNode(th, c[i]).type = "literal"
      /\ \A i \in 1 .. Len(v) : getNode(th, v[i]).isVar
  BY <1>1, <1>2
<1> HIDE DEF c, v
<1>4. /\ s \in Seq(Ids(th)) /\ Len(s) = Len(c) + Len(v) /\ Len(c) \in Nat /\ Len(v) \in Nat
      /\ \A i \in 1 .. Len(c) : s[i] = c[i] /\ c[i] \in Ids(th)
      /\ \A i \in 1 .. Len(v) : s[Len(c) + i] = v[i] /\ v[i] \in Ids(th)
  BY <1>7, ConcatIs
<1> HIDE DEF s
<1>5. ASSUME NEW i \in 1 .. Len(s)
      PROVE  Operations(th, s[i]) = 0
  <2>1. CASE i <= Len(c)
    <3>1. i \in 1 .. Len(c)
      BY <1>4, <2>1
    <3> QED BY <1>3, <1>4, <1>7, <3>1
  <2>2. CASE ~ i <= Len(c)
    <3> DEFINE j == i - Len(c)
    <3>1. j \in 1 .. Len(v) /\ i = Len(c) + j
      BY <1>4, <2>2
    <3> HIDE DEF j
    <3>2. s[i] = v[j] /\ v[j] \in Ids(th)
      BY <1>4, <3>1
    <3> QED BY <1>3, <1>7, <3>1, <3>2
  <2> QED BY <2>1, <2>2
<1>6. Counted(th, s, 0)
  BY <1>4, <1>5 DEF Counted
<1>9. <<s>> \in Seq(Seq(Nat)) /\ Len(<<s>>) = 1 /\ <<s>>[1] = s
  <2>1. Ids(th) \subseteq Nat
    BY DEF Ids
  <2>2. s \in Seq(Nat)
    BY <1>4, <2>1, SeqWidens
  <2> DEFINE X == Seq(Nat)
  <2>3. s \in X
    BY <2>2
  <2> HIDE DEF X
  <2>4. <<s>> \in Seq(X)
    BY <2>3
  <2> QED BY <2>4 DEF X
<1>8. Tiers(th, <<s>>)
  BY <1>6, <1>9 DEF Tiers
<1> QED BY <1>8 DEF s, c, v

LEMMA TermsGrow ==
    ASSUME NEW th, Fine(th), NEW numOfOps \in Nat
    PROVE  LET new == generateTerms(th, numOfOps)
           IN  /\ On(th, new.th) /\ Apart(th, new.th)
               /\ Tiers(new.th, new.terms) /\ Len(new.terms) = numOfOps + 1
               /\ new.terms[1] = th.constantIds \o th.varIds
<1> DEFINE basic == th.constantIds \o th.varIds
           base == [th |-> th, terms |-> <<basic>>]
           s == [n \in 1 .. numOfOps |-> n]
           new == generateTerms(th, numOfOps)
<1>1. new = AllTerms(base, s)
  BY DEF generateTerms, AllTerms, Loop
<1>2. Len(s) = numOfOps /\ \A k \in 1 .. numOfOps : s[k] = k
  <2>1. s \in [1 .. numOfOps -> Nat] /\ DOMAIN s = 1 .. numOfOps
    OBVIOUS
  <2> QED BY <2>1
<1> HIDE DEF s
<1>3. Tiers(th, <<basic>>)
  BY BasicCounts
<1> HIDE DEF basic, new
<1>4. base.th = th /\ base.terms = <<basic>> /\ Len(base.terms) = 1 /\ base.terms[1] = basic
  OBVIOUS
<1> HIDE DEF base
<1>5. PICK made : /\ AllTerms(base, s) = made[Len(s)]
                  /\ made[0] = base
                  /\ \A k \in 1 .. Len(s) : made[k] = generateTermsN(made[k - 1], s[k])
  BY <1>2, AllTermsIs
<1> DEFINE Ok(acc, k) == /\ On(th, acc.th) /\ Apart(th, acc.th)
                         /\ Tiers(acc.th, acc.terms) /\ Len(acc.terms) = k + 1
                         /\ acc.terms[1] = basic
           K == {k \in 0 .. numOfOps : Ok(made[k], k)}
<1>6. 0 \in K
  BY <1>3, <1>4, <1>5, OnIs, ApartIs
<1>7. ASSUME NEW k \in 1 .. numOfOps, k - 1 \in K
      PROVE  k \in K
  <2> DEFINE cur == made[k - 1]
             nxt == made[k]
  <2>1. On(th, cur.th) /\ Apart(th, cur.th) /\ Tiers(cur.th, cur.terms) /\ Len(cur.terms) = k
        /\ cur.terms[1] = basic /\ Fine(cur.th)
    BY <1>7, OnIs
  <2>2. nxt = generateTermsN(cur, k)
    BY <1>2, <1>5
  <2> HIDE DEF cur, nxt
  <2>3. /\ On(cur.th, nxt.th) /\ Apart(cur.th, nxt.th)
        /\ Tiers(nxt.th, nxt.terms) /\ Len(nxt.terms) = k + 1
        /\ \A i \in 1 .. k : nxt.terms[i] = cur.terms[i]
    BY <2>1, <2>2, TermsNGrow
  <2>4. On(th, nxt.th) /\ Apart(th, nxt.th)
    BY <2>1, <2>3, OnIs, ApartTransitive
  <2>5. Ok(nxt, k)
    BY <2>1, <2>3, <2>4
  <2> QED BY <2>5 DEF nxt
<1> HIDE DEF K
<1>8. numOfOps \in K
  BY <1>6, <1>7, LoopInduction
<1> QED BY <1>1, <1>2, <1>5, <1>8 DEF K, new, basic

-----------------------------------------------------------------------------
(* Formulae                                                                *)

(* The node of a relation between two terms.                               *)
LEMMA NewRelation ==
    ASSUME NEW th, Fine(th), NEW op \in NodeOps, NEW t1 \in Ids(th), NEW t2 \in Ids(th),
           t1 # t2 \/ op \notin {"=", "<="}
    PROVE  LET result == handleTermRelationalTerm(th, op, t1, t2)
               node == getNode(result.th, result.id)
           IN  /\ result.id \in Ids(result.th)
               /\ node.op = op /\ node.type = "binary-relational"
               /\ node.operandIds = Ordered(op = "=", t1, t2)
<1> DEFINE result == handleTermRelationalTerm(th, op, t1, t2)
           u == VocabNode(op, "binary-relational")
           s == Ordered(op = "=", t1, t2)
           n == [u EXCEPT !.operandIds = s]
           m == propagateIsGlobal(th, n, {t1, t2})
           mid == makeNode(th, m)
<1>1. Good(th) /\ IsTheory(th) /\ th.nodes \in Seq(Node) /\ t1 \in Nat /\ t2 \in Nat
      /\ Len(th.nodes) \in Nat /\ NextId(th) = Len(th.nodes)
  BY NodesOf DEF Fine, Good, NextId
<1>2. u \in Node /\ u.op = op /\ u.type = "binary-relational"
  <2>1. u \in Node
    BY VocabNodeIsNode, NodeWords
  <2>2. u.op = op /\ u.type = "binary-relational"
    BY DEF VocabNode
  <2> QED BY <2>1, <2>2
<1>3. s \in Seq(Nat)
  BY <1>1 DEF Ordered
<1>4. result = [th |-> ShareElement(mid, t1, t2), id |-> NextId(th)]
  BY DEF handleTermRelationalTerm
<1>5. result.id \in Ids(result.th)
  BY HandlersMake DEF Makes
<1> HIDE DEF u, s
<1>6. n \in Node /\ n.op = op /\ n.type = "binary-relational" /\ n.operandIds = s
  BY <1>2, <1>3 DEF Node
<1> HIDE DEF n
<1>7. m \in Node /\ m.op = op /\ m.type = "binary-relational" /\ m.operandIds = s
  <2>1. \A g \in BOOLEAN : LET x == [n EXCEPT !.global = g]
                           IN  x \in Node /\ x.op = n.op /\ x.type = n.type /\ x.operandIds = n.operandIds
    BY <1>6 DEF Node
  <2> QED BY <1>6, <2>1 DEF propagateIsGlobal
<1> HIDE DEF m
<1>8. mid.nodes = Append(th.nodes, m) /\ IsTheory(mid)
  <2>1. Append(th.nodes, m) \in Seq(Node)
    BY <1>1, <1>7
  <2> QED BY <1>1, <2>1 DEF makeNode, IsTheory
<1>9. /\ mid.nodes \in Seq(Node) /\ Len(mid.nodes) = NextId(th) + 1 /\ getNode(mid, NextId(th)) = m
      /\ t1 \in Ids(mid) /\ t2 \in Ids(mid) /\ NextId(th) \in Ids(mid)
  BY <1>1, <1>7, <1>8 DEF getNode, Ids
<1> HIDE DEF mid
<1>10. ASSUME NEW t \in Ids(mid)
       PROVE  LET a == getNode(setElement(mid, t), NextId(th))
              IN  a.op = op /\ a.type = "binary-relational" /\ a.operandIds = s
  <2> DEFINE N == mid.nodes
             x == [N[t + 1] EXCEPT !.element = TRUE]
  <2>1. setElement(mid, t).nodes = [N EXCEPT ![t + 1] = x]
    BY <1>8 DEF setElement, IsTheory
  <2>2. t + 1 \in 1 .. Len(N) /\ NextId(th) + 1 \in 1 .. Len(N) /\ N[t + 1] \in Node
    BY <1>9 DEF Ids
  <2>3. N[NextId(th) + 1] = m
    BY <1>9 DEF getNode
  <2>4. x.op = N[t + 1].op /\ x.type = N[t + 1].type /\ x.operandIds = N[t + 1].operandIds
    BY <2>2 DEF Node
  <2>5. getNode(setElement(mid, t), NextId(th)) = IF NextId(th) + 1 = t + 1 THEN x ELSE m
    <3> HIDE DEF x
    <3>1. N \in Seq(Node) /\ DOMAIN N = 1 .. Len(N)
      BY <1>9
    <3> HIDE DEF N
    <3> QED BY <2>1, <2>2, <2>3, <3>1 DEF getNode
  <2> HIDE DEF x, N
  <2> QED BY <1>7, <2>3, <2>4, <2>5
<1>11. ShareElement(mid, t1, t2) \in {mid, setElement(mid, t1), setElement(mid, t2)}
  BY DEF ShareElement
<1>12. LET a == getNode(ShareElement(mid, t1, t2), NextId(th))
       IN  a.op = op /\ a.type = "binary-relational" /\ a.operandIds = s
  BY <1>7, <1>9, <1>10, <1>11
<1> QED BY <1>4, <1>5, <1>12 DEF s

(* Of a theory only a vocabulary or the bound terms change.                *)
Others(th, new) ==
    /\ IsTheory(new) /\ new.nodes = th.nodes /\ new.var2idMap = th.var2idMap
    /\ new.varIds = th.varIds /\ new.constantIds = th.constantIds /\ new.rulemap = th.rulemap
    /\ new.vocabIds = th.vocabIds /\ new.uvars = th.uvars /\ new.uterms = th.uterms
    /\ new.readIndexTerms = th.readIndexTerms
    /\ new.trueId = th.trueId /\ new.falseId = th.falseId
    /\ new.numClauseOperationBound = th.numClauseOperationBound
    /\ new.numQuantifierBound = th.numQuantifierBound

LEMMA OthersOn ==
    ASSUME NEW th, Fine(th), NEW new, Others(th, new),
           new.generatedVocabIds \in Seq(Ids(th)), new.quantFreeVocIds \in Seq(Ids(th)),
           new.boundTerms \subseteq Ids(th)
    PROVE  On(th, new)
<1>1. Good(th) /\ Right(th) /\ Settled(th) /\ th.nodes \in Seq(Node)
  BY NodesOf DEF Fine
<1>2. Ids(new) = Ids(th)
  BY DEF Others, Ids
<1>3. Extends(th, new)
  <2>1. {new.trueId, new.falseId} \subseteq Ids(th) \cup {NoId}
    BY <1>1 DEF Others, Good
  <2> QED BY <1>1, <2>1, ExtendsByField DEF Others
<1>4. Right(new)
  BY <1>1, <1>2 DEF Right, FieldsIn, Others
<1>5. Settled(new)
  BY <1>1 DEF Settled, Shaped, Others
<1>6. Like(th, new)
  BY <1>1, LikeByField DEF Others
<1> QED BY <1>3, <1>4, <1>5, <1>6, LeadsIs DEF On

LEMMA FieldsOf ==
    ASSUME NEW th, Fine(th)
    PROVE  /\ th.generatedVocabIds \in Seq(Ids(th)) /\ th.quantFreeVocIds \in Seq(Ids(th))
           /\ th.vocabIds \in Seq(Ids(th)) /\ th.boundTerms \subseteq Ids(th)
           /\ th.readIndexTerms \subseteq Ids(th) /\ th.uterms \subseteq Ids(th)
BY DEF Fine, Right, FieldsIn

(* A formula that the grammar allows, of terms with fewer operations than  *)
(* bound.                                                                  *)
Formula(th, f, bound) ==
    LET node == getNode(th, f)
        l == node.operandIds[1]
        r == node.operandIds[2]
    IN  /\ f \in Ids(th) /\ node.type = "binary-relational" /\ l \in Ids(th) /\ r \in Ids(th) /\ l # r
        /\ Joining(th, l, r, node.op) \/ (node.op = "=" /\ Joining(th, r, l, "="))
        /\ Operations(th, l) \in 0 .. bound - 1 /\ Operations(th, r) \in 0 .. bound - 1

(* f relates a to b, one way or the other.                                 *)
Relates(th, f, a, b, op) ==
    getNode(th, f).op = op /\ getNode(th, f).operandIds \in {<<a, b>>, <<b, a>>}

LEMMA JoiningStays ==
    ASSUME NEW th, Fine(th), NEW new, On(th, new), NEW a \in Ids(th), NEW b \in Ids(th), NEW op
    PROVE  Joining(new, a, b, op) <=> Joining(th, a, b, op)
<1>1. getNode(new, a).rightVars = getNode(th, a).rightVars /\ getNode(new, b).leftVars = getNode(th, b).leftVars
  BY NodeStays
<1>2. new.rulemap = th.rulemap
  BY DEF On, Like
<1> QED BY <1>1, <1>2 DEF Joining

LEMMA FormulaStays ==
    ASSUME NEW th, Fine(th), NEW new, On(th, new), NEW bound, NEW f, Formula(th, f, bound)
    PROVE  /\ Formula(new, f, bound)
           /\ \A a, b, op : Relates(th, f, a, b, op) => Relates(new, f, a, b, op)
<1> DEFINE node == getNode(th, f)
           l == node.operandIds[1]
           r == node.operandIds[2]
<1>1. /\ f \in Ids(th) /\ node.type = "binary-relational" /\ l \in Ids(th) /\ r \in Ids(th) /\ l # r
      /\ Joining(th, l, r, node.op) \/ (node.op = "=" /\ Joining(th, r, l, "="))
      /\ Operations(th, l) \in 0 .. bound - 1 /\ Operations(th, r) \in 0 .. bound - 1
  BY DEF Formula
<1>2. Ids(th) \subseteq Ids(new)
  BY OnIs
<1>3. getNode(new, f).op = node.op /\ getNode(new, f).type = node.type /\ getNode(new, f).operandIds = node.operandIds
  BY <1>1, NodeStays
<1>4. Operations(new, l) = Operations(th, l) /\ Operations(new, r) = Operations(th, r)
  BY <1>1, OperationsStay
<1>5. /\ Joining(new, l, r, node.op) <=> Joining(th, l, r, node.op)
      /\ Joining(new, r, l, "=") <=> Joining(th, r, l, "=")
  BY <1>1, JoiningStays
<1>6. Formula(new, f, bound)
  BY <1>1, <1>2, <1>3, <1>4, <1>5 DEF Formula
<1> QED BY <1>3, <1>6 DEF Relates

Generated(th, bound) ==
    \A i \in 1 .. Len(th.generatedVocabIds) : Formula(th, th.generatedVocabIds[i], bound)

(* A step of the making of formulae.                                       *)
Adding(th, new, bound) ==
    /\ On(th, new) /\ Generated(new, bound)
    /\ new.quantFreeVocIds = th.quantFreeVocIds /\ new.boundTerms = th.boundTerms
    /\ \A i \in 1 .. Len(th.generatedVocabIds) : Has(new.generatedVocabIds, th.generatedVocabIds[i])

LEMMA FormulaAdded ==
    ASSUME NEW th, Fine(th), NEW bound, Generated(th, bound),
           NEW n1 \in Ids(th), NEW n2 \in Ids(th), NEW op \in NodeOps, n1 # n2, Joining(th, n1, n2, op),
           Operations(th, n1) \in 0 .. bound - 1, Operations(th, n2) \in 0 .. bound - 1
    PROVE  LET new == generateFormula(th, n1, n2, op)
           IN  /\ Adding(th, new, bound)
               /\ op \in RelationalOps /\ Comparable(th, n1, n2, op) =>
                     \E f : Has(new.generatedVocabIds, f) /\ Relates(new, f, n1, n2, op)
<1> DEFINE made == handleTermRelationalTerm(th, op, n1, n2)
           mid == made.th
           f == made.id
           asked == op \in RelationalOps /\ Comparable(th, n1, n2, op)
           new == generateFormula(th, n1, n2, op)
           old == th.generatedVocabIds
           more == Append(old, f)
<1>1. new = IF asked THEN [mid EXCEPT !.generatedVocabIds = Append(@, f)] ELSE th
  BY DEF generateFormula
<1>2. Makes(th, made) /\ th.generatedVocabIds \in Seq(Ids(th))
  BY HandlersMake, FieldsOf
<1>3. On(th, mid) /\ Fine(mid) /\ f \in Ids(mid) /\ Apart(th, mid) /\ Ids(th) \subseteq Ids(mid)
  BY <1>2, OnIs DEF Makes, Adds, TermFrame, Frame, Apart
<1>4. getNode(mid, f).op = op /\ getNode(mid, f).type = "binary-relational"
      /\ getNode(mid, f).operandIds = Ordered(op = "=", n1, n2)
  BY NewRelation
<1>5. old \in Seq(Ids(mid)) /\ mid.generatedVocabIds = old /\ mid.quantFreeVocIds = th.quantFreeVocIds
      /\ mid.boundTerms = th.boundTerms
  BY <1>2, <1>3, SeqWidens DEF Apart
<1>6. IsTheory(mid) /\ mid.quantFreeVocIds \in Seq(Ids(mid)) /\ mid.boundTerms \subseteq Ids(mid)
  BY <1>3, FieldsOf DEF Fine, Good
<1>7. Formula(mid, f, bound)
  <2>1. /\ Joining(mid, n1, n2, op)
        /\ Operations(mid, n1) \in 0 .. bound - 1 /\ Operations(mid, n2) \in 0 .. bound - 1
    BY <1>3, JoiningStays, OperationsStay
  <2>2. getNode(mid, f).operandIds = <<n1, n2>> \/ (op = "=" /\ getNode(mid, f).operandIds = <<n2, n1>>)
    BY <1>4 DEF Ordered
  <2> HIDE DEF mid, f
  <2>3. CASE getNode(mid, f).operandIds = <<n1, n2>>
    BY <1>3, <1>4, <2>1, <2>3 DEF Formula
  <2>4. CASE op = "=" /\ getNode(mid, f).operandIds = <<n2, n1>>
    BY <1>3, <1>4, <2>1, <2>4 DEF Formula
  <2> QED BY <2>2, <2>3, <2>4
<1>8. \A i \in 1 .. Len(old) : Formula(mid, old[i], bound)
  BY <1>3, FormulaStays DEF Generated
<1>9. Relates(mid, f, n1, n2, op)
  BY <1>4 DEF Relates, Ordered
<1> HIDE DEF made, old
<1>10. /\ more \in Seq(Ids(mid)) /\ Len(more) = Len(old) + 1 /\ Len(old) \in Nat
       /\ more[Len(old) + 1] = f /\ \A i \in 1 .. Len(old) : more[i] = old[i]
  BY <1>3, <1>5
<1>11. CASE asked
  <2> DEFINE done == [mid EXCEPT !.generatedVocabIds = more]
  <2>1. new = done
    BY <1>1, <1>5, <1>11
  <2> HIDE DEF mid, f, more, new
  <2>2. /\ Others(mid, done) /\ done.generatedVocabIds = more
        /\ done.quantFreeVocIds = mid.quantFreeVocIds /\ done.boundTerms = mid.boundTerms
    BY <1>6 DEF Others, IsTheory
  <2> HIDE DEF done
  <2>3. On(mid, done)
    BY <1>3, <1>6, <1>10, <2>2, OthersOn
  <2>4. On(th, done)
    BY <1>3, <2>3, OnIs
  <2>5. \A i \in 1 .. Len(more) : Formula(mid, more[i], bound)
    BY <1>7, <1>8, <1>10
  <2>6. Generated(done, bound)
    BY <1>3, <2>2, <2>3, <2>5, FormulaStays DEF Generated
  <2>7. \A i \in 1 .. Len(old) : Has(more, old[i])
    BY <1>10 DEF Has
  <2>8. Has(more, f) /\ Relates(done, f, n1, n2, op)
    BY <1>3, <1>7, <1>9, <1>10, <2>3, FormulaStays DEF Has
  <2>9. Adding(th, done, bound)
    BY <1>5, <2>2, <2>4, <2>6, <2>7 DEF Adding, old
  <2> QED BY <2>1, <2>2, <2>8, <2>9 DEF new
<1>12. CASE ~asked
  <2>1. new = th
    BY <1>1, <1>12
  <2> HIDE DEF new
  <2>2. Adding(th, th, bound)
    <3>1. Len(th.generatedVocabIds) \in Nat
      BY <1>2
    <3> QED BY <3>1, OnIs DEF Adding, Has
  <2> QED BY <1>12, <2>1, <2>2 DEF new
<1> QED BY <1>11, <1>12

LEMMA AddingTransitive ==
    ASSUME NEW th, Fine(th), NEW new, NEW more, NEW bound,
           Adding(th, new, bound), Adding(new, more, bound)
    PROVE  /\ Adding(th, more, bound)
           /\ \A f : Has(new.generatedVocabIds, f) => Has(more.generatedVocabIds, f)
<1>1. \A f : Has(new.generatedVocabIds, f) => Has(more.generatedVocabIds, f)
  BY DEF Adding, Has
<1>2. On(th, more)
  BY OnIs DEF Adding
<1>3. \A i \in 1 .. Len(th.generatedVocabIds) : Has(more.generatedVocabIds, th.generatedVocabIds[i])
  BY <1>1 DEF Adding
<1> QED BY <1>1, <1>2, <1>3 DEF Adding

(* Comparing goes by the types, which stay.                                *)
LEMMA ComparableStays ==
    ASSUME NEW th, Fine(th), NEW new, On(th, new), NEW a \in Ids(th), NEW b \in Ids(th), NEW op
    PROVE  Comparable(new, a, b, op) <=> Comparable(th, a, b, op)
<1>1. getNode(new, a).type = getNode(th, a).type /\ getNode(new, b).type = getNode(th, b).type
  BY NodeStays
<1> QED BY <1>1 DEF Comparable, isArray

(* What is asked of x, a join, has been made.                              *)
Met(th, new, x) ==
    x[3] \in RelationalOps /\ Comparable(th, x[1], x[2], x[3]) =>
        \E f : Has(new.generatedVocabIds, f) /\ Relates(new, f, x[1], x[2], x[3])

LEMMA FormulaeAdded ==
    ASSUME NEW th, Fine(th), NEW bound, Generated(th, bound), NEW all \in Seq(Ids(th)),
           \A i \in 1 .. Len(all) : Operations(th, all[i]) \in 0 .. bound - 1
    PROVE  LET new == MadeFormulae(th, Joined(th, all, all))
           IN  /\ Adding(th, new, bound)
               /\ \A i, j \in 1 .. Len(all) : \A x : IsJoin(th, all[i], all[j], x) => Met(th, new, x)
<1> DEFINE joins == Joined(th, all, all)
           J == Ids(th) \X Ids(th) \X NodeOps
<1>1. Good(th)
  BY DEF Fine
<1>2. /\ joins \in Seq(J)
      /\ \A x : Has(joins, x) <=> \E i \in 1 .. Len(all), j \in 1 .. Len(all) : IsJoin(th, all[i], all[j], x)
  BY <1>1, JoinedAre
<1> HIDE DEF joins
<1>3. Len(joins) \in Nat
  BY <1>2
<1>10. PICK made : IsMadeFormulae(made, th, joins)
  BY <1>3, MadeFormulaeIs
<1>4. /\ MadeFormulae(th, joins) = made[Len(joins)]
      /\ made[0] = th
      /\ \A k \in 1 .. Len(joins) :
            made[k] = generateFormula(made[k - 1], joins[k][1], joins[k][2], joins[k][3])
  BY <1>10 DEF IsMadeFormulae
<1> DEFINE Ok(t, k) == Adding(th, t, bound) /\ \A m \in 1 .. k : Met(th, t, joins[m])
           K == {k \in 0 .. Len(joins) : Ok(made[k], k)}
<1>5. 0 \in K
  <2>1. Len(th.generatedVocabIds) \in Nat
    BY FieldsOf
  <2>2. Adding(th, th, bound)
    BY <2>1, OnIs DEF Adding, Has
  <2> QED BY <1>3, <1>4, <2>2
<1>6. ASSUME NEW k \in 1 .. Len(joins), k - 1 \in K
      PROVE  k \in K
  <2> DEFINE cur == made[k - 1]
             nxt == made[k]
             x == joins[k]
  <2>1. Adding(th, cur, bound) /\ (\A m \in 1 .. k - 1 : Met(th, cur, joins[m]))
    BY <1>6
  <2>2. On(th, cur) /\ Fine(cur) /\ Ids(th) \subseteq Ids(cur) /\ Generated(cur, bound)
    BY <2>1, OnIs DEF Adding
  <2>3. x \in J /\ Has(joins, x)
    BY <1>2, <1>3, SeqItem DEF Has
  <2>4. PICK i \in 1 .. Len(all), j \in 1 .. Len(all) : IsJoin(th, all[i], all[j], x)
    BY <1>2, <2>3
  <2>5. /\ x[1] = all[i] /\ x[2] = all[j] /\ x[1] # x[2] /\ Joining(th, x[1], x[2], x[3])
        /\ x[1] \in Ids(th) /\ x[2] \in Ids(th) /\ x[3] \in NodeOps
    BY <2>3, <2>4 DEF IsJoin
  <2>6. nxt = generateFormula(cur, x[1], x[2], x[3])
    BY <1>4
  <2> HIDE DEF cur, nxt, x
  <2>7. Joining(cur, x[1], x[2], x[3])
        /\ Operations(cur, x[1]) \in 0 .. bound - 1 /\ Operations(cur, x[2]) \in 0 .. bound - 1
    BY <2>2, <2>5, JoiningStays, OperationsStay
  <2>8. /\ Adding(cur, nxt, bound)
        /\ x[3] \in RelationalOps /\ Comparable(cur, x[1], x[2], x[3]) =>
              \E f : Has(nxt.generatedVocabIds, f) /\ Relates(nxt, f, x[1], x[2], x[3])
    BY <2>2, <2>5, <2>6, <2>7, FormulaAdded
  <2>9. Adding(th, nxt, bound) /\ \A f : Has(cur.generatedVocabIds, f) => Has(nxt.generatedVocabIds, f)
    BY <2>1, <2>8, AddingTransitive
  <2>10. Met(th, nxt, x)
    BY <2>2, <2>5, <2>8, ComparableStays DEF Met
  <2>11. ASSUME NEW m \in 1 .. k - 1
         PROVE  Met(th, nxt, joins[m])
    <3> DEFINE y == joins[m]
    <3>1. Met(th, cur, y)
      BY <2>1
    <3> HIDE DEF y
    <3>2. \A f : Has(cur.generatedVocabIds, f) =>
             \A a, b, op : Relates(cur, f, a, b, op) => Relates(nxt, f, a, b, op)
      <4>1. On(cur, nxt)
        BY <2>8 DEF Adding
      <4>2. \A f : Has(cur.generatedVocabIds, f) => Formula(cur, f, bound)
        BY <2>2 DEF Has, Generated
      <4> QED BY <2>2, <4>1, <4>2, FormulaStays
    <3>3. Met(th, nxt, y)
      BY <2>9, <3>1, <3>2 DEF Met
    <3> QED BY <3>3 DEF y
  <2>12. \A m \in 1 .. k : Met(th, nxt, joins[m])
    <3>1. \A m \in 1 .. k : m = k \/ m \in 1 .. k - 1
      OBVIOUS
    <3> QED BY <2>10, <2>11, <3>1 DEF x
  <2> QED BY <2>9, <2>12 DEF nxt
<1> HIDE DEF K
<1>7. Len(joins) \in K
  BY <1>3, <1>5, <1>6, LoopInduction
<1> DEFINE new == MadeFormulae(th, joins)
<1>8. Adding(th, new, bound) /\ (\A m \in 1 .. Len(joins) : Met(th, new, joins[m]))
  BY <1>4, <1>7 DEF K
<1> HIDE DEF new
<1>9. \A i, j \in 1 .. Len(all) : \A x : IsJoin(th, all[i], all[j], x) => Met(th, new, x)
  BY <1>2, <1>8 DEF Has
<1> QED BY <1>8, <1>9 DEF new, joins

-----------------------------------------------------------------------------
(* The vocabulary that is generated                                        *)

Basics(th) == th.constantIds \o th.varIds

LEMMA VocabGenerated ==
    ASSUME NEW th, Fine(th), th.generatedVocabIds = <<>>, ~Endless(th)
    PROVE  LET new == generateVocab(th)
               bound == th.numClauseOperationBound
           IN  /\ On(th, new) /\ Generated(new, bound)
               /\ new.quantFreeVocIds = th.quantFreeVocIds /\ new.boundTerms = th.boundTerms
               /\ \A a, b : Has(Basics(th), a) /\ Has(Basics(th), b) =>
                     \A op : IsJoin(new, a, b, <<a, b, op>>) => Met(new, new, <<a, b, op>>)
<1> DEFINE bound == th.numClauseOperationBound
           grown == generateTerms(th, bound - 1)
           mid == grown.th
           all == FlattenSeq(grown.terms)
           new == generateVocab(th)
<1>1. bound \in Nat /\ bound # 0 /\ bound - 1 \in Nat /\ bound - 1 + 1 = bound
  BY DEF Fine, Settled, Endless
<1>2. /\ On(th, mid) /\ Apart(th, mid) /\ Tiers(mid, grown.terms)
      /\ Len(grown.terms) = bound - 1 + 1
      /\ grown.terms[1] = Basics(th)
  BY <1>1, TermsGrow DEF Basics
<1>3. new = MadeFormulae(mid, Joined(mid, all, all))
  BY DEF generateVocab, generateFormulae, MadeFormulae, Loop
<1> HIDE DEF new
<1>4. Good(mid) /\ Fine(mid) /\ Ids(mid) \subseteq Nat /\ grown.terms \in Seq(Seq(Nat))
  BY <1>2, OnIs DEF Fine, Ids, Tiers
<1> DEFINE terms == grown.terms
<1>5. all \in Seq(Nat) /\ \A x : Has(all, x) <=> \E i \in 1 .. Len(terms) : Has(terms[i], x)
  BY <1>4, FlattenHas
<1> HIDE DEF all
<1>6. ASSUME NEW x, Has(all, x)
      PROVE  x \in Ids(mid) /\ Operations(mid, x) \in 0 .. bound - 1
  <2>1. PICK i \in 1 .. Len(terms) : Has(terms[i], x)
    BY <1>5, <1>6
  <2>2. Counted(mid, terms[i], i - 1) /\ i - 1 \in 0 .. bound - 1
    BY <1>1, <1>2, <2>1 DEF Tiers
  <2> DEFINE s == terms[i]
  <2>3. s \in Seq(Ids(mid)) /\ Has(s, x) /\ \A j \in 1 .. Len(s) : Operations(mid, s[j]) = i - 1
    BY <2>1, <2>2 DEF Counted
  <2> HIDE DEF s
  <2>4. PICK j \in 1 .. Len(s) : s[j] = x
    BY <2>3 DEF Has
  <2>5. s[j] \in Ids(mid)
    BY <2>3, SeqItem
  <2> QED BY <2>2, <2>3, <2>4, <2>5
<1>7. all \in Seq(Ids(mid)) /\ \A i \in 1 .. Len(all) : Operations(mid, all[i]) \in 0 .. bound - 1
  <2>1. \A i \in 1 .. Len(all) : all[i] \in Ids(mid) /\ Operations(mid, all[i]) \in 0 .. bound - 1
    BY <1>6 DEF Has
  <2>2. all \in Seq(Ids(mid))
    BY <1>5, <2>1
  <2> QED BY <2>1, <2>2
<1>8. Generated(mid, bound)
  <2>1. mid.generatedVocabIds = <<>>
    BY <1>2 DEF Apart
  <2> QED BY <2>1 DEF Generated
<1>9. /\ Adding(mid, new, bound)
      /\ \A i, j \in 1 .. Len(all) : \A x : IsJoin(mid, all[i], all[j], x) => Met(mid, new, x)
  BY <1>3, <1>4, <1>7, <1>8, FormulaeAdded
<1>10. On(th, new) /\ Generated(new, bound)
       /\ new.quantFreeVocIds = th.quantFreeVocIds /\ new.boundTerms = th.boundTerms
  BY <1>2, <1>9, OnIs DEF Adding, Apart
<1>11. ASSUME NEW a, NEW b, Has(Basics(th), a), Has(Basics(th), b), NEW op, IsJoin(new, a, b, <<a, b, op>>)
       PROVE  Met(new, new, <<a, b, op>>)
  <2>1. Has(all, a) /\ Has(all, b)
    <3>1. terms[1] = Basics(th) /\ 1 \in 1 .. Len(terms)
      BY <1>1, <1>2
    <3> QED BY <1>5, <1>11, <3>1
  <2>2. a \in Ids(mid) /\ b \in Ids(mid)
    BY <1>6, <2>1
  <2>3. a # b /\ Joining(new, a, b, op)
    BY <1>11 DEF IsJoin
  <2>4. On(mid, new)
    BY <1>9 DEF Adding
  <2>5. IsJoin(mid, a, b, <<a, b, op>>)
    BY <1>4, <2>2, <2>3, <2>4, JoiningStays DEF IsJoin
  <2>6. Met(mid, new, <<a, b, op>>)
    BY <1>9, <2>1, <2>5 DEF Has
  <2> QED BY <1>4, <2>2, <2>4, <2>6, ComparableStays DEF Met
<1> QED BY <1>10, <1>11 DEF new

-----------------------------------------------------------------------------
(* Elements and index terms                                                *)

LEMMA OperandsAre ==
    ASSUME NEW th, Good(th)
    PROVE  \A id \in Ids(th) : Operands(th, id) \subseteq Ids(th)
BY OperandBelow DEF Operands

LEMMA SubsetGrows ==
    ASSUME NEW n \in Nat, NEW T, T \subseteq 0 .. n - 1
    PROVE  /\ Cardinality(T) \in Nat /\ Cardinality(T) <= n
           /\ Cardinality(T) = n => T = 0 .. n - 1
           /\ \A S : S \subseteq T /\ S # T => /\ Cardinality(S) \in Nat
                                               /\ Cardinality(S) + 1 <= Cardinality(T)
<1>1. IsFiniteSet(0 .. n - 1) /\ Cardinality(0 .. n - 1) = n
  BY FS_Interval
<1>2. IsFiniteSet(T) /\ Cardinality(T) <= n /\ (Cardinality(T) = n => T = 0 .. n - 1)
  BY <1>1, FS_Subset
<1>3. Cardinality(T) \in Nat
  BY <1>2, FS_CardinalityType
<1>4. ASSUME NEW S, S \subseteq T, S # T
      PROVE  Cardinality(S) \in Nat /\ Cardinality(S) + 1 <= Cardinality(T)
  <2>1. IsFiniteSet(S) /\ Cardinality(S) <= Cardinality(T) /\ Cardinality(S) # Cardinality(T)
    BY <1>2, <1>4, FS_Subset
  <2>2. Cardinality(S) \in Nat
    BY <2>1, FS_CardinalityType
  <2> QED BY <1>3, <2>1, <2>2
<1> QED BY <1>2, <1>3, <1>4

LEMMA SetElementOn ==
    ASSUME NEW th, Fine(th), NEW id \in Ids(th),
           NEW e \in 1 .. Len(th.nodes), th.nodes[e].element, Compared(th.nodes, e, id + 1)
    PROVE  On(th, setElement(th, id)) /\ Apart(th, setElement(th, id))
<1> DEFINE new == setElement(th, id)
           result == [th |-> new, id |-> id]
<1>1. Good(th) /\ Right(th) /\ IsTheory(th)
  BY DEF Fine, Good
<1>2. Extends(th, new) /\ Right(new) /\ Adds(th, new)
  BY <1>1, SetFlag, FlagRight, AddsElement
<1>3. Yields(th, result)
  BY <1>1, <1>2, IdsKept DEF Yields
<1> HIDE DEF new
<1>4. Makes(th, result)
  BY <1>2, <1>3, MakesBy
<1>5. On(th, new)
  BY <1>4, OnIs DEF Makes
<1> QED BY <1>2, <1>5 DEF Apart, Adds, TermFrame, Frame, new

(* What a pass carries along.                                              *)
Passing(acc) == acc \in [th : {acc.th}, marked : BOOLEAN, exits : BOOLEAN] /\ Fine(acc.th)

(* Marking leaves all but the marks.                                       *)
Marks(acc, new) ==
    /\ Passing(new) /\ On(acc.th, new.th) /\ Apart(acc.th, new.th)
    /\ Len(new.th.nodes) = Len(acc.th.nodes) /\ Elements(acc.th) \subseteq Elements(new.th)

LEMMA MarksIs ==
    ASSUME NEW acc, Passing(acc)
    PROVE  /\ Marks(acc, acc)
           /\ \A new : Marks(acc, new) => Passing(new) /\ Ids(acc.th) = Ids(new.th)
           /\ \A new, more : Marks(acc, new) /\ Marks(new, more) => Marks(acc, more)
BY OnIs, ApartIs, ApartTransitive DEF Marks, Passing, Ids

(* Some node has become an element.                                        *)
More(th, new) == \E o \in Elements(new) : o \notin Elements(th)

(* What the pass has to do with a relation: nothing, for none of its       *)
(* operands is an element, or all are and none is an index term.           *)
Clear(th, id) ==
    getNode(th, id).type = "binary-relational" =>
        \/ Operands(th, id) \cap Elements(th) = {}
        \/ Operands(th, id) \subseteq Elements(th) /\ Operands(th, id) \cap IndexUsed(th) = {}

Quiet(th) == \A id \in Ids(th) : Clear(th, id)

(* A turn is the exit, or marks a node, or there was nothing to be done.   *)
Turned(acc, new, id) ==
    /\ acc.exits => new.exits
    /\ acc.marked => new.marked
    /\ \/ new.exits
       \/ new.marked /\ More(acc.th, new.th)
       \/ new = acc /\ Clear(acc.th, id)

LEMMA NodePropagated ==
    ASSUME NEW acc, Passing(acc), NEW id \in Ids(acc.th)
    PROVE  Marks(acc, propagateNode(acc, id)) /\ Turned(acc, propagateNode(acc, id), id)
<1> DEFINE new == propagateNode(acc, id)
           ops == Operands(acc.th, id)
           unmarked == {o \in ops : ~getNode(acc.th, o).element}
           o == CHOOSE x \in unmarked : TRUE
           relational == getNode(acc.th, id).type = "binary-relational"
           used == ops \cap IndexUsed(acc.th) # {}
<1>1. ops \subseteq Ids(acc.th)
  BY OperandsAre DEF Passing, Fine
<1>2. /\ acc \in [th : {acc.th}, marked : BOOLEAN, exits : BOOLEAN]
      /\ new = IF acc.exits \/ ~relational \/ unmarked = ops THEN acc
               ELSE IF used THEN [acc EXCEPT !.exits = TRUE]
               ELSE IF unmarked = {} THEN acc
               ELSE [acc EXCEPT !.th = setElement(@, o), !.marked = TRUE]
  BY DEF propagateNode, Passing
<1>3. /\ unmarked = ops => ops \cap Elements(acc.th) = {}
      /\ unmarked = {} => ops \subseteq Elements(acc.th)
      /\ unmarked # ops => \E e \in ops : getNode(acc.th, e).element
  BY <1>1 DEF Elements
<1> HIDE DEF new, o
<1>4. CASE new = acc /\ (acc.exits \/ ~relational \/ unmarked = ops \/ (unmarked = {} /\ ~used))
  <2>1. Marks(acc, new)
    BY <1>4, MarksIs
  <2>2. acc.exits \/ Clear(acc.th, id)
    BY <1>3, <1>4 DEF Clear
  <2> QED BY <1>4, <2>1, <2>2 DEF new, Turned
<1>5. CASE new = [acc EXCEPT !.exits = TRUE]
  <2>1. new \in [th : {acc.th}, marked : BOOLEAN, exits : BOOLEAN] /\ new.th = acc.th
        /\ new.exits /\ new.marked = acc.marked
    BY <1>2, <1>5
  <2>2. Marks(acc, new)
    BY <2>1, OnIs, ApartIs DEF Marks, Passing
  <2> QED BY <2>1, <2>2 DEF new, Turned
<1>6. CASE relational /\ unmarked # ops /\ unmarked # {} /\ new = [acc EXCEPT !.th = setElement(@, o), !.marked = TRUE]
  <2>1. new.th = setElement(acc.th, o) /\ new \in [th : {new.th}, marked : BOOLEAN, exits : BOOLEAN]
        /\ new.marked /\ new.exits = acc.exits
    BY <1>2, <1>6
  <2>2. o \in unmarked /\ o \in ops /\ o \in Ids(acc.th) /\ o \notin Elements(acc.th)
    BY <1>1, <1>6 DEF o, Elements
  <2>3. PICK e \in ops : getNode(acc.th, e).element
    BY <1>3, <1>6
  <2>4. /\ e + 1 \in 1 .. Len(acc.th.nodes) /\ acc.th.nodes[e + 1].element
        /\ Compared(acc.th.nodes, e + 1, o + 1)
    <3>1. Len(acc.th.nodes) \in Nat /\ Ids(acc.th) = 0 .. Len(acc.th.nodes) - 1
      BY NodesOf DEF Passing, Fine, Ids
    <3>2. e + 1 \in 1 .. Len(acc.th.nodes) /\ (e + 1) - 1 = e /\ (o + 1) - 1 = o
          /\ id + 1 \in 1 .. Len(acc.th.nodes)
      BY <1>1, <2>2, <3>1
    <3>3. \E i, j \in DOMAIN acc.th.nodes[id + 1].operandIds :
             acc.th.nodes[id + 1].operandIds[i] = e /\ acc.th.nodes[id + 1].operandIds[j] = o
      BY <2>2, <2>3 DEF Operands, getNode
    <3>4. acc.th.nodes[id + 1].type = "binary-relational" /\ acc.th.nodes[e + 1].element
      BY <1>6, <2>3 DEF getNode
    <3> DEFINE N == acc.th.nodes
               r == id + 1
    <3>5. /\ r \in 1 .. Len(N) /\ N[r].type = "binary-relational"
          /\ \E i, j \in DOMAIN N[r].operandIds :
                N[r].operandIds[i] = (e + 1) - 1 /\ N[r].operandIds[j] = (o + 1) - 1
      BY <3>2, <3>3, <3>4
    <3> HIDE DEF N, r, ops, relational
    <3>6. Compared(N, e + 1, o + 1)
      BY <3>5 DEF Compared
    <3> QED BY <3>2, <3>4, <3>6 DEF N
  <2>5. On(acc.th, new.th) /\ Apart(acc.th, new.th)
    BY <2>1, <2>2, <2>4, SetElementOn DEF Passing
  <2>6. Len(new.th.nodes) = Len(acc.th.nodes) /\ o \in Elements(new.th)
        /\ Elements(acc.th) \subseteq Elements(new.th)
    <3>1. IsTheory(acc.th)
      BY DEF Passing, Fine, Good
    <3>2. acc.th.nodes \in Seq(Node) /\ o + 1 \in 1 .. Len(acc.th.nodes)
      BY <2>2, <3>1 DEF IsTheory, Ids
    <3>3. new.th.nodes = [acc.th.nodes EXCEPT ![o + 1].element = TRUE]
      BY <2>1, <3>1 DEF setElement, IsTheory
    <3>4. Len(new.th.nodes) = Len(acc.th.nodes) /\ \A k \in 1 .. Len(acc.th.nodes) :
             new.th.nodes[k].element = (k = o + 1 \/ acc.th.nodes[k].element)
      <4> DEFINE N == acc.th.nodes
                 m == [N[o + 1] EXCEPT !.element = TRUE]
      <4>1. \A k \in 1 .. Len(N) : N[k] \in Node
        BY <3>2
      <4>2. m.element
        BY <3>2, <4>1 DEF Node
      <4>3. new.th.nodes = [N EXCEPT ![o + 1] = m]
        BY <3>3
      <4>4. \A k \in 1 .. Len(N) : N[k].element \in BOOLEAN
        BY <4>1 DEF Node
      <4> HIDE DEF m
      <4>5. N \in Seq(Node)
        BY <3>2
      <4>6. Len(new.th.nodes) = Len(N) /\ \A k \in 1 .. Len(N) : new.th.nodes[k] = IF k = o + 1 THEN m ELSE N[k]
        BY <3>2, <4>3, <4>5
      <4> HIDE DEF N
      <4>7. \A k \in 1 .. Len(N) : new.th.nodes[k].element = (k = o + 1 \/ N[k].element)
        <5> TAKE k \in 1 .. Len(N)
        <5>1. CASE k = o + 1
          BY <4>2, <4>6, <5>1
        <5>2. CASE k # o + 1
          BY <4>4, <4>6, <5>2
        <5> QED BY <5>1, <5>2
      <4> QED BY <4>6, <4>7 DEF N
    <3>5. Ids(new.th) = Ids(acc.th)
      BY <3>4 DEF Ids
    <3>6. \A k \in Ids(acc.th) : k + 1 \in 1 .. Len(acc.th.nodes)
      BY <3>2 DEF Ids
    <3> QED BY <2>2, <3>4, <3>5, <3>6 DEF Elements, getNode
  <2>7. Marks(acc, new)
    BY <2>1, <2>5, <2>6, OnIs DEF Marks, Passing
  <2>8. More(acc.th, new.th)
    BY <2>2, <2>6 DEF More
  <2> QED BY <2>1, <2>7, <2>8 DEF new, Turned
<1>7. \/ new = acc /\ (acc.exits \/ ~relational \/ unmarked = ops \/ (unmarked = {} /\ ~used))
      \/ new = [acc EXCEPT !.exits = TRUE]
      \/ relational /\ unmarked # ops /\ unmarked # {} /\ new = [acc EXCEPT !.th = setElement(@, o), !.marked = TRUE]
  <2> HIDE DEF relational, used, unmarked, ops
  <2> QED BY <1>2
<1> HIDE DEF relational, used, unmarked, ops
<1> QED BY <1>4, <1>5, <1>6, <1>7 DEF new

(* What a pass that goes over the table comes to.                          *)
PassDone(acc, new) ==
    \/ new.exits
    \/ new.marked /\ More(acc.th, new.th)
    \/ ~new.marked /\ Quiet(new.th)

LEMMA PassPropagated ==
    ASSUME NEW acc, Passing(acc)
    PROVE  LET new == propagatePass(acc)
           IN  /\ Marks(acc, new)
               /\ IF acc.exits \/ ~acc.marked THEN new = acc ELSE PassDone(acc, new)
<1> DEFINE base == [acc EXCEPT !.marked = FALSE]
           s == [k \in DOMAIN acc.th.nodes |-> k - 1]
           new == propagatePass(acc)
<1>1. new = IF acc.exits \/ ~acc.marked THEN acc ELSE Passed(base, s)
  BY DEF propagatePass, Passed, Loop
<1>2. base \in [th : {base.th}, marked : BOOLEAN, exits : BOOLEAN] /\ base.th = acc.th /\ ~base.marked
  BY DEF Passing
<1>3. Passing(base) /\ Marks(acc, base)
  BY <1>2, OnIs, ApartIs DEF Marks, Passing
<1>4. s \in Seq(Ids(base.th)) /\ \A id \in Ids(base.th) : id + 1 \in 1 .. Len(s) /\ s[id + 1] = id
  <2> DEFINE n == Len(acc.th.nodes)
  <2>1. DOMAIN acc.th.nodes = 1 .. n /\ n \in Nat /\ Ids(base.th) = 0 .. n - 1
    BY <1>2, NodesOf DEF Passing, Fine, Ids
  <2> HIDE DEF n
  <2>2. s \in [1 .. n -> 0 .. n - 1] /\ \A id \in 0 .. n - 1 : id + 1 \in 1 .. n /\ s[id + 1] = id
    BY <2>1
  <2> HIDE DEF s
  <2> QED BY <2>1, <2>2
<1> HIDE DEF base, s, new
<1>5. Len(s) \in Nat /\ \A k \in 1 .. Len(s) : s[k] \in Ids(base.th)
  BY <1>4
<1>6. PICK made : IsPassed(made, base, s)
  BY <1>5, PassedIs
<1>7. /\ Passed(base, s) = made[Len(s)] /\ made[0] = base
      /\ \A k \in 1 .. Len(s) : made[k] = propagateNode(made[k - 1], s[k])
  BY <1>6 DEF IsPassed
<1> DEFINE SoFar(k) ==
               \/ made[k].exits
               \/ made[k].marked /\ More(base.th, made[k].th)
               \/ made[k] = base /\ \A j \in 1 .. k : Clear(base.th, s[j])
           K == {k \in 0 .. Len(s) : Marks(base, made[k]) /\ SoFar(k)}
<1>8. 0 \in K
  BY <1>3, <1>5, <1>7, MarksIs
<1>9. ASSUME NEW k \in 1 .. Len(s), k - 1 \in K
      PROVE  k \in K
  <2>1. Marks(base, made[k - 1]) /\ SoFar(k - 1)
    BY <1>9
  <2>2. Passing(made[k - 1]) /\ s[k] \in Ids(made[k - 1].th)
    BY <1>3, <1>5, <2>1, MarksIs
  <2>3. Marks(made[k - 1], made[k]) /\ Turned(made[k - 1], made[k], s[k])
    BY <1>7, <2>2, NodePropagated
  <2>4. Marks(base, made[k])
    BY <1>3, <2>1, <2>3, MarksIs
  <2>5. SoFar(k)
    <3>1. CASE made[k - 1].exits
      BY <2>3, <3>1 DEF Turned
    <3>2. CASE made[k - 1].marked /\ More(base.th, made[k - 1].th)
      BY <2>3, <3>2 DEF Turned, More, Marks
    <3>3. CASE made[k - 1] = base /\ \A j \in 1 .. k - 1 : Clear(base.th, s[j])
      <4>1. \A j \in 1 .. k : j \in 1 .. k - 1 \/ j = k
        OBVIOUS
      <4> QED BY <2>3, <3>3, <4>1 DEF Turned
    <3> QED BY <2>1, <3>1, <3>2, <3>3
  <2> QED BY <2>4, <2>5
<1> HIDE DEF K
<1>10. Len(s) \in K
  BY <1>5, <1>8, <1>9, LoopInduction
<1>11. Marks(acc, Passed(base, s))
  BY <1>3, <1>7, <1>10, MarksIs DEF K
<1>12. PassDone(acc, Passed(base, s))
  <2>1. SoFar(Len(s))
    BY <1>10 DEF K
  <2>2. CASE made[Len(s)] = base /\ \A j \in 1 .. Len(s) : Clear(base.th, s[j])
    <3>1. Quiet(base.th)
      BY <1>4, <2>2 DEF Quiet
    <3> QED BY <1>2, <1>7, <2>2, <3>1 DEF PassDone
  <2> QED BY <1>2, <1>7, <2>1, <2>2 DEF PassDone
<1>13. Marks(acc, acc)
  BY MarksIs
<1> QED BY <1>1, <1>11, <1>12, <1>13 DEF new

LEMMA Propagated ==
    ASSUME NEW th, Fine(th)
    PROVE  LET done == propagateElementAttribute(th)
           IN  On(th, done.th) /\ Apart(th, done.th) /\ (done.exits \/ Quiet(done.th))
<1> DEFINE base == [th |-> th, marked |-> TRUE, exits |-> FALSE]
           n == Len(th.nodes)
           s == [k \in 1 .. n + 1 |-> k]
<1>1. propagateElementAttribute(th) = PassedAll(base, s)
  BY DEF propagateElementAttribute, PassedAll, Loop
<1>2. Passing(base) /\ base.th = th /\ base.marked
  BY DEF Passing
<1>3. n \in Nat /\ Len(s) = n + 1
  <2>1. n \in Nat
    BY NodesOf DEF Fine
  <2> HIDE DEF n
  <2> QED BY <2>1
<1>4. \A new : Marks(base, new) => Elements(new.th) \subseteq 0 .. n - 1
  BY <1>2 DEF Marks, Elements, Ids
<1> HIDE DEF base, n, s
<1>5. PICK made : IsPassedAll(made, base, s)
  <2>1. Len(s) \in Nat
    BY <1>3
  <2> QED BY <2>1, PassedAllIs
<1>6. /\ PassedAll(base, s) = made[Len(s)] /\ made[0] = base
      /\ \A k \in 1 .. Len(s) : made[k] = propagatePass(made[k - 1])
  BY <1>5 DEF IsPassedAll
<1> DEFINE Ended(k) == made[k].exits \/ (~made[k].marked /\ Quiet(made[k].th))
           K == {k \in 0 .. Len(s) : /\ Marks(base, made[k])
                                     /\ Ended(k) \/ (made[k].marked /\ k <= Cardinality(Elements(made[k].th)))}
<1>7. 0 \in K
  <2>1. Marks(base, made[0])
    BY <1>2, <1>6, MarksIs
  <2>2. Cardinality(Elements(made[0].th)) \in Nat
    BY <1>3, <1>4, <2>1, SubsetGrows
  <2> QED BY <1>2, <1>3, <1>6, <2>1, <2>2
<1>8. ASSUME NEW k \in 1 .. Len(s), k - 1 \in K
      PROVE  k \in K
  <2>1. Marks(base, made[k - 1]) /\ (Ended(k - 1) \/ (made[k - 1].marked /\ k - 1 <= Cardinality(Elements(made[k - 1].th))))
    BY <1>8
  <2>2. Passing(made[k - 1])
    BY <1>2, <2>1, MarksIs
  <2>3. /\ Marks(made[k - 1], made[k])
        /\ IF made[k - 1].exits \/ ~made[k - 1].marked THEN made[k] = made[k - 1]
           ELSE PassDone(made[k - 1], made[k])
    BY <1>6, <2>2, PassPropagated
  <2>4. Marks(base, made[k])
    BY <1>2, <2>1, <2>3, MarksIs
  <2>5. CASE Ended(k - 1)
    BY <2>3, <2>4, <2>5
  <2>6. CASE ~made[k - 1].exits /\ made[k - 1].marked /\ k - 1 <= Cardinality(Elements(made[k - 1].th))
    <3>1. PassDone(made[k - 1], made[k])
      BY <2>3, <2>6
    <3>2. CASE made[k].marked /\ More(made[k - 1].th, made[k].th)
      <4> DEFINE S == Elements(made[k - 1].th)
                 T == Elements(made[k].th)
      <4>1. S \subseteq T /\ S # T /\ T \subseteq 0 .. n - 1
        BY <1>4, <2>3, <2>4, <3>2 DEF Marks, More
      <4>2. Cardinality(S) \in Nat /\ Cardinality(T) \in Nat /\ Cardinality(S) + 1 <= Cardinality(T)
        BY <1>3, <4>1, SubsetGrows
      <4>3. k <= Cardinality(T)
        BY <2>6, <4>2
      <4>4. made[k].marked
        BY <3>2
      <4> QED BY <2>4, <4>3, <4>4
    <3> QED BY <2>4, <3>1, <3>2 DEF PassDone
  <2> QED BY <2>1, <2>5, <2>6
<1> HIDE DEF K
<1>9. Len(s) \in K
  BY <1>3, <1>7, <1>8, LoopInduction
<1>10. Marks(base, made[Len(s)]) /\ (Ended(Len(s)) \/ (made[Len(s)].marked /\ Len(s) <= Cardinality(Elements(made[Len(s)].th))))
  BY <1>9 DEF K
<1>11. Cardinality(Elements(made[Len(s)].th)) \in Nat /\ Cardinality(Elements(made[Len(s)].th)) <= n
  BY <1>3, <1>4, <1>10, SubsetGrows
<1>12. Ended(Len(s))
  BY <1>3, <1>10, <1>11
<1> QED BY <1>1, <1>2, <1>6, <1>10, <1>12 DEF Marks

(* Where nothing is left to be done, a node is an element exactly when     *)
(* relations connect it to an access.                                      *)
LEMMA ReachedClosed ==
    ASSUME NEW th, Good(th), NEW S, S \subseteq Ids(th)
    PROVE  Neighbours(th, Reached(th, S)) = Reached(th, S) /\ S \subseteq Reached(th, S)
<1> DEFINE n == Len(th.nodes)
<1>1. n \in Nat /\ Ids(th) = 0 .. n - 1
  BY NodesOf DEF Ids
<1>2. PICK made : IsReached(made, th, S)
  BY <1>1, ReachedIs
<1>3. Reached(th, S) = made[n] /\ made[0] = S /\ \A k \in 1 .. n : made[k] = Neighbours(th, made[k - 1])
  BY <1>2 DEF IsReached
<1>4. \A T : T \subseteq Neighbours(th, T)
  BY DEF Neighbours
<1>5. \A T : T \subseteq Ids(th) => Neighbours(th, T) \subseteq Ids(th)
  BY OperandsAre DEF Neighbours, Relations
<1> HIDE DEF n
<1> DEFINE K == {k \in 0 .. n : /\ S \subseteq made[k] /\ made[k] \subseteq 0 .. n - 1
                                /\ Neighbours(th, made[k]) = made[k] \/ k <= Cardinality(made[k])}
<1>6. 0 \in K
  <2>1. Cardinality(S) \in Nat
    BY <1>1, SubsetGrows
  <2> QED BY <1>1, <1>3, <2>1
<1>7. ASSUME NEW k \in 1 .. n, k - 1 \in K
      PROVE  k \in K
  <2> DEFINE A == made[k - 1]
             B == made[k]
  <2>1. S \subseteq A /\ A \subseteq 0 .. n - 1 /\ (Neighbours(th, A) = A \/ k - 1 <= Cardinality(A))
    BY <1>7
  <2>2. B = Neighbours(th, A)
    BY <1>3
  <2>3. A \subseteq B /\ B \subseteq 0 .. n - 1
    BY <1>1, <1>4, <1>5, <2>1, <2>2
  <2>4. Neighbours(th, B) = B \/ k <= Cardinality(B)
    <3>1. CASE A = B
      BY <2>2, <3>1
    <3>2. CASE A # B
      <4>1. Cardinality(A) \in Nat /\ Cardinality(B) \in Nat /\ Cardinality(A) + 1 <= Cardinality(B)
        BY <1>1, <2>3, <3>2, SubsetGrows
      <4>2. k - 1 <= Cardinality(A)
        BY <2>1, <2>2, <3>2
      <4> HIDE DEF A, B
      <4> QED BY <4>1, <4>2
    <3> QED BY <3>1, <3>2
  <2> QED BY <2>1, <2>3, <2>4
<1> HIDE DEF K
<1>8. n \in K
  BY <1>1, <1>6, <1>7, LoopInduction
<1>9. S \subseteq made[n] /\ made[n] \subseteq 0 .. n - 1
      /\ (Neighbours(th, made[n]) = made[n] \/ n <= Cardinality(made[n]))
  BY <1>8 DEF K
<1>10. CASE n <= Cardinality(made[n])
  <2>1. made[n] = 0 .. n - 1
    <3> DEFINE B == made[n]
    <3>1. B \subseteq 0 .. n - 1 /\ n <= Cardinality(B)
      BY <1>9, <1>10
    <3> HIDE DEF B
    <3>2. Cardinality(B) \in Nat /\ Cardinality(B) <= n
      BY <1>1, <3>1, SubsetGrows
    <3>3. Cardinality(B) = n
      BY <1>1, <3>1, <3>2
    <3>4. B = 0 .. n - 1
      BY <1>1, <3>1, <3>3, SubsetGrows
    <3> QED BY <3>4 DEF B
  <2>2. Neighbours(th, made[n]) = made[n]
    BY <1>1, <1>4, <1>5, <2>1
  <2> QED BY <1>3, <1>9, <2>2
<1> QED BY <1>3, <1>9, <1>10

LEMMA ReachedLeast ==
    ASSUME NEW th, Good(th), NEW S, NEW T, S \subseteq T, Neighbours(th, T) = T
    PROVE  Reached(th, S) \subseteq T
<1> DEFINE n == Len(th.nodes)
<1>1. n \in Nat
  BY NodesOf
<1>2. PICK made : IsReached(made, th, S)
  BY <1>1, ReachedIs
<1>3. Reached(th, S) = made[n] /\ made[0] = S /\ \A k \in 1 .. n : made[k] = Neighbours(th, made[k - 1])
  BY <1>2 DEF IsReached
<1>4. \A A : A \subseteq T => Neighbours(th, A) \subseteq T
  BY DEF Neighbours
<1> HIDE DEF n
<1> DEFINE K == {k \in 0 .. n : made[k] \subseteq T}
<1>5. 0 \in K
  BY <1>1, <1>3
<1>6. ASSUME NEW k \in 1 .. n, k - 1 \in K
      PROVE  k \in K
  BY <1>3, <1>4, <1>6
<1> HIDE DEF K
<1>7. n \in K
  BY <1>1, <1>5, <1>6, LoopInduction
<1> QED BY <1>3, <1>7 DEF K

(* What holds of the code's passes, more than ElementsConnected asks: they *)
(* make no difference between constants and other operands.                *)
ExactElements(th) ==
    /\ Elements(th) = Reached(th, Accesses(th))
    /\ \A r \in Relations(th) :
          Operands(th, r) \cap Elements(th) # {} => Operands(th, r) \cap IndexUsed(th) = {}

LEMMA QuietExact ==
    ASSUME NEW th, Fine(th), Quiet(th)
    PROVE  ExactElements(th)
<1> DEFINE E == Elements(th)
           A == Accesses(th)
           R == Reached(th, A)
<1>1. Good(th) /\ Shaped(th) /\ Len(th.nodes) \in Nat
      /\ \A k \in 1 .. Len(th.nodes) : k - 1 \in Ids(th) /\ getNode(th, k - 1) = th.nodes[k]
  BY NodesOf DEF Fine, Settled, Ids, getNode
<1>2. \A k \in Ids(th) : k + 1 \in 1 .. Len(th.nodes) /\ (k + 1) - 1 = k /\ getNode(th, k) = th.nodes[k + 1]
  BY <1>1 DEF Ids, getNode
<1>3. A \subseteq E
  BY <1>1, <1>2 DEF Shaped, Shape, Worded, Accesses, Elements
<1>4. Neighbours(th, E) = E
  BY DEF Neighbours, Quiet, Clear, Relations
<1>5. R \subseteq E
  BY <1>1, <1>3, <1>4, ReachedLeast
<1>6. Neighbours(th, R) = R /\ A \subseteq R
  BY <1>1, ReachedClosed DEF Accesses
<1>7. ClosedIn(th.nodes, R)
  <2> SUFFICES ASSUME NEW k \in 1 .. Len(th.nodes)
               PROVE  /\ th.nodes[k].type = "access" => k - 1 \in R
                      /\ th.nodes[k].type = "binary-relational" =>
                            \A i, j \in DOMAIN th.nodes[k].operandIds :
                                th.nodes[k].operandIds[i] \in R => th.nodes[k].operandIds[j] \in R
    BY DEF ClosedIn
  <2> HIDE DEF R
  <2>1. th.nodes[k].type = "access" => k - 1 \in R
    BY <1>1, <1>6 DEF Accesses
  <2>2. ASSUME th.nodes[k].type = "binary-relational", NEW i \in DOMAIN th.nodes[k].operandIds,
               NEW j \in DOMAIN th.nodes[k].operandIds, th.nodes[k].operandIds[i] \in R
        PROVE  th.nodes[k].operandIds[j] \in R
    <3>1. k - 1 \in Relations(th)
      BY <1>1, <2>2 DEF Relations
    <3>2. th.nodes[k].operandIds[i] \in Operands(th, k - 1) /\ th.nodes[k].operandIds[j] \in Operands(th, k - 1)
      BY <1>1 DEF Operands
    <3> QED BY <1>6, <2>2, <3>1, <3>2 DEF Neighbours
  <2> QED BY <2>1, <2>2
<1>8. E \subseteq R
  <2>1. \A k \in 1 .. Len(th.nodes) : th.nodes[k].element => k - 1 \in R
    BY <1>1, <1>7 DEF Shaped, Linked
  <2> HIDE DEF R
  <2> QED BY <1>2, <2>1 DEF Elements
<1>9. \A r \in Relations(th) : Operands(th, r) \cap E # {} => Operands(th, r) \cap IndexUsed(th) = {}
  BY DEF Quiet, Clear, Relations
<1> QED BY <1>5, <1>8, <1>9 DEF ExactElements

LEMMA BoundTermsFilled ==
    ASSUME NEW th, Fine(th)
    PROVE  /\ On(th, fillBoundTerms(th))
           /\ fillBoundTerms(th).generatedVocabIds = th.generatedVocabIds
           /\ fillBoundTerms(th).quantFreeVocIds = th.quantFreeVocIds
<1> DEFINE new == fillBoundTerms(th)
           met == {id \in UNION {Operands(th, r) : r \in Relations(th)} :
                     ~getNode(th, id).element /\ ~getNode(th, id).global /\ id \notin th.readIndexTerms}
<1>1. met \subseteq Ids(th)
  BY OperandsAre DEF Fine, Relations
<1>2. new = [th EXCEPT !.boundTerms = @ \cup met]
  BY DEF fillBoundTerms
<1> HIDE DEF met, new
<1>3. IsTheory(th)
  BY DEF Fine, Good
<1>4. Others(th, new) /\ new.generatedVocabIds = th.generatedVocabIds
      /\ new.quantFreeVocIds = th.quantFreeVocIds /\ new.boundTerms = th.boundTerms \cup met
  BY <1>2, <1>3 DEF Others, IsTheory
<1> QED BY <1>1, <1>4, FieldsOf, OthersOn DEF new

LEMMA IndexTermsAre ==
    ASSUME NEW th, Fine(th)
    PROVE  IndexTerms(th) \in Seq(Ids(th))
<1> DEFINE n == Len(th.nodes)
<1>1. n \in Nat /\ Ids(th) \subseteq 0 .. n
  BY NodesOf DEF Fine, Ids
<1>2. th.readIndexTerms \subseteq Ids(th) /\ th.boundTerms \subseteq Ids(th)
  BY FieldsOf
<1> HIDE DEF n
<1>3. ASSUME NEW S, S \subseteq Ids(th)
      PROVE  Ascending(S) \in Seq(Ids(th))
  <2>1. S \in SUBSET (0 .. n)
    BY <1>1, <1>3
  <2>2. Ascending(S) \in Seq(S)
    BY <1>1, <2>1, AscendingIs
  <2> QED BY <1>3, <2>2, SeqWidens
<1> QED BY <1>2, <1>3, ConcatIs DEF IndexTerms

-----------------------------------------------------------------------------
(* Clones                                                                  *)

(* id, in th, is node with operands from first and second, or true.        *)
Instance(th, node, first, second, id) ==
    \/ /\ node.op \in {"=", "<="} /\ Len(node.operandIds) = 2
       /\ id = th.trueId /\ first \cap second # {}
    \/ Composed(getNode(th, id), node, first, second)

(* Instances, unfolded.                                                    *)
LEMMA InstancesUnfold ==
    ASSUME NEW th, Good(th), NEW sigma
    PROVE  \A i \in Ids(th) : Instances(th, i, sigma) =
              LET node == getNode(th, i)
              IN  IF ~node.global \/ node.const THEN {i}
                  ELSE IF node.isVar THEN {sigma[i]}
                  ELSE {id \in Ids(th) : Instance(th, node, Instances(th, node.operandIds[1], sigma),
                                                  Instances(th, node.operandIds[2], sigma), id)}
<1> DEFINE made == Levels("Instances", th, sigma)
<1>1. \A i : Instances(th, i, sigma) = made[i]
  BY DEF Instances, Levels, Level
<1>2. \A i \in Ids(th) : made[i] = Level("Instances", th, sigma, made, i)
  BY LevelsAre
<1> HIDE DEF made
<1>3. ASSUME NEW i \in Ids(th)
      PROVE  Level("Instances", th, sigma, made, i) =
                LET node == getNode(th, i)
                IN  IF ~node.global \/ node.const THEN {i}
                    ELSE IF node.isVar THEN {sigma[i]}
                    ELSE {id \in Ids(th) : Instance(th, node, made[node.operandIds[1]], made[node.operandIds[2]], id)}
  BY DEF Level, Instance
<1> QED BY <1>1, <1>2, <1>3

(* A node that cloning enters has one or two operands, as its type says.   *)
LEMMA EnteredIs ==
    ASSUME NEW th, Fine(th), NEW id \in Ids(th), ~Whole(getNode(th, id))
    PROVE  LET node == getNode(th, id)
           IN  /\ node \in Node /\ Worded(node) /\ node.op \in NodeOps
               /\ node.global /\ ~node.isVar /\ ~node.const
               /\ \/ node.type \in Binary /\ Len(node.operandIds) = 2
                  \/ node.type \in Unary /\ Len(node.operandIds) = 1
               /\ Len(node.operandIds) >= 1 => node.operandIds[1] \in Ids(th) /\ node.operandIds[1] < id
               /\ Len(node.operandIds) >= 2 => node.operandIds[2] \in Ids(th) /\ node.operandIds[2] < id
               /\ \E i \in 1 .. Len(node.operandIds) : getNode(th, node.operandIds[i]).global
<1> DEFINE node == getNode(th, id)
<1>1. Good(th) /\ node \in Node /\ id + 1 \in 1 .. Len(th.nodes) /\ id \in Nat
      /\ Shaped(th) /\ IndexedIn(th.nodes, th.uterms, th.readIndexTerms)
  BY NodesOf DEF Fine, Right, Settled, Ids
<1>2. node.isVar \in BOOLEAN /\ node.const \in BOOLEAN /\ node.global \in BOOLEAN /\ node.op \in NodeOps
      /\ node.operandIds \in Seq(Nat)
  BY <1>1 DEF Node
<1>3. node.global /\ ~node.isVar /\ ~node.const
  BY <1>2 DEF Whole
<1>4. Shape(node)
  BY <1>1 DEF Shaped, getNode
<1>5. \E i \in DOMAIN node.operandIds : getNode(th, node.operandIds[i]).global
  BY <1>1, <1>3 DEF IndexedIn, getNode
<1>6. /\ Len(node.operandIds) >= 1 => node.operandIds[1] \in Ids(th) /\ node.operandIds[1] \in 0 .. id - 1
      /\ Len(node.operandIds) >= 2 => node.operandIds[2] \in Ids(th) /\ node.operandIds[2] \in 0 .. id - 1
  BY <1>1, OperandBelow
<1> HIDE DEF node
<1>7. /\ Len(node.operandIds) >= 1 => node.operandIds[1] \in Ids(th) /\ node.operandIds[1] < id
      /\ Len(node.operandIds) >= 2 => node.operandIds[2] \in Ids(th) /\ node.operandIds[2] < id
  BY <1>1, <1>6
<1>8. DOMAIN node.operandIds = 1 .. Len(node.operandIds)
  BY <1>2
<1>9. node.operandIds # <<>>
  BY <1>5
<1>10. \/ node.type \in Binary /\ Len(node.operandIds) = 2
       \/ node.type \in Unary /\ Len(node.operandIds) = 1
  BY <1>3, <1>4, <1>9 DEF Shape
<1>11. Worded(node)
  BY <1>4 DEF Shape
<1> QED BY <1>1, <1>2, <1>3, <1>5, <1>7, <1>8, <1>10, <1>11 DEF node

LEMMA UVarsAre ==
    ASSUME NEW th, Fine(th)
    PROVE  \A id \in Ids(th) :
              /\ getUVars(th, id) \in Seq(Ids(th))
              /\ getNode(th, id).global => Len(getUVars(th, id)) >= 1
              /\ ~getNode(th, id).global => getUVars(th, id) = <<>>
<1> DEFINE K == {id \in Ids(th) : /\ getUVars(th, id) \in Seq(Ids(th))
                                  /\ getNode(th, id).global => Len(getUVars(th, id)) >= 1
                                  /\ ~getNode(th, id).global => getUVars(th, id) = <<>>}
<1>1. Good(th)
  BY DEF Fine
<1>2. ASSUME NEW id \in Ids(th), \A w \in Ids(th) : w < id => w \in K
      PROVE  id \in K
  <2> DEFINE node == getNode(th, id)
             operands == node.operandIds
             first == IF Len(operands) >= 1 THEN getUVars(th, operands[1]) ELSE <<>>
             second == IF Len(operands) >= 2 THEN getUVars(th, operands[2]) ELSE <<>>
  <2>1. getUVars(th, id) = IF ~node.global THEN <<>> ELSE IF node.isVar THEN <<id>> ELSE first \o second
    BY <1>1, UVarsUnfold
  <2>2. node \in Node /\ id \in Nat
    BY <1>1, NodesOf
  <2>3. /\ Len(operands) >= 1 => operands[1] \in Ids(th) /\ operands[1] < id
        /\ Len(operands) >= 2 => operands[2] \in Ids(th) /\ operands[2] < id
    <3>1. /\ Len(operands) >= 1 => operands[1] \in Ids(th) /\ operands[1] \in 0 .. id - 1
          /\ Len(operands) >= 2 => operands[2] \in Ids(th) /\ operands[2] \in 0 .. id - 1
      BY <1>1, OperandBelow
    <3> HIDE DEF operands
    <3> QED BY <2>2, <3>1
  <2>4. first \in Seq(Ids(th)) /\ second \in Seq(Ids(th))
    BY <1>2, <2>3
  <2>5. CASE ~node.global
    BY <2>1, <2>5
  <2>6. CASE node.global /\ node.isVar
    <3>1. getUVars(th, id) = <<id>>
      BY <2>1, <2>6
    <3>2. <<id>> \in Seq(Ids(th)) /\ Len(<<id>>) = 1
      OBVIOUS
    <3> DEFINE one == <<id>>
    <3>3. getUVars(th, id) = one /\ one \in Seq(Ids(th)) /\ Len(one) >= 1
      BY <3>1, <3>2
    <3> HIDE DEF one
    <3> QED BY <2>6, <3>3
  <2>7. CASE node.global /\ ~node.isVar
    <3>1. getUVars(th, id) = first \o second
      BY <2>1, <2>7
    <3>2. \E i \in DOMAIN operands : getNode(th, operands[i]).global
      <4>1. id + 1 \in 1 .. Len(th.nodes) /\ IndexedIn(th.nodes, th.uterms, th.readIndexTerms)
        BY <1>1, NodesOf DEF Fine, Right, Ids
      <4> QED BY <2>7, <4>1 DEF IndexedIn, getNode
    <3>3. DOMAIN operands = 1 .. Len(operands) /\ Len(operands) \in Nat
      BY <2>2 DEF Node
    <3>5. Len(operands) \in {1, 2}
      <4>1. id + 1 \in 1 .. Len(th.nodes) /\ Shaped(th)
        BY <1>1, NodesOf DEF Fine, Settled, Ids
      <4>2. Shape(node)
        BY <4>1 DEF Shaped, getNode
      <4>3. operands # <<>>
        BY <3>2
      <4> QED BY <2>7, <4>2, <4>3 DEF Shape
    <3>6. (Len(operands) >= 1 /\ getNode(th, operands[1]).global) \/ (Len(operands) >= 2 /\ getNode(th, operands[2]).global)
      BY <3>2, <3>3, <3>5
    <3>4. Len(first) >= 1 \/ Len(second) >= 1
      BY <1>2, <2>3, <3>6
    <3> HIDE DEF first, second, operands
    <3>7. first \o second \in Seq(Ids(th)) /\ Len(first \o second) = Len(first) + Len(second)
          /\ Len(first) \in Nat /\ Len(second) \in Nat
      BY <2>4, ConcatIs
    <3>8. Len(first \o second) >= 1
      BY <3>4, <3>7
    <3> QED BY <2>7, <3>1, <3>7, <3>8 DEF node
  <2>8. node.global \in BOOLEAN /\ node.isVar \in BOOLEAN
    BY <2>2 DEF Node
  <2> QED BY <2>5, <2>6, <2>7, <2>8
<1> HIDE DEF K
<1>3. Ids(th) \subseteq K
  BY <1>1, <1>2, IdInduction
<1> QED BY <1>3 DEF K

LEMMA UVarsOfOperand ==
    ASSUME NEW th, Fine(th), NEW id \in Ids(th), ~Whole(getNode(th, id)),
           NEW p \in {1, 2}, Len(getNode(th, id).operandIds) >= p,
           NEW u, Has(getUVars(th, getNode(th, id).operandIds[p]), u)
    PROVE  Has(getUVars(th, id), u)
<1> DEFINE node == getNode(th, id)
           operands == node.operandIds
           first == IF Len(operands) >= 1 THEN getUVars(th, operands[1]) ELSE <<>>
           second == IF Len(operands) >= 2 THEN getUVars(th, operands[2]) ELSE <<>>
<1>1. Good(th) /\ node.global /\ ~node.isVar
      /\ (Len(operands) >= 1 => operands[1] \in Ids(th)) /\ (Len(operands) >= 2 => operands[2] \in Ids(th))
      /\ Len(operands) \in {1, 2}
  BY EnteredIs DEF Fine
<1>2. getUVars(th, id) = first \o second
  <2>1. getUVars(th, id) = IF ~node.global THEN <<>> ELSE IF node.isVar THEN <<id>> ELSE first \o second
    BY <1>1, UVarsUnfold
  <2> HIDE DEF node, first, second
  <2> QED BY <1>1, <2>1
<1>3. first \in Seq(Ids(th)) /\ second \in Seq(Ids(th))
  BY <1>1, UVarsAre
<1>4. Has(first, u) \/ Has(second, u)
  BY <1>1
<1> HIDE DEF first, second
<1>5. /\ Len(first \o second) = Len(first) + Len(second) /\ Len(first) \in Nat /\ Len(second) \in Nat
      /\ \A i \in 1 .. Len(first) : (first \o second)[i] = first[i]
      /\ \A i \in 1 .. Len(second) : (first \o second)[Len(first) + i] = second[i]
  BY <1>3, ConcatIs
<1> DEFINE both == first \o second
<1> HIDE DEF both
<1>6. ASSUME Has(first, u)
      PROVE  Has(both, u)
  <2>1. PICK i \in 1 .. Len(first) : first[i] = u
    BY <1>6 DEF Has
  <2>2. i \in 1 .. Len(both) /\ both[i] = u
    BY <1>5, <2>1 DEF both
  <2> QED BY <2>2 DEF Has
<1>7. ASSUME Has(second, u)
      PROVE  Has(both, u)
  <2>1. PICK i \in 1 .. Len(second) : second[i] = u
    BY <1>7 DEF Has
  <2>2. Len(first) + i \in 1 .. Len(both) /\ both[Len(first) + i] = u
    BY <1>5, <2>1 DEF both
  <2> QED BY <2>2 DEF Has
<1> QED BY <1>2, <1>4, <1>6, <1>7 DEF both

LEMMA UVarsStay ==
    ASSUME NEW th, Fine(th), NEW new, On(th, new)
    PROVE  \A id \in Ids(th) : getUVars(new, id) = getUVars(th, id)
<1> DEFINE K == {id \in Ids(th) : getUVars(new, id) = getUVars(th, id)}
<1>1. Good(th) /\ Good(new) /\ Ids(th) \subseteq Ids(new)
  BY OnIs DEF Fine
<1>2. ASSUME NEW id \in Ids(th), \A w \in Ids(th) : w < id => w \in K
      PROVE  id \in K
  <2> DEFINE node == getNode(th, id)
             operands == node.operandIds
             first(t) == IF Len(operands) >= 1 THEN getUVars(t, operands[1]) ELSE <<>>
             second(t) == IF Len(operands) >= 2 THEN getUVars(t, operands[2]) ELSE <<>>
             F(t) == IF ~node.global THEN <<>> ELSE IF node.isVar THEN <<id>> ELSE first(t) \o second(t)
  <2>1. getUVars(th, id) = F(th)
    BY <1>1, UVarsUnfold
  <2>2. getUVars(new, id) = F(new)
    <3>1. getNode(new, id).operandIds = operands /\ getNode(new, id).global = node.global
          /\ getNode(new, id).isVar = node.isVar
      BY NodeStays
    <3> QED BY <1>1, <3>1, UVarsUnfold
  <2>3. ASSUME NEW p \in {1, 2}, Len(operands) >= p
        PROVE  getUVars(new, operands[p]) = getUVars(th, operands[p])
    <3>1. operands[p] \in 0 .. id - 1 /\ operands[p] \in Ids(th)
      BY <1>1, <2>3, OperandBelow
    <3>2. operands[p] < id
      BY <1>1, <3>1, NodesOf
    <3> QED BY <1>2, <3>1, <3>2
  <2> HIDE DEF operands
  <2>4. first(new) = first(th) /\ second(new) = second(th)
    BY <2>3
  <2>5. F(new) = F(th)
    BY <2>4
  <2> HIDE DEF F
  <2> QED BY <2>1, <2>2, <2>5
<1> HIDE DEF K
<1>3. Ids(th) \subseteq K
  BY <1>1, <1>2, IdInduction
<1> QED BY <1>3 DEF K

LEMMA LabelStays ==
    ASSUME NEW th, Fine(th), NEW new, On(th, new), NEW id \in Ids(th)
    PROVE  Label(getNode(new, id)) = Label(getNode(th, id))
BY NodeStays DEF Label

LEMMA TextStays ==
    ASSUME NEW th, Fine(th), NEW new, On(th, new)
    PROVE  \A id \in Ids(th) : Text(new, id) = Text(th, id)
<1> DEFINE K == {id \in Ids(th) : Text(new, id) = Text(th, id)}
<1>1. Good(th) /\ Good(new) /\ Ids(th) \subseteq Ids(new)
  BY OnIs DEF Fine
<1>2. ASSUME NEW id \in Ids(th), \A w \in Ids(th) : w < id => w \in K
      PROVE  id \in K
  <2> DEFINE operands == getNode(th, id).operandIds
             type == getNode(th, id).type
             first(t) == IF Len(operands) = 0 THEN <<>>
                         ELSE IF type = "access" THEN <<Label(getNode(t, operands[1]))>>
                         ELSE Text(t, operands[1])
             second(t) == IF Len(operands) < 2 THEN <<>> ELSE Text(t, operands[2])
             F(t) == <<Label(getNode(t, id))>> \o first(t) \o second(t)
  <2>1. Text(th, id) = F(th)
    BY <1>1, TextUnfold
  <2>2. Text(new, id) = F(new)
    <3>1. getNode(new, id).operandIds = operands /\ getNode(new, id).type = type
      BY NodeStays
    <3> QED BY <1>1, <3>1, TextUnfold
  <2>3. ASSUME NEW p \in {1, 2}, Len(operands) >= p
        PROVE  Text(new, operands[p]) = Text(th, operands[p])
               /\ Label(getNode(new, operands[p])) = Label(getNode(th, operands[p]))
    <3>1. operands[p] \in 0 .. id - 1 /\ operands[p] \in Ids(th)
      BY <1>1, <2>3, OperandBelow
    <3>2. operands[p] < id
      BY <1>1, <3>1, NodesOf
    <3> QED BY <1>2, <3>1, <3>2, LabelStays
  <2>5. Len(operands) \in Nat
    BY <1>1, OperandBelow
  <2>6. Label(getNode(new, id)) = Label(getNode(th, id))
    BY LabelStays
  <2> DEFINE l == Len(operands)
  <2> HIDE DEF operands, type
  <2>4. first(new) = first(th) /\ second(new) = second(th)
    <3>1. l # 0 => l >= 1
      BY <2>5
    <3>2. ~(l < 2) => l >= 2
      BY <2>5
    <3> QED BY <2>3, <3>1, <3>2
  <2> HIDE DEF first, second
  <2> QED BY <2>1, <2>2, <2>4, <2>6
<1> HIDE DEF K
<1>3. Ids(th) \subseteq K
  BY <1>1, <1>2, IdInduction
<1> QED BY <1>3 DEF K

LEMMA InstancesStay ==
    ASSUME NEW th, Fine(th), NEW new, On(th, new), NEW sigma
    PROVE  \A id \in Ids(th) : Instances(th, id, sigma) \subseteq Instances(new, id, sigma)
<1> DEFINE K == {id \in Ids(th) : Instances(th, id, sigma) \subseteq Instances(new, id, sigma)}
<1>1. Good(th) /\ Good(new) /\ Ids(th) \subseteq Ids(new)
  BY OnIs DEF Fine
<1>2. ASSUME NEW id \in Ids(th), \A w \in Ids(th) : w < id => w \in K
      PROVE  id \in K
  <2> DEFINE a == getNode(th, id)
             b == getNode(new, id)
             operands == a.operandIds
             first(t) == Instances(t, operands[1], sigma)
             second(t) == Instances(t, operands[2], sigma)
  <2>1. Instances(th, id, sigma) =
           IF ~a.global \/ a.const THEN {id} ELSE IF a.isVar THEN {sigma[id]}
           ELSE {f \in Ids(th) : Instance(th, a, first(th), second(th), f)}
    BY <1>1, InstancesUnfold
  <2>2. b.operandIds = operands /\ b.type = a.type /\ b.op = a.op /\ b.isVar = a.isVar
        /\ b.global = a.global /\ b.const = a.const
    BY NodeStays
  <2>3. Instances(new, id, sigma) =
           IF ~b.global \/ b.const THEN {id} ELSE IF b.isVar THEN {sigma[id]}
           ELSE {f \in Ids(new) : Instance(new, b, first(new), second(new), f)}
    <3>1. Instances(new, id, sigma) =
           IF ~b.global \/ b.const THEN {id} ELSE IF b.isVar THEN {sigma[id]}
           ELSE {f \in Ids(new) : Instance(new, b, Instances(new, b.operandIds[1], sigma),
                                                   Instances(new, b.operandIds[2], sigma), f)}
      BY <1>1, InstancesUnfold
    <3> QED BY <2>2, <3>1
  <2>4. Len(operands) \in Nat
    BY <1>1, OperandBelow
  <2>5. ASSUME NEW p \in {1, 2}, Len(operands) >= p
        PROVE  Instances(th, operands[p], sigma) \subseteq Instances(new, operands[p], sigma)
    <3>1. operands[p] \in 0 .. id - 1 /\ operands[p] \in Ids(th)
      BY <1>1, <2>5, OperandBelow
    <3>2. operands[p] < id
      BY <1>1, <3>1, NodesOf
    <3> QED BY <1>2, <3>1, <3>2
  <2>6. /\ Len(operands) = 1 => first(th) \subseteq first(new)
        /\ Len(operands) = 2 => first(th) \subseteq first(new) /\ second(th) \subseteq second(new)
    BY <2>4, <2>5
  <2>7. ASSUME NEW f \in Ids(th), Instance(th, a, first(th), second(th), f)
        PROVE  Instance(new, b, first(new), second(new), f)
    <3> HIDE DEF first, second, a, b
    <3>1. getNode(new, f).op = getNode(th, f).op /\ getNode(new, f).type = getNode(th, f).type
          /\ getNode(new, f).operandIds = getNode(th, f).operandIds
      BY NodeStays
    <3>2. CASE a.op \in {"=", "<="} /\ Len(operands) = 2 /\ f = th.trueId /\ first(th) \cap second(th) # {}
      <4>1. f # NoId
        BY <1>1, NodesOf DEF NoId
      <4>2. new.trueId = th.trueId
        BY <3>2, <4>1 DEF On, Like
      <4> QED BY <2>2, <2>6, <3>2, <4>2 DEF Instance
    <3>3. CASE Composed(getNode(th, f), a, first(th), second(th))
      BY <2>2, <2>6, <3>1, <3>3 DEF Instance, Composed
    <3> QED BY <2>7, <3>2, <3>3 DEF Instance
  <2> HIDE DEF first, second, a, b
  <2> QED BY <1>1, <2>1, <2>2, <2>3, <2>7
<1> HIDE DEF K
<1>3. Ids(th) \subseteq K
  BY <1>1, <1>2, IdInduction
<1> QED BY <1>3 DEF K

(* The node a handler makes.                                               *)
Composes(result, op, type, operandIds) ==
    LET node == getNode(result.th, result.id)
    IN  node.op = op /\ node.type = type /\ node.operandIds = operandIds

LEMMA NodeAppended ==
    ASSUME NEW th, Fine(th), NEW n \in Node, NEW ids, NEW result,
           result.th.nodes = Append(th.nodes, propagateIsGlobal(th, n, ids)), result.id = NextId(th)
    PROVE  Composes(result, n.op, n.type, n.operandIds)
<1> DEFINE m == propagateIsGlobal(th, n, ids)
<1>1. m.op = n.op /\ m.type = n.type /\ m.operandIds = n.operandIds
  BY DEF Node, propagateIsGlobal
<1>2. th.nodes \in Seq(Node) /\ NextId(th) + 1 = Len(th.nodes) + 1
  BY NodesOf DEF Fine, Good, NextId
<1> HIDE DEF m
<1>3. Append(th.nodes, m)[NextId(th) + 1] = m
  BY <1>2
<1> QED BY <1>1, <1>3 DEF Composes, getNode, m

LEMMA NewArith ==
    ASSUME NEW th, Fine(th), NEW op \in NodeOps, NEW t1 \in Ids(th), NEW t2 \in Ids(th)
    PROVE  Composes(handleTermArithTerm(th, op, t1, t2), op, "binary-arithmetic",
                    Ordered(op \in {"+", "*"}, t1, t2))
<1> DEFINE result == handleTermArithTerm(th, op, t1, t2)
           u == VocabNode(op, "binary-arithmetic")
           l == getNode(th, t1).leftVars
           r == getNode(th, t2).rightVars
           s == Ordered(op \in {"+", "*"}, t1, t2)
           n == [u EXCEPT !.operandIds = s, !.leftVars = l, !.rightVars = r]
<1>1. IsTheory(th) /\ th.nodes \in Seq(Node) /\ t1 \in Nat /\ t2 \in Nat
      /\ getNode(th, t1) \in Node /\ getNode(th, t2) \in Node
  BY NodesOf DEF Fine, Good
<1>2. l \in Seq(Nat) /\ r \in Seq(Nat)
  BY <1>1 DEF Node
<1>3. u \in Node
  BY VocabNodeIsNode, NodeWords
<1>4. u.op = op /\ u.type = "binary-arithmetic"
  BY DEF VocabNode
<1>5. result = [th |-> makeNode(th, propagateIsGlobal(th, n, {t1, t2})), id |-> NextId(th)]
  BY DEF handleTermArithTerm
<1>6. s \in Seq(Nat)
  BY <1>1 DEF Ordered
<1> HIDE DEF u, l, r, s, result
<1>7. n \in Node /\ n.op = op /\ n.type = "binary-arithmetic" /\ n.operandIds = s
  BY <1>2, <1>3, <1>4, <1>6 DEF Node
<1> HIDE DEF n
<1>8. result.th.nodes = Append(th.nodes, propagateIsGlobal(th, n, {t1, t2})) /\ result.id = NextId(th)
  BY <1>1, <1>5 DEF makeNode, IsTheory
<1>9. Composes(result, op, "binary-arithmetic", s)
  BY <1>7, <1>8, NodeAppended
<1> QED BY <1>9 DEF s, result

LEMMA NewBoolean ==
    ASSUME NEW th, Fine(th), NEW op \in NodeOps, NEW t1 \in Ids(th), NEW t2 \in Ids(th)
    PROVE  /\ Composes(handleBEBoolBE(th, op, t1, t2), op, "binary-boolean", <<t1, t2>>)
           /\ Composes(handleNot(th, t1), "not", "unary-boolean", <<t1>>)
           /\ Composes(handleUnaryMinus(th, t1), "-", "unary-arithmetic", <<t1>>)
<1>1. IsTheory(th) /\ t1 \in Nat /\ t2 \in Nat
  BY NodesOf DEF Fine, Good
<1>2. ASSUME NEW o \in NodeOps, NEW type \in NodeTypes, NEW s \in Seq(Nat), NEW ids, NEW result,
             result = LET node == [VocabNode(o, type) EXCEPT !.operandIds = s]
                      IN  [th |-> makeNode(th, propagateIsGlobal(th, node, ids)), id |-> NextId(th)]
      PROVE  Composes(result, o, type, s)
  <2> DEFINE u == VocabNode(o, type)
             n == [u EXCEPT !.operandIds = s]
  <2>1. u \in Node
    BY VocabNodeIsNode
  <2>2. u.op = o /\ u.type = type
    BY DEF VocabNode
  <2>3. result = [th |-> makeNode(th, propagateIsGlobal(th, n, ids)), id |-> NextId(th)]
    BY <1>2
  <2> HIDE DEF u
  <2>4. n \in Node /\ n.op = o /\ n.type = type /\ n.operandIds = s
    BY <2>1, <2>2 DEF Node
  <2> HIDE DEF n
  <2>5. result.th.nodes = Append(th.nodes, propagateIsGlobal(th, n, ids)) /\ result.id = NextId(th)
    BY <1>1, <2>3 DEF makeNode, IsTheory
  <2> QED BY <2>4, <2>5, NodeAppended
<1>3. <<t1, t2>> \in Seq(Nat) /\ <<t1>> \in Seq(Nat)
  BY <1>1
<1>4. Composes(handleBEBoolBE(th, op, t1, t2), op, "binary-boolean", <<t1, t2>>)
  <2> DEFINE result == handleBEBoolBE(th, op, t1, t2)
             s == <<t1, t2>>
  <2>1. result = LET node == [VocabNode(op, "binary-boolean") EXCEPT !.operandIds = s]
                 IN  [th |-> makeNode(th, propagateIsGlobal(th, node, {t1, t2})), id |-> NextId(th)]
    BY DEF handleBEBoolBE
  <2>2. "binary-boolean" \in NodeTypes /\ s \in Seq(Nat)
    BY <1>3, NodeWords
  <2> HIDE DEF result, s
  <2>3. Composes(result, op, "binary-boolean", s)
    BY <1>2, <2>1, <2>2
  <2> QED BY <2>3 DEF result, s
<1>5. Composes(handleNot(th, t1), "not", "unary-boolean", <<t1>>)
  <2> DEFINE result == handleNot(th, t1)
             s == <<t1>>
  <2>1. result = LET node == [VocabNode("not", "unary-boolean") EXCEPT !.operandIds = s]
                 IN  [th |-> makeNode(th, propagateIsGlobal(th, node, {t1})), id |-> NextId(th)]
    BY DEF handleNot
  <2>2. "unary-boolean" \in NodeTypes /\ "not" \in NodeOps /\ s \in Seq(Nat)
    BY <1>3, NodeWords
  <2> HIDE DEF result, s
  <2>3. Composes(result, "not", "unary-boolean", s)
    BY <1>2, <2>1, <2>2
  <2> QED BY <2>3 DEF result, s
<1>6. Composes(handleUnaryMinus(th, t1), "-", "unary-arithmetic", <<t1>>)
  <2> DEFINE result == handleUnaryMinus(th, t1)
             s == <<t1>>
  <2>1. result = LET node == [VocabNode("-", "unary-arithmetic") EXCEPT !.operandIds = s]
                 IN  [th |-> makeNode(th, propagateIsGlobal(th, node, {t1})), id |-> NextId(th)]
    BY DEF handleUnaryMinus
  <2>2. "unary-arithmetic" \in NodeTypes /\ "-" \in NodeOps /\ s \in Seq(Nat)
    BY <1>3, NodeWords DEF NodeOps, ArithOps
  <2> HIDE DEF result, s
  <2>3. Composes(result, "-", "unary-arithmetic", s)
    BY <1>2, <2>1, <2>2
  <2> QED BY <2>3 DEF result, s
<1> QED BY <1>4, <1>5, <1>6

LEMMA NewAccess ==
    ASSUME NEW th, Fine(th), NEW t1 \in Ids(th), NEW t2 \in Ids(th)
    PROVE  Composes(handleArrayAccess(th, t1, t2), "[]", "access", <<t1, t2>>)
<1> DEFINE result == handleArrayAccess(th, t1, t2)
           u == VocabNode("[]", "access")
           n == [u EXCEPT !.element = TRUE, !.operandIds = <<t1, t2>>, !.leftVars = <<t1>>, !.rightVars = <<t1>>]
<1>1. IsTheory(th) /\ t1 \in Nat /\ t2 \in Nat
  BY NodesOf DEF Fine, Good
<1>2. u \in Node
  BY VocabNodeIsNode, NodeWords
<1>3. u.op = "[]" /\ u.type = "access"
  BY DEF VocabNode
<1>4. result.th.nodes = Append(th.nodes, propagateIsGlobal(th, n, {t2})) /\ result.id = NextId(th)
  BY <1>1 DEF handleArrayAccess, makeNode, IsTheory
<1> HIDE DEF u, result
<1>5. n \in Node /\ n.op = "[]" /\ n.type = "access" /\ n.operandIds = <<t1, t2>>
  <2>1. <<t1, t2>> \in Seq(Nat) /\ <<t1>> \in Seq(Nat)
    BY <1>1
  <2> QED BY <1>2, <1>3, <2>1 DEF Node
<1> HIDE DEF n
<1>6. Composes(result, "[]", "access", <<t1, t2>>)
  BY <1>4, <1>5, NodeAppended
<1> QED BY <1>6 DEF result

(* What cloning makes of a node and the clones of its operands.            *)
Recomposed(th, node, s1, s2, result) ==
    \/ node.type = "binary-relational" /\ result = handleTermRelationalTerm(th, node.op, s1, s2)
    \/ node.type = "binary-arithmetic" /\ result = handleTermArithTerm(th, node.op, s1, s2)
    \/ node.type = "binary-boolean" /\ result = handleBEBoolBE(th, node.op, s1, s2)
    \/ node.type = "access" /\ result = handleArrayAccess(th, s1, s2)
    \/ node.type = "unary-boolean" /\ result = handleNot(th, s2)
    \/ node.type = "unary-arithmetic" /\ result = handleUnaryMinus(th, s2)

(* s is a clone of the p-th operand of id, if it has one.                  *)
Clone(th, id, p, sigma, s) ==
    Len(getNode(th, id).operandIds) >= p =>
        s \in Ids(th) /\ s \in Instances(th, getNode(th, id).operandIds[p], sigma)

Swapped(op, t1, t2, operands) ==
    operands = <<t1, t2>> \/ (op \in {"=", "+", "*"} /\ operands = <<t2, t1>>)

LEMMA BinaryInstance ==
    ASSUME NEW th, Fine(th), NEW id \in Ids(th), ~Whole(getNode(th, id)),
           Len(getNode(th, id).operandIds) = 2, NEW sigma, NEW s1, NEW s2,
           Clone(th, id, 1, sigma, s1), Clone(th, id, 2, sigma, s2),
           NEW result, On(th, result.th), result.id \in Ids(result.th),
           \/ LET node == getNode(th, id)
                  made == getNode(result.th, result.id)
              IN  made.op = node.op /\ made.type = node.type /\ Swapped(node.op, s1, s2, made.operandIds)
           \/ getNode(th, id).op \in {"=", "<="} /\ s1 = s2 /\ result.id = result.th.trueId
    PROVE  result.id \in Instances(result.th, id, sigma)
<1> DEFINE node == getNode(th, id)
           new == result.th
           f == result.id
           a == getNode(new, id)
           made == getNode(new, f)
           first == Instances(new, node.operandIds[1], sigma)
           second == Instances(new, node.operandIds[2], sigma)
<1>1. /\ node.global /\ ~node.isVar /\ ~node.const
      /\ node.operandIds[1] \in Ids(th) /\ node.operandIds[2] \in Ids(th)
  BY EnteredIs
<1>2. Fine(new) /\ Good(new) /\ id \in Ids(new)
  BY OnIs DEF Fine
<1>3. a.op = node.op /\ a.type = node.type /\ a.operandIds = node.operandIds /\ a.global = node.global
      /\ a.isVar = node.isVar /\ a.const = node.const
  BY NodeStays
<1>4. s1 \in first /\ s2 \in second
  BY <1>1, InstancesStay DEF Clone
<1>5. Instances(new, id, sigma) =
         IF ~a.global \/ a.const THEN {id} ELSE IF a.isVar THEN {sigma[id]}
         ELSE {g \in Ids(new) : Instance(new, a, Instances(new, a.operandIds[1], sigma),
                                         Instances(new, a.operandIds[2], sigma), g)}
  BY <1>2, InstancesUnfold
<1>6. Instances(new, id, sigma) = {g \in Ids(new) : Instance(new, a, first, second, g)}
  BY <1>1, <1>3, <1>5
<1> HIDE DEF first, second, a, new, f
<1>7. Instance(new, a, first, second, f)
  <2>1. CASE made.op = node.op /\ made.type = node.type /\ Swapped(node.op, s1, s2, made.operandIds)
    <3>1. Len(made.operandIds) = 2
      BY <2>1 DEF Swapped
    <3>2. \/ made.operandIds[1] = s1 /\ made.operandIds[2] = s2
          \/ node.op \in {"=", "+", "*"} /\ made.operandIds[2] = s1 /\ made.operandIds[1] = s2
      BY <2>1 DEF Swapped
    <3> HIDE DEF made, node
    <3>3. Composed(made, a, first, second)
      BY <1>3, <1>4, <2>1, <3>1, <3>2 DEF Composed, node
    <3> QED BY <3>3 DEF Instance, made
  <2>2. CASE node.op \in {"=", "<="} /\ s1 = s2 /\ f = new.trueId
    BY <1>3, <1>4, <2>2 DEF Instance
  <2> QED BY <2>1, <2>2 DEF f, new
<1> QED BY <1>6, <1>7 DEF f, new

LEMMA UnaryInstance ==
    ASSUME NEW th, Fine(th), NEW id \in Ids(th), ~Whole(getNode(th, id)),
           Len(getNode(th, id).operandIds) = 1, NEW sigma, NEW s,
           Clone(th, id, 1, sigma, s),
           NEW result, On(th, result.th), result.id \in Ids(result.th),
           LET node == getNode(th, id)
               made == getNode(result.th, result.id)
           IN  made.op = node.op /\ made.type = node.type /\ made.operandIds = <<s>>
    PROVE  result.id \in Instances(result.th, id, sigma)
<1> DEFINE node == getNode(th, id)
           new == result.th
           f == result.id
           a == getNode(new, id)
           made == getNode(new, f)
           first == Instances(new, node.operandIds[1], sigma)
           second == Instances(new, node.operandIds[2], sigma)
<1>1. node.global /\ ~node.isVar /\ ~node.const /\ node.operandIds[1] \in Ids(th)
  BY EnteredIs
<1>2. Fine(new) /\ Good(new) /\ id \in Ids(new)
  BY OnIs DEF Fine
<1>3. a.op = node.op /\ a.type = node.type /\ a.operandIds = node.operandIds /\ a.global = node.global
      /\ a.isVar = node.isVar /\ a.const = node.const
  BY NodeStays
<1>4. s \in first
  BY <1>1, InstancesStay DEF Clone
<1>5. Instances(new, id, sigma) =
         IF ~a.global \/ a.const THEN {id} ELSE IF a.isVar THEN {sigma[id]}
         ELSE {g \in Ids(new) : Instance(new, a, Instances(new, a.operandIds[1], sigma),
                                         Instances(new, a.operandIds[2], sigma), g)}
  BY <1>2, InstancesUnfold
<1>6. Instances(new, id, sigma) = {g \in Ids(new) : Instance(new, a, first, second, g)}
  BY <1>1, <1>3, <1>5
<1>7. Len(made.operandIds) = 1 /\ made.operandIds[1] = s /\ made.op = node.op /\ made.type = node.type
  OBVIOUS
<1> HIDE DEF first, second, a, new, f, made
<1>8. Composed(made, a, first, second)
  BY <1>3, <1>4, <1>7 DEF Composed
<1> QED BY <1>6, <1>8 DEF Instance, made, f, new

LEMMA TrueIs ==
    ASSUME NEW th, IsTheory(th)
    PROVE  handleTrue(th).id = handleTrue(th).th.trueId
BY DEF handleTrue, makeNode, IsTheory

LEMMA RecomposedIs ==
    ASSUME NEW th, Fine(th), NEW id \in Ids(th), ~Whole(getNode(th, id)), NEW sigma, NEW s1, NEW s2,
           LET used == Len(getNode(th, id).operandIds)
           IN  IF used = 2 THEN Clone(th, id, 1, sigma, s1) /\ Clone(th, id, 2, sigma, s2)
               ELSE Clone(th, id, 1, sigma, s2),
           NEW result, Recomposed(th, getNode(th, id), s1, s2, result)
    PROVE  /\ On(th, result.th) /\ Apart(th, result.th) /\ result.id \in Ids(result.th)
           /\ result.id \in Instances(result.th, id, sigma)
<1> DEFINE node == getNode(th, id)
           used == Len(node.operandIds)
<1>1. /\ (node.type \in Binary /\ used = 2) \/ (node.type \in Unary /\ used = 1)
      /\ node.op \in NodeOps /\ Worded(node) /\ IsTheory(th)
  BY EnteredIs DEF Fine, Good
<1>2. /\ s2 \in Ids(th)
      /\ used = 2 => s1 \in Ids(th)
  <2>1. used = 2 \/ used = 1
    BY <1>1
  <2>2. used = 2 => Clone(th, id, 1, sigma, s1) /\ Clone(th, id, 2, sigma, s2)
    OBVIOUS
  <2>3. used = 1 => Clone(th, id, 1, sigma, s2)
    OBVIOUS
  <2>4. /\ used = 2 /\ Clone(th, id, 1, sigma, s1) => s1 \in Ids(th)
        /\ used = 2 /\ Clone(th, id, 2, sigma, s2) => s2 \in Ids(th)
        /\ used = 1 /\ Clone(th, id, 1, sigma, s2) => s2 \in Ids(th)
    <3>1. /\ used = 2 => used >= 1 /\ used >= 2
          /\ used = 1 => used >= 1
      OBVIOUS
    <3>2. \A p, s : Clone(th, id, p, sigma, s) <=>
             (used >= p => s \in Ids(th) /\ s \in Instances(th, node.operandIds[p], sigma))
      BY DEF Clone
    <3> HIDE DEF used
    <3> QED BY <3>1, <3>2
  <2> QED BY <2>1, <2>2, <2>3, <2>4
<1>3. Makes(th, result)
  BY <1>1, <1>2, HandlersMake DEF Recomposed, Binary, Unary
<1>4. On(th, result.th) /\ Apart(th, result.th) /\ result.id \in Ids(result.th)
  BY <1>3, OnIs DEF Makes, Adds, TermFrame, Frame, Apart
<1>5. result.id \in Instances(result.th, id, sigma)
  <2>1. CASE node.type = "binary-relational"
    <3>1. used = 2 /\ s1 \in Ids(th) /\ result = handleTermRelationalTerm(th, node.op, s1, s2)
      BY <1>1, <1>2, <2>1 DEF Recomposed, Unary
    <3>2. CASE node.op \in {"=", "<="} /\ s1 = s2
      <4> DEFINE mid == makeNode(th, VocabNode(node.op, "binary-relational"))
      <4>1. result = handleTrue(mid)
        BY <3>1, <3>2 DEF handleTermRelationalTerm
      <4>2. IsTheory(mid)
        <5>1. VocabNode(node.op, "binary-relational") \in Node
          BY <1>1, VocabNodeIsNode, NodeWords
        <5> DEFINE n == VocabNode(node.op, "binary-relational")
        <5>2. mid = makeNode(th, n) /\ n \in Node
          BY <5>1
        <5> HIDE DEF n, mid
        <5>3. Append(th.nodes, n) \in Seq(Node)
          BY <1>1, <5>2 DEF IsTheory
        <5> QED BY <1>1, <5>2, <5>3 DEF makeNode, IsTheory
      <4> HIDE DEF mid
      <4>3. result.id = result.th.trueId
        BY <4>1, <4>2, TrueIs
      <4> QED BY <1>4, <3>1, <3>2, <4>3, BinaryInstance
    <3>3. CASE node.op \notin {"=", "<="} \/ s1 # s2
      <4> DEFINE made == getNode(result.th, result.id)
      <4>1. made.op = node.op /\ made.type = node.type /\ made.operandIds = Ordered(node.op = "=", s1, s2)
        BY <1>1, <1>2, <2>1, <3>1, <3>3, NewRelation
      <4>2. Swapped(node.op, s1, s2, made.operandIds)
        BY <4>1 DEF Ordered, Swapped
      <4> QED BY <1>4, <3>1, <4>1, <4>2, BinaryInstance
    <3> QED BY <3>2, <3>3
  <2>2. CASE node.type \in {"binary-arithmetic", "binary-boolean", "access"}
    <3> DEFINE made == getNode(result.th, result.id)
    <3>1. used = 2 /\ s1 \in Ids(th)
      BY <1>1, <1>2, <2>2 DEF Unary
    <3>2. \/ Composes(result, node.op, node.type, Ordered(node.op \in {"+", "*"}, s1, s2))
          \/ Composes(result, node.op, node.type, <<s1, s2>>)
      <4>1. CASE node.type = "binary-arithmetic"
        BY <1>1, <1>2, <3>1, <4>1, NewArith DEF Recomposed
      <4>2. CASE node.type = "binary-boolean"
        BY <1>1, <1>2, <3>1, <4>2, NewBoolean DEF Recomposed
      <4>3. CASE node.type = "access"
        BY <1>1, <1>2, <3>1, <4>3, NewAccess DEF Recomposed, Worded
      <4> QED BY <2>2, <4>1, <4>2, <4>3
    <3>3. made.op = node.op /\ made.type = node.type /\ Swapped(node.op, s1, s2, made.operandIds)
      BY <3>2 DEF Composes, Ordered, Swapped
    <3> QED BY <1>4, <3>1, <3>3, BinaryInstance
  <2>3. CASE node.type \in {"unary-boolean", "unary-arithmetic"}
    <3>1. used = 1
      BY <1>1, <2>3 DEF Binary
    <3>2. Composes(result, node.op, node.type, <<s2>>)
      <4>1. CASE node.type = "unary-boolean"
        BY <1>1, <1>2, <4>1, NewBoolean DEF Recomposed, Worded
      <4>2. CASE node.type = "unary-arithmetic"
        BY <1>1, <1>2, <4>2, NewBoolean DEF Recomposed, Worded
      <4> QED BY <2>3, <4>1, <4>2
    <3> QED BY <1>4, <3>1, <3>2, UnaryInstance DEF Composes
  <2> QED BY <1>1, <2>1, <2>2, <2>3 DEF Binary, Unary
<1> QED BY <1>4, <1>5

LEMMA ClonedOne ==
    ASSUME NEW base, NEW i, NEW uvars, NEW combination
    PROVE  Cloned(base, <<i>>, uvars, combination) = cloneAndSubstituteNode(base, i, uvars, combination)
<1> DEFINE s == <<i>>
<1>1. Len(s) = 1 /\ s[1] = i /\ 1 - 1 = 0 /\ 1 \in 1 .. Len(s) /\ Len(s) \in Nat
  OBVIOUS
<1> HIDE DEF s
<1>2. PICK made : IsCloned(made, base, s, uvars, combination)
  BY <1>1, ClonedIs
<1>3. Cloned(base, s, uvars, combination) = made[1] /\ made[0] = base
      /\ made[1] = cloneAndSubstituteNode(made[0], i, uvars, combination)
  <2>1. made[1] = cloneAndSubstituteNode(made[1 - 1], s[1], uvars, combination)
    BY <1>1, <1>2 DEF IsCloned
  <2> QED BY <1>1, <1>2, <2>1 DEF IsCloned
<1> QED BY <1>3 DEF s

(* Two loops, one after the other.                                         *)
LEMMA ClonedConcat ==
    ASSUME NEW X, NEW s \in Seq(X), NEW t \in Seq(X), NEW base, NEW uvars, NEW combination
    PROVE  Cloned(base, s \o t, uvars, combination) =
              Cloned(Cloned(base, s, uvars, combination), t, uvars, combination)
<1> DEFINE both == s \o t
           op(a, i) == cloneAndSubstituteNode(a, i, uvars, combination)
           first == Cloned(base, s, uvars, combination)
<1>1. /\ Len(both) = Len(s) + Len(t) /\ Len(s) \in Nat /\ Len(t) \in Nat /\ Len(both) \in Nat
      /\ \A i \in 1 .. Len(s) : both[i] = s[i]
      /\ \A i \in 1 .. Len(t) : both[Len(s) + i] = t[i]
  BY ConcatIs
<1> HIDE DEF both, first
<1>2. PICK f : IsCloned(f, base, both, uvars, combination)
  BY <1>1, ClonedIs
<1>3. PICK g : IsCloned(g, base, s, uvars, combination)
  BY <1>1, ClonedIs
<1>4. PICK h : IsCloned(h, first, t, uvars, combination)
  BY <1>1, ClonedIs
<1>5. /\ f[0] = base /\ \A k \in 1 .. Len(both) : f[k] = op(f[k - 1], both[k])
      /\ g[0] = base /\ \A k \in 1 .. Len(s) : g[k] = op(g[k - 1], s[k])
      /\ h[0] = first /\ \A k \in 1 .. Len(t) : h[k] = op(h[k - 1], t[k])
      /\ Cloned(base, both, uvars, combination) = f[Len(both)]
      /\ first = g[Len(s)]
      /\ Cloned(first, t, uvars, combination) = h[Len(t)]
  BY <1>2, <1>3, <1>4 DEF IsCloned, first
<1> HIDE DEF op
<1>6. f[Len(s)] = g[Len(s)]
  <2> DEFINE K == {k \in 0 .. Len(s) : f[k] = g[k]}
  <2>1. 0 \in K
    BY <1>1, <1>5
  <2>2. ASSUME NEW k \in 1 .. Len(s), k - 1 \in K
        PROVE  k \in K
    <3>1. k \in 1 .. Len(both) /\ both[k] = s[k] /\ f[k - 1] = g[k - 1]
      BY <1>1, <2>2
    <3> QED BY <1>5, <3>1
  <2> HIDE DEF K
  <2>3. Len(s) \in K
    BY <1>1, <2>1, <2>2, LoopInduction
  <2> QED BY <2>3 DEF K
<1>7. f[Len(s) + Len(t)] = h[Len(t)]
  <2> DEFINE K == {k \in 0 .. Len(t) : f[Len(s) + k] = h[k]}
  <2>1. 0 \in K
    BY <1>1, <1>5, <1>6
  <2>2. ASSUME NEW k \in 1 .. Len(t), k - 1 \in K
        PROVE  k \in K
    <3>1. Len(s) + k \in 1 .. Len(both) /\ both[Len(s) + k] = t[k] /\ (Len(s) + k) - 1 = Len(s) + (k - 1)
          /\ f[Len(s) + (k - 1)] = h[k - 1]
      BY <1>1, <2>2
    <3>2. f[Len(s) + k] = op(f[(Len(s) + k) - 1], both[Len(s) + k])
      BY <1>5, <3>1
    <3>3. h[k] = op(h[k - 1], t[k])
      BY <1>5
    <3> QED BY <3>1, <3>2, <3>3
  <2> HIDE DEF K
  <2>3. Len(t) \in K
    BY <1>1, <2>1, <2>2, LoopInduction
  <2> QED BY <2>3 DEF K
<1> QED BY <1>1, <1>5, <1>7 DEF both, first

-----------------------------------------------------------------------------
(* Substitutes                                                             *)

Place(uvars, u) == SelectInSeq(uvars, LAMBDA x : x = u)

LEMMA PlaceIs ==
    ASSUME NEW X, NEW uvars \in Seq(X), NEW u, Has(uvars, u)
    PROVE  Place(uvars, u) \in 1 .. Len(uvars)
<1> DEFINE I == {i \in 1 .. Len(uvars) : uvars[i] = u}
           Least(x) == x \in I /\ \A y \in I : x <= y
           m == CHOOSE x \in I : \A y \in I : x <= y
<1>1. I # {} /\ I \in SUBSET Nat
  BY DEF Has
<1>2. Place(uvars, u) = m
  BY <1>1 DEF Place, SelectInSeq, Min
<1> HIDE DEF I
<1>3. \E x \in I : \A y \in I : x <= y
  <2> DEFINE T == {n \in Nat : n \notin I}
  <2>1. SUFFICES ASSUME \A x \in I : \E y \in I : ~(x <= y)
                 PROVE  FALSE
    OBVIOUS
  <2> DEFINE D == {n \in Nat : \A k \in 0 .. n : k \notin I}
  <2>2. 0 \in D
    <3>1. \A y \in I : 0 <= y
      BY <1>1
    <3> QED BY <2>1, <3>1
  <2>3. ASSUME NEW n \in Nat, n \in D
        PROVE  n + 1 \in D
    <3>1. \A y \in I : n + 1 <= y
      BY <1>1, <2>3
    <3>2. n + 1 \notin I
      BY <2>1, <3>1
    <3> QED BY <2>3, <3>2
  <2> HIDE DEF D
  <2>4. Nat \subseteq D
    BY <2>2, <2>3, Induction
  <2>5. \A n \in Nat : n \notin I
    BY <2>4 DEF D
  <2> QED BY <1>1, <2>5
<1>4. m \in I
  BY <1>3
<1> QED BY <1>2, <1>4 DEF I

(* sigma is what combination makes of the universal variables.             *)
Substitution(th, uvars, combination, sigma) ==
    \A u : Has(uvars, u) => combination[Place(uvars, u)] = sigma[u] /\ sigma[u] \in Ids(th)

LEMMA WholeCloned ==
    ASSUME NEW th, Fine(th), NEW id \in Ids(th), Whole(getNode(th, id)),
           NEW uvars, NEW combination, NEW sigma, Substitution(th, uvars, combination, sigma),
           \A u : Has(getUVars(th, id), u) => Has(uvars, u)
    PROVE  LET f == Substitute(getNode(th, id), id, uvars, combination)
           IN  f \in Ids(th) /\ f \in Instances(th, id, sigma)
<1> DEFINE node == getNode(th, id)
           f == Substitute(node, id, uvars, combination)
<1>1. Good(th) /\ node \in Node
  BY NodesOf DEF Fine
<1>2. node.global \in BOOLEAN /\ node.isVar \in BOOLEAN /\ node.const \in BOOLEAN
  BY <1>1 DEF Node
<1>3. ~node.global \/ node.const => Instances(th, id, sigma) = {id}
  BY <1>1, InstancesUnfold
<1>4. ~(~node.global \/ node.const) /\ node.isVar => Instances(th, id, sigma) = {sigma[id]}
  BY <1>1, InstancesUnfold
<1>5. CASE node.isVar /\ node.global /\ ~node.const
  <2>1. getUVars(th, id) = <<id>>
    BY <1>1, <1>5, UVarsUnfold
  <2>2. Has(<<id>>, id)
    <3>1. Len(<<id>>) = 1 /\ <<id>>[1] = id /\ 1 \in 1 .. 1
      OBVIOUS
    <3> QED BY <3>1 DEF Has
  <2>3. Has(uvars, id)
    BY <2>1, <2>2
  <2>4. f = combination[Place(uvars, id)]
    BY <1>5 DEF Substitute, Place
  <2> HIDE DEF f
  <2>5. f = sigma[id] /\ f \in Ids(th)
    BY <2>3, <2>4 DEF Substitution
  <2>6. f \in Instances(th, id, sigma)
    BY <1>4, <1>5, <2>5
  <2> QED BY <2>5, <2>6 DEF f
<1>6. CASE ~(node.isVar /\ node.global /\ ~node.const)
  <2>1. f = id
    BY <1>6 DEF Substitute
  <2>2. ~node.global \/ node.const
    BY <1>2, <1>6 DEF Whole
  <2> HIDE DEF f
  <2>3. f \in Ids(th) /\ f \in Instances(th, id, sigma)
    BY <1>3, <2>1, <2>2
  <2> QED BY <2>3 DEF f
<1> QED BY <1>5, <1>6

-----------------------------------------------------------------------------
(* The stack of clones                                                     *)

(* new has the clone f of id on top of the clones of acc.                  *)
Pushed(acc, new, id, sigma, f) ==
    /\ On(acc.th, new.th) /\ Apart(acc.th, new.th)
    /\ new = [th |-> new.th, ids |-> Append(acc.ids, f)]
    /\ f \in Ids(new.th) /\ f \in Instances(new.th, id, sigma)

LEMMA StackIs ==
    ASSUME NEW X, NEW ids \in Seq(X), NEW s1 \in X, NEW s2 \in X
    PROVE  /\ SubSeq(ids, 1, Len(ids) - 0) = ids
           /\ LET one == Append(ids, s2)
              IN  SubSeq(one, 1, Len(one) - 1) = ids /\ one[Len(one)] = s2 /\ one \in Seq(X)
           /\ LET two == Append(Append(ids, s1), s2)
              IN  SubSeq(two, 1, Len(two) - 2) = ids /\ two[Len(two)] = s2 /\ two[Len(two) - 1] = s1
                  /\ two \in Seq(X)
<1>1. SubSeq(ids, 1, Len(ids) - 0) = ids
  OBVIOUS
<1>2. ASSUME NEW s \in Seq(X), NEW x \in X
      PROVE  LET one == Append(s, x)
             IN  /\ one[Len(one)] = x /\ one \in Seq(X) /\ Len(one) = Len(s) + 1
                 /\ \A i \in 1 .. Len(s) : one[i] = s[i]
  OBVIOUS
<1>3. ASSUME NEW s \in Seq(X), Len(ids) <= Len(s), \A i \in 1 .. Len(ids) : s[i] = ids[i]
      PROVE  SubSeq(s, 1, Len(ids)) = ids
  <2>1. SubSeq(s, 1, Len(ids)) \in Seq(X) /\ Len(SubSeq(s, 1, Len(ids))) = Len(ids)
        /\ \A i \in 1 .. Len(ids) : SubSeq(s, 1, Len(ids))[i] = s[i]
    BY <1>3
  <2> QED BY <1>3, <2>1
<1> DEFINE one == Append(ids, s2)
           mid == Append(ids, s1)
           two == Append(mid, s2)
<1>4. /\ one[Len(one)] = s2 /\ one \in Seq(X) /\ Len(one) = Len(ids) + 1
      /\ \A i \in 1 .. Len(ids) : one[i] = ids[i]
  BY <1>2
<1>5. /\ mid[Len(mid)] = s1 /\ mid \in Seq(X) /\ Len(mid) = Len(ids) + 1
      /\ \A i \in 1 .. Len(ids) : mid[i] = ids[i]
  BY <1>2
<1>6. /\ two[Len(two)] = s2 /\ two \in Seq(X) /\ Len(two) = Len(mid) + 1
      /\ \A i \in 1 .. Len(mid) : two[i] = mid[i]
  BY <1>2, <1>5
<1> HIDE DEF one, mid, two
<1>7. Len(ids) \in Nat
  OBVIOUS
<1>8. SubSeq(one, 1, Len(one) - 1) = ids
  <2>1. Len(one) - 1 = Len(ids) /\ Len(ids) <= Len(one)
    BY <1>4, <1>7
  <2> QED BY <1>3, <1>4, <2>1
<1>9. SubSeq(two, 1, Len(two) - 2) = ids /\ two[Len(two) - 1] = s1
  <2>1. Len(two) - 2 = Len(ids) /\ Len(ids) <= Len(two) /\ Len(two) - 1 = Len(mid)
        /\ Len(mid) \in 1 .. Len(mid) /\ \A i \in 1 .. Len(ids) : i \in 1 .. Len(mid)
    BY <1>5, <1>6, <1>7
  <2>2. \A i \in 1 .. Len(ids) : two[i] = ids[i]
    BY <1>5, <1>6, <2>1
  <2> QED BY <1>3, <1>5, <1>6, <2>1, <2>2
<1> QED BY <1>1, <1>4, <1>6, <1>8, <1>9 DEF one, mid, two

LEMMA WholePushed ==
    ASSUME NEW acc, Fine(acc.th), NEW id \in Ids(acc.th), Whole(getNode(acc.th, id)),
           acc.ids \in Seq(Ids(acc.th)),
           NEW uvars, NEW combination, NEW sigma, Substitution(acc.th, uvars, combination, sigma),
           \A u : Has(getUVars(acc.th, id), u) => Has(uvars, u)
    PROVE  \E f : Pushed(acc, cloneAndSubstituteNode(acc, id, uvars, combination), id, sigma, f)
<1> DEFINE node == getNode(acc.th, id)
           f == Substitute(node, id, uvars, combination)
           new == cloneAndSubstituteNode(acc, id, uvars, combination)
<1>1. f \in Ids(acc.th) /\ f \in Instances(acc.th, id, sigma)
  BY WholeCloned
<1>2. SubSeq(acc.ids, 1, Len(acc.ids) - 0) = acc.ids
  BY <1>1, StackIs
<1>3. new = [th |-> acc.th, ids |-> Append(SubSeq(acc.ids, 1, Len(acc.ids) - 0), f)]
  BY DEF cloneAndSubstituteNode
<1>4. On(acc.th, acc.th) /\ Apart(acc.th, acc.th)
  BY OnIs, ApartIs
<1> HIDE DEF f, new
<1>5. Pushed(acc, new, id, sigma, f)
  BY <1>1, <1>2, <1>3, <1>4 DEF Pushed
<1> QED BY <1>5 DEF new

(* acc holds the clones s1 and s2 of the operands of id above base.        *)
LEMMA PartPushed ==
    ASSUME NEW base, NEW acc, Fine(acc.th), NEW id \in Ids(acc.th), ~Whole(getNode(acc.th, id)),
           base.ids \in Seq(Ids(acc.th)), NEW sigma, NEW s1 \in Ids(acc.th), NEW s2 \in Ids(acc.th),
           LET used == Len(getNode(acc.th, id).operandIds)
           IN  IF used = 2 THEN /\ acc.ids = Append(Append(base.ids, s1), s2)
                                /\ Clone(acc.th, id, 1, sigma, s1) /\ Clone(acc.th, id, 2, sigma, s2)
               ELSE acc.ids = Append(base.ids, s2) /\ Clone(acc.th, id, 1, sigma, s2),
           NEW uvars, NEW combination
    PROVE  LET new == cloneAndSubstituteNode(acc, id, uvars, combination)
           IN  \E f : /\ On(acc.th, new.th) /\ Apart(acc.th, new.th)
                      /\ new = [th |-> new.th, ids |-> Append(base.ids, f)]
                      /\ f \in Ids(new.th) /\ f \in Instances(new.th, id, sigma)
<1> DEFINE node == getNode(acc.th, id)
           used == Len(node.operandIds)
           last == Len(acc.ids)
           sub2 == acc.ids[last]
           sub1 == acc.ids[last - 1]
           result ==
            CASE Whole(node) -> [th |-> acc.th, id |-> Substitute(node, id, uvars, combination)]
              [] node.type = "binary-relational" /\ ~Whole(node) ->
                    handleTermRelationalTerm(acc.th, node.op, sub1, sub2)
              [] node.type = "binary-arithmetic" /\ ~Whole(node) ->
                    handleTermArithTerm(acc.th, node.op, sub1, sub2)
              [] node.type = "binary-boolean" /\ ~Whole(node) ->
                    handleBEBoolBE(acc.th, node.op, sub1, sub2)
              [] node.type = "access" /\ ~Whole(node) -> handleArrayAccess(acc.th, sub1, sub2)
              [] node.type = "unary-boolean" /\ ~Whole(node) -> handleNot(acc.th, sub2)
              [] node.type = "unary-arithmetic" /\ ~Whole(node) -> handleUnaryMinus(acc.th, sub2)
           new == cloneAndSubstituteNode(acc, id, uvars, combination)
<1>1. new = [th |-> result.th, ids |-> Append(SubSeq(acc.ids, 1, last - used), result.id)]
  BY DEF cloneAndSubstituteNode
<1>2. (node.type \in Binary /\ used = 2) \/ (node.type \in Unary /\ used = 1)
  BY EnteredIs
<1>3. Recomposed(acc.th, node, sub1, sub2, result)
  <2> HIDE DEF node, sub1, sub2
  <2>1. ~Whole(node)
    BY DEF node
  <2>2. node.type \in Binary \cup Unary
    BY <1>2
  <2> QED BY <2>1, <2>2 DEF Recomposed, Binary, Unary
<1>4. sub2 = s2 /\ (used = 2 => sub1 = s1) /\ SubSeq(acc.ids, 1, last - used) = base.ids
  <2> DEFINE one == Append(base.ids, s2)
             two == Append(Append(base.ids, s1), s2)
  <2>1. SubSeq(one, 1, Len(one) - 1) = base.ids /\ one[Len(one)] = s2
    BY StackIs
  <2>2. SubSeq(two, 1, Len(two) - 2) = base.ids /\ two[Len(two)] = s2 /\ two[Len(two) - 1] = s1
    BY StackIs
  <2>3. used = 2 => acc.ids = two
    OBVIOUS
  <2>4. used = 1 => acc.ids = one
    OBVIOUS
  <2>5. used = 2 \/ used = 1
    BY <1>2
  <2> HIDE DEF one, two, used
  <2>6. CASE used = 2
    <3>1. acc.ids = two
      BY <2>3, <2>6
    <3> QED BY <2>2, <2>6, <3>1
  <2>7. CASE used = 1
    <3>1. acc.ids = one
      BY <2>4, <2>7
    <3> QED BY <2>1, <2>7, <3>1
  <2> QED BY <2>5, <2>6, <2>7
<1> HIDE DEF result, new, sub1, sub2, last
<1>5. IF used = 2 THEN Clone(acc.th, id, 1, sigma, sub1) /\ Clone(acc.th, id, 2, sigma, sub2)
      ELSE Clone(acc.th, id, 1, sigma, sub2)
  BY <1>4
<1>6. /\ On(acc.th, result.th) /\ Apart(acc.th, result.th) /\ result.id \in Ids(result.th)
      /\ result.id \in Instances(result.th, id, sigma)
  BY <1>3, <1>5, RecomposedIs
<1>7. new.th = result.th /\ new = [th |-> new.th, ids |-> Append(base.ids, result.id)]
  BY <1>1, <1>4
<1> QED BY <1>6, <1>7 DEF new

LEMMA EmptyConcat ==
    ASSUME NEW X, NEW s \in Seq(X)
    PROVE  <<>> \o s = s /\ s \o <<>> = s
OBVIOUS

LEMMA OccurrencesAre ==
    ASSUME NEW th, Good(th)
    PROVE  \A id \in Ids(th) : Occurrences(th, id) \in Seq(Ids(th))
<1> DEFINE K == {id \in Ids(th) : Occurrences(th, id) \in Seq(Ids(th))}
<1>1. ASSUME NEW id \in Ids(th), \A w \in Ids(th) : w < id => w \in K
      PROVE  id \in K
  <2> DEFINE node == getNode(th, id)
             operands == node.operandIds
             part(p) == IF Whole(node) \/ Len(operands) < p THEN <<>> ELSE Occurrences(th, operands[p])
  <2>1. Occurrences(th, id) = part(1) \o part(2) \o <<id>>
    BY OccurrencesUnfold
  <2>2. ASSUME NEW p \in {1, 2}, Len(operands) >= p
        PROVE  Occurrences(th, operands[p]) \in Seq(Ids(th))
    <3>1. operands[p] \in 0 .. id - 1 /\ operands[p] \in Ids(th)
      BY <2>2, OperandBelow
    <3>2. operands[p] < id
      BY <3>1, NodesOf
    <3> QED BY <1>1, <3>1, <3>2
  <2>3. Len(operands) \in Nat
    BY OperandBelow
  <2> HIDE DEF operands, node
  <2>4. part(1) \in Seq(Ids(th)) /\ part(2) \in Seq(Ids(th))
    BY <2>2, <2>3
  <2> HIDE DEF part
  <2>5. part(1) \o part(2) \in Seq(Ids(th)) /\ <<id>> \in Seq(Ids(th))
    BY <2>4
  <2>6. part(1) \o part(2) \o <<id>> \in Seq(Ids(th))
    BY <2>5, ConcatIs
  <2> QED BY <2>1, <2>6
<1> HIDE DEF K
<1>2. Ids(th) \subseteq K
  BY <1>1, IdInduction
<1> QED BY <1>2 DEF K

IsStack(th, acc) ==
    On(th, acc.th) /\ acc.ids \in Seq(Ids(acc.th)) /\ acc = [th |-> acc.th, ids |-> acc.ids]

(* Over the occurrences in id the loop leaves one clone of id.             *)
Clones(th, id, uvars, combination, sigma) ==
    \A acc : IsStack(th, acc) =>
        \E f : Pushed(acc, Cloned(acc, Occurrences(th, id), uvars, combination), id, sigma, f)

LEMMA StackKept ==
    ASSUME NEW th, Fine(th), NEW acc, IsStack(th, acc), NEW new, NEW id, NEW sigma, NEW f,
           Pushed(acc, new, id, sigma, f)
    PROVE  IsStack(th, new) /\ new.ids = Append(acc.ids, f) /\ f \in Ids(new.th)
           /\ Fine(acc.th) /\ Fine(new.th) /\ Ids(acc.th) \subseteq Ids(new.th)
<1>1. On(th, acc.th) /\ acc.ids \in Seq(Ids(acc.th)) /\ On(acc.th, new.th) /\ f \in Ids(new.th)
      /\ new = [th |-> new.th, ids |-> Append(acc.ids, f)]
  BY DEF IsStack, Pushed
<1>2. Fine(acc.th) /\ Fine(new.th) /\ Ids(acc.th) \subseteq Ids(new.th) /\ On(th, new.th)
  BY <1>1, OnIs
<1>3. acc.ids \in Seq(Ids(new.th))
  BY <1>1, <1>2, SeqWidens
<1>4. new.ids = Append(acc.ids, f) /\ new.ids \in Seq(Ids(new.th)) /\ new = [th |-> new.th, ids |-> new.ids]
  <2>1. new.ids = Append(acc.ids, f)
    BY <1>1
  <2> QED BY <1>1, <1>3, <2>1
<1> QED BY <1>1, <1>2, <1>4 DEF IsStack

LEMMA SubstitutionStays ==
    ASSUME NEW th, Fine(th), NEW new, On(th, new), NEW uvars, NEW combination, NEW sigma,
           Substitution(th, uvars, combination, sigma)
    PROVE  Substitution(new, uvars, combination, sigma)
BY OnIs DEF Substitution

LEMMA NodeCloned ==
    ASSUME NEW th, Fine(th), NEW uvars, NEW combination, NEW sigma,
           Substitution(th, uvars, combination, sigma)
    PROVE  \A id \in Ids(th) :
              (\A u : Has(getUVars(th, id), u) => Has(uvars, u)) => Clones(th, id, uvars, combination, sigma)
<1> DEFINE Covered(id) == \A u : Has(getUVars(th, id), u) => Has(uvars, u)
           K == {id \in Ids(th) : Covered(id) => Clones(th, id, uvars, combination, sigma)}
           run(acc, s) == Cloned(acc, s, uvars, combination)
<1>1. Good(th)
  BY DEF Fine
<1>2. ASSUME NEW id \in Ids(th), \A w \in Ids(th) : w < id => w \in K
      PROVE  id \in K
  <2> SUFFICES ASSUME Covered(id), NEW acc, IsStack(th, acc)
               PROVE  \E f : Pushed(acc, run(acc, Occurrences(th, id)), id, sigma, f)
    BY DEF Clones
  <2> DEFINE node == getNode(th, id)
             operands == node.operandIds
             part(p) == IF Whole(node) \/ Len(operands) < p THEN <<>> ELSE Occurrences(th, operands[p])
             s == Occurrences(th, id)
  <2>1. s = part(1) \o part(2) \o <<id>>
    BY <1>1, OccurrencesUnfold
  <2>2. Fine(acc.th) /\ On(th, acc.th) /\ id \in Ids(acc.th) /\ acc.ids \in Seq(Ids(acc.th))
    BY OnIs DEF IsStack
  <2>3. ASSUME NEW t, On(th, t)
        PROVE  /\ Whole(getNode(t, id)) = Whole(node) /\ getNode(t, id).operandIds = operands
               /\ getUVars(t, id) = getUVars(th, id)
               /\ Substitution(t, uvars, combination, sigma) /\ id \in Ids(t) /\ Fine(t)
    BY <2>3, NodeStays, UVarsStay, SubstitutionStays, OnIs DEF Whole
  <2>4. CASE Whole(node)
    <3>1. part(1) = <<>> /\ part(2) = <<>>
      BY <2>4
    <3> HIDE DEF part, s
    <3>2. s = <<id>>
      <4> DEFINE one == <<id>>
      <4>1. one \in Seq(Ids(th)) /\ <<>> \in Seq(Ids(th))
        OBVIOUS
      <4>3. s = part(1) \o part(2) \o one
        BY <2>1
      <4> HIDE DEF one
      <4>4. <<>> \o <<>> = <<>> /\ <<>> \o one = one
        BY <4>1, EmptyConcat
      <4>2. s = one
        BY <3>1, <4>3, <4>4
      <4> QED BY <4>2 DEF one
    <3>3. run(acc, s) = cloneAndSubstituteNode(acc, id, uvars, combination)
      BY <3>2, ClonedOne
    <3>4. Whole(getNode(acc.th, id)) /\ getUVars(acc.th, id) = getUVars(th, id)
          /\ Substitution(acc.th, uvars, combination, sigma)
      BY <2>2, <2>3, <2>4
    <3>5. \E f : Pushed(acc, cloneAndSubstituteNode(acc, id, uvars, combination), id, sigma, f)
      BY <2>2, <3>4, WholePushed
    <3> QED BY <3>3, <3>5 DEF s
  <2>5. CASE ~Whole(node)
    <3>1. Len(operands) = 1 \/ Len(operands) = 2
      BY <2>5, EnteredIs
    <3>2. ASSUME NEW p \in {1, 2}, Len(operands) >= p, NEW base, IsStack(th, base)
          PROVE  \E f : Pushed(base, run(base, Occurrences(th, operands[p])), operands[p], sigma, f)
      <4>1. operands[p] \in 0 .. id - 1 /\ operands[p] \in Ids(th)
        BY <1>1, <3>2, OperandBelow
      <4>2. operands[p] < id
        BY <1>1, <4>1, NodesOf
      <4>3. Covered(operands[p])
        BY <2>5, <3>2, UVarsOfOperand
      <4> QED BY <1>2, <3>2, <4>1, <4>2, <4>3 DEF Clones
    <3>3. /\ Len(operands) >= 1 => operands[1] \in Ids(th)
          /\ Len(operands) >= 2 => operands[2] \in Ids(th)
      BY <1>1, OperandBelow
    <3>4. /\ Len(operands) >= 1 => Occurrences(th, operands[1]) \in Seq(Ids(th))
          /\ Len(operands) >= 2 => Occurrences(th, operands[2]) \in Seq(Ids(th))
      BY <1>1, <3>3, OccurrencesAre
    <3>5. <<id>> \in Seq(Ids(th))
      OBVIOUS
    <3>6. CASE Len(operands) = 1
      <4> DEFINE o == operands[1]
                 mid == run(acc, Occurrences(th, o))
      <4>1. part(1) = Occurrences(th, o) /\ part(2) = <<>> /\ part(1) \in Seq(Ids(th)) /\ o \in Ids(th)
        BY <2>5, <3>3, <3>4, <3>6
      <4>2. s = part(1) \o <<id>>
        <5> HIDE DEF part, s
        <5> QED BY <2>1, <4>1
      <4>3. run(acc, s) = cloneAndSubstituteNode(mid, id, uvars, combination)
        <5>1. run(acc, Occurrences(th, o) \o <<id>>) = run(mid, <<id>>)
          <6> DEFINE one == <<id>>
                     occ == Occurrences(th, o)
          <6>1. one \in Seq(Ids(th)) /\ occ \in Seq(Ids(th))
            BY <3>5, <4>1
          <6> HIDE DEF one, occ
          <6>2. Cloned(acc, occ \o one, uvars, combination) = Cloned(Cloned(acc, occ, uvars, combination), one, uvars, combination)
            BY <6>1, ClonedConcat
          <6> QED BY <6>2 DEF one, occ
        <5> QED BY <4>1, <4>2, <5>1, ClonedOne
      <4>4. PICK f1 : Pushed(acc, mid, o, sigma, f1)
        BY <3>2, <3>6
      <4> HIDE DEF mid, s
      <4>5. IsStack(th, mid) /\ mid.ids = Append(acc.ids, f1) /\ f1 \in Ids(mid.th) /\ Ids(acc.th) \subseteq Ids(mid.th)
        BY <4>4, StackKept
      <4>6. On(th, mid.th) /\ acc.ids \in Seq(Ids(mid.th))
        BY <2>2, <4>5, SeqWidens DEF IsStack
      <4>7. /\ Fine(mid.th) /\ id \in Ids(mid.th) /\ ~Whole(getNode(mid.th, id))
            /\ Len(getNode(mid.th, id).operandIds) = 1 /\ getNode(mid.th, id).operandIds[1] = o
        BY <2>3, <2>5, <3>6, <4>6
      <4>8. Clone(mid.th, id, 1, sigma, f1)
        BY <4>4, <4>7 DEF Clone, Pushed
      <4> DEFINE new == cloneAndSubstituteNode(mid, id, uvars, combination)
      <4>9. \E f : /\ On(mid.th, new.th) /\ Apart(mid.th, new.th)
                   /\ new = [th |-> new.th, ids |-> Append(acc.ids, f)]
                   /\ f \in Ids(new.th) /\ f \in Instances(new.th, id, sigma)
        <5>1. LET used == Len(getNode(mid.th, id).operandIds)
              IN  IF used = 2 THEN /\ mid.ids = Append(Append(acc.ids, f1), f1)
                                   /\ Clone(mid.th, id, 1, sigma, f1) /\ Clone(mid.th, id, 2, sigma, f1)
                  ELSE mid.ids = Append(acc.ids, f1) /\ Clone(mid.th, id, 1, sigma, f1)
          BY <4>5, <4>7, <4>8
        <5> QED BY <4>5, <4>6, <4>7, <5>1, PartPushed
      <4> HIDE DEF new
      <4>10. PICK f : /\ On(mid.th, new.th) /\ Apart(mid.th, new.th)
                      /\ new = [th |-> new.th, ids |-> Append(acc.ids, f)]
                      /\ f \in Ids(new.th) /\ f \in Instances(new.th, id, sigma)
        BY <4>9
      <4>11. On(acc.th, new.th) /\ Apart(acc.th, new.th)
        BY <2>2, <4>4, <4>10, OnIs, ApartTransitive DEF Pushed
      <4>12. Pushed(acc, new, id, sigma, f)
        BY <4>10, <4>11 DEF Pushed
      <4> QED BY <4>3, <4>12 DEF new, s
    <3>7. CASE Len(operands) = 2
      <4> DEFINE o1 == operands[1]
                 o2 == operands[2]
                 mid1 == run(acc, Occurrences(th, o1))
                 mid2 == run(mid1, Occurrences(th, o2))
      <4>1. part(1) = Occurrences(th, o1) /\ part(2) = Occurrences(th, o2) /\ o1 \in Ids(th) /\ o2 \in Ids(th)
            /\ part(1) \in Seq(Ids(th)) /\ part(2) \in Seq(Ids(th))
        BY <2>5, <3>3, <3>4, <3>7
      <4>2. run(acc, s) = cloneAndSubstituteNode(mid2, id, uvars, combination)
        <5>1. part(1) \o part(2) \in Seq(Ids(th))
          <6> HIDE DEF part
          <6> QED BY <4>1, ConcatIs
        <5>2. run(acc, part(1) \o part(2)) = run(run(acc, part(1)), part(2))
          <6> HIDE DEF part
          <6> QED BY <4>1, ClonedConcat
        <5>3. run(acc, (part(1) \o part(2)) \o <<id>>) = run(run(acc, part(1) \o part(2)), <<id>>)
          <6> DEFINE one == <<id>>
                     occ == part(1) \o part(2)
          <6>1. one \in Seq(Ids(th)) /\ occ \in Seq(Ids(th))
            BY <3>5, <5>1
          <6> HIDE DEF one, occ
          <6>2. Cloned(acc, occ \o one, uvars, combination) = Cloned(Cloned(acc, occ, uvars, combination), one, uvars, combination)
            BY <6>1, ClonedConcat
          <6> QED BY <6>2 DEF one, occ
        <5>4. run(acc, s) = run(run(run(acc, part(1)), part(2)), <<id>>)
          <6> HIDE DEF part, s, run
          <6> QED BY <2>1, <5>2, <5>3
        <5>5. run(run(acc, part(1)), part(2)) = mid2
          BY <4>1
        <5> QED BY <5>4, <5>5, ClonedOne
      <4>3. PICK f1 : Pushed(acc, mid1, o1, sigma, f1)
        BY <3>2, <3>7
      <4>4. IsStack(th, mid1) /\ mid1.ids = Append(acc.ids, f1) /\ f1 \in Ids(mid1.th)
            /\ Ids(acc.th) \subseteq Ids(mid1.th) /\ Fine(mid1.th)
        <5> HIDE DEF mid1
        <5> QED BY <4>3, StackKept
      <4>5. PICK f2 : Pushed(mid1, mid2, o2, sigma, f2)
        BY <3>2, <3>7, <4>4
      <4> HIDE DEF mid1, mid2, s
      <4>6. IsStack(th, mid2) /\ mid2.ids = Append(mid1.ids, f2) /\ f2 \in Ids(mid2.th)
            /\ Ids(mid1.th) \subseteq Ids(mid2.th)
        BY ONLY Fine(th), <4>4, <4>5, StackKept
      <4>7. On(th, mid1.th) /\ On(th, mid2.th) /\ On(acc.th, mid1.th) /\ On(mid1.th, mid2.th)
            /\ Apart(acc.th, mid1.th) /\ Apart(mid1.th, mid2.th)
        BY <4>3, <4>4, <4>5, <4>6 DEF IsStack, Pushed
      <4>8. acc.ids \in Seq(Ids(mid2.th)) /\ f1 \in Ids(mid2.th) /\ mid2.ids = Append(Append(acc.ids, f1), f2)
        BY <2>2, <4>4, <4>6, SeqWidens
      <4>9. /\ Fine(mid2.th) /\ id \in Ids(mid2.th) /\ ~Whole(getNode(mid2.th, id))
            /\ Len(getNode(mid2.th, id).operandIds) = 2
            /\ getNode(mid2.th, id).operandIds[1] = o1 /\ getNode(mid2.th, id).operandIds[2] = o2
        BY <2>3, <2>5, <3>7, <4>7
      <4>10. o1 \in Ids(mid1.th)
        BY <4>1, <4>7, OnIs
      <4>11. f1 \in Instances(mid2.th, o1, sigma) /\ f2 \in Instances(mid2.th, o2, sigma)
        BY <4>3, <4>4, <4>5, <4>7, <4>10, InstancesStay DEF Pushed
      <4>12. Clone(mid2.th, id, 1, sigma, f1) /\ Clone(mid2.th, id, 2, sigma, f2)
        BY <4>6, <4>8, <4>9, <4>11 DEF Clone
      <4> DEFINE new == cloneAndSubstituteNode(mid2, id, uvars, combination)
      <4>13. \E f : /\ On(mid2.th, new.th) /\ Apart(mid2.th, new.th)
                    /\ new = [th |-> new.th, ids |-> Append(acc.ids, f)]
                    /\ f \in Ids(new.th) /\ f \in Instances(new.th, id, sigma)
        BY <4>6, <4>8, <4>9, <4>12, PartPushed
      <4> HIDE DEF new
      <4>14. PICK f : /\ On(mid2.th, new.th) /\ Apart(mid2.th, new.th)
                      /\ new = [th |-> new.th, ids |-> Append(acc.ids, f)]
                      /\ f \in Ids(new.th) /\ f \in Instances(new.th, id, sigma)
        BY <4>13
      <4>15. On(acc.th, new.th) /\ Apart(acc.th, new.th)
        <5>1. On(acc.th, mid2.th) /\ Apart(acc.th, mid2.th)
          BY <2>2, <4>7, OnIs, ApartTransitive
        <5> QED BY <2>2, <4>14, <5>1, OnIs, ApartTransitive
      <4>16. Pushed(acc, new, id, sigma, f)
        BY <4>14, <4>15 DEF Pushed
      <4> QED BY <4>2, <4>16 DEF new, s
    <3> QED BY <3>1, <3>6, <3>7
  <2> QED BY <2>4, <2>5
<1> HIDE DEF K
<1>3. Ids(th) \subseteq K
  BY <1>1, <1>2, IdInduction
<1> QED BY <1>3 DEF K

(* What cloneAndSubstituteRec returns is an instance of the clause.        *)
LEMMA CloneIsInstance ==
    ASSUME NEW th, Fine(th), NEW id \in Ids(th), NEW combination, NEW sigma,
           Substitution(th, getUVars(th, id), combination, sigma)
    PROVE  LET clone == cloneAndSubstituteRec(th, id, getUVars(th, id), combination)
           IN  /\ On(th, clone.th) /\ Apart(th, clone.th) /\ clone.id \in Ids(clone.th)
               /\ clone.id \in Instances(clone.th, id, sigma)
<1> DEFINE uvars == getUVars(th, id)
           acc == [th |-> th, ids |-> <<>>]
           new == Cloned(acc, Occurrences(th, id), uvars, combination)
           clone == cloneAndSubstituteRec(th, id, uvars, combination)
<1>1. clone = [th |-> new.th, id |-> new.ids[Len(new.ids)]]
  BY DEF cloneAndSubstituteRec, Cloned, Loop
<1>2. Clones(th, id, uvars, combination, sigma)
  BY NodeCloned
<1>3. IsStack(th, acc)
  BY OnIs DEF IsStack
<1>4. PICK f : Pushed(acc, new, id, sigma, f)
  BY <1>2, <1>3 DEF Clones
<1> HIDE DEF new, clone
<1>5. new.ids[Len(new.ids)] = f
  <2>1. new = [th |-> new.th, ids |-> Append(<<>>, f)]
    BY <1>4 DEF Pushed
  <2>2. new.ids = Append(<<>>, f)
    BY <2>1
  <2>3. Append(<<>>, f) = <<f>>
    OBVIOUS
  <2>4. Len(<<f>>) = 1 /\ <<f>>[1] = f
    OBVIOUS
  <2> QED BY <2>2, <2>3, <2>4
<1>6. /\ On(th, new.th) /\ Apart(th, new.th) /\ f \in Ids(new.th) /\ f \in Instances(new.th, id, sigma)
  BY <1>4 DEF Pushed
<1> QED BY <1>1, <1>5, <1>6 DEF clone

-----------------------------------------------------------------------------
(* Combinations                                                            *)

Row(choice, n) ==
    LET from == IF choice = <<>> THEN 1 ELSE choice[Len(choice)] + 1
    IN  [d \in 1 .. n + 1 - from |-> Append(choice, from + d - 1)]

PlacesIn(choices, n, k) ==
    choices \in Seq(Seq(1 .. n)) /\ \A c \in 1 .. Len(choices) : Len(choices[c]) = k

LEMMA RowIs ==
    ASSUME NEW n \in Nat, NEW choice \in Seq(1 .. n)
    PROVE  /\ PlacesIn(Row(choice, n), n, Len(choice) + 1)
           /\ choice = <<>> => \A d \in 1 .. n : Has(Row(choice, n), <<d>>)
<1> DEFINE from == IF choice = <<>> THEN 1 ELSE choice[Len(choice)] + 1
           m == n + 1 - from
           row == [d \in 1 .. m |-> Append(choice, from + d - 1)]
<1>1. Row(choice, n) = row
  BY DEF Row
<1>2. from \in 1 .. n + 1
  <2>1. CASE choice = <<>>
    BY <2>1
  <2>2. CASE choice # <<>>
    <3>1. Len(choice) \in 1 .. Len(choice)
      BY <2>2
    <3>2. choice[Len(choice)] \in 1 .. n
      BY <3>1
    <3> QED BY <2>2, <3>2
  <2> QED BY <2>1, <2>2
<1>3. choice = <<>> => from = 1
  OBVIOUS
<1> HIDE DEF from
<1>4. m \in Nat
  BY <1>2
<1> HIDE DEF m
<1>5. ASSUME NEW d \in 1 .. m
      PROVE  Append(choice, from + d - 1) \in Seq(1 .. n) /\ Len(Append(choice, from + d - 1)) = Len(choice) + 1
  <2>1. from + d - 1 \in 1 .. n
    BY <1>2, <1>4 DEF m
  <2> QED BY <2>1
<1>6. row \in Seq(Seq(1 .. n)) /\ Len(row) = m /\ \A d \in 1 .. m : row[d] = Append(choice, from + d - 1)
  BY <1>4, <1>5
<1> HIDE DEF row
<1>7. PlacesIn(row, n, Len(choice) + 1)
  BY <1>4, <1>5, <1>6 DEF PlacesIn
<1>8. ASSUME choice = <<>>, NEW d \in 1 .. n
      PROVE  Has(row, <<d>>)
  <2>1. from = 1 /\ d \in 1 .. m /\ from + d - 1 = d
    BY <1>3, <1>8 DEF m
  <2>2. row[d] = Append(<<>>, d)
    BY <1>6, <1>8, <2>1
  <2>3. Append(<<>>, d) = <<d>>
    OBVIOUS
  <2> QED BY <1>6, <2>1, <2>2, <2>3 DEF Has
<1> QED BY <1>1, <1>7, <1>8

LEMMA LongerIs ==
    ASSUME NEW n \in Nat, NEW k \in Nat, NEW choices, PlacesIn(choices, n, k)
    PROVE  /\ PlacesIn(Longer(choices, n, 1), n, k + 1)
           /\ Has(choices, <<>>) => \A d \in 1 .. n : Has(Longer(choices, n, 1), <<d>>)
<1> DEFINE rows == [c \in DOMAIN choices |-> Row(choices[c], n)]
           X == Seq(1 .. n)
           all == Longer(choices, n, 1)
<1>1. all = FlattenSeq(rows)
  BY DEF Longer, Row
<1>2. choices \in Seq(X) /\ Len(choices) \in Nat /\ DOMAIN choices = 1 .. Len(choices)
      /\ \A c \in 1 .. Len(choices) : choices[c] \in X /\ Len(choices[c]) = k
  BY DEF PlacesIn
<1>3. \A c \in 1 .. Len(choices) : PlacesIn(Row(choices[c], n), n, k + 1)
  BY <1>2, RowIs
<1>4. /\ rows \in Seq(Seq(X)) /\ Len(rows) = Len(choices)
      /\ \A c \in 1 .. Len(choices) : rows[c] = Row(choices[c], n)
  <2>1. \A c \in 1 .. Len(choices) : Row(choices[c], n) \in Seq(X)
    BY <1>3 DEF PlacesIn
  <2> QED BY <1>2, <2>1
<1> HIDE DEF rows, X, all
<1>5. all \in Seq(X) /\ \A x : Has(all, x) <=> \E c \in 1 .. Len(rows) : Has(rows[c], x)
  BY <1>1, <1>4, FlattenHas
<1>6. ASSUME NEW i \in 1 .. Len(all)
      PROVE  Len(all[i]) = k + 1
  <2>1. Has(all, all[i])
    BY DEF Has
  <2>2. PICK c \in 1 .. Len(rows) : Has(rows[c], all[i])
    BY <1>5, <2>1
  <2>3. PlacesIn(rows[c], n, k + 1)
    BY <1>3, <1>4, <2>2
  <2> QED BY <2>2, <2>3 DEF PlacesIn, Has
<1>7. PlacesIn(all, n, k + 1)
  BY <1>5, <1>6 DEF PlacesIn, X
<1>8. ASSUME Has(choices, <<>>), NEW d \in 1 .. n
      PROVE  Has(all, <<d>>)
  <2>1. PICK c \in 1 .. Len(choices) : choices[c] = <<>>
    BY <1>8 DEF Has
  <2>2. Has(Row(choices[c], n), <<d>>)
    BY <1>2, <2>1, RowIs DEF X
  <2> QED BY <1>4, <1>5, <2>1, <2>2
<1> QED BY <1>7, <1>8 DEF all

LEMMA CombinationsAre ==
    ASSUME NEW n \in Nat, NEW k \in Nat
    PROVE  /\ PlacesIn(Combinations(n, k), n, k)
           /\ k = 1 => \A d \in 1 .. n : Has(Combinations(n, k), <<d>>)
<1> DEFINE s == [j \in 1 .. k |-> j]
           base == <<<<>>>>
<1>1. Combinations(n, k) = Chosen(base, s, n)
  BY DEF Combinations, Chosen, Loop
<1>2. Len(s) = k
  OBVIOUS
<1>3. PlacesIn(base, n, 0) /\ Has(base, <<>>)
  <2> DEFINE none == <<>>
             one == <<none>>
  <2>1. none \in Seq(1 .. n) /\ Len(none) = 0
    OBVIOUS
  <2> HIDE DEF none
  <2>2. one \in Seq(Seq(1 .. n)) /\ Len(one) = 1 /\ one[1] = none
    BY <2>1
  <2> HIDE DEF one
  <2>3. PlacesIn(one, n, 0) /\ Has(one, none)
    BY <2>1, <2>2 DEF PlacesIn, Has
  <2> QED BY <2>3 DEF one, none
<1> HIDE DEF s, base
<1>4. PICK made : IsChosen(made, base, s, n)
  BY <1>2, ChosenIs
<1>5. /\ Chosen(base, s, n) = made[k] /\ made[0] = base
      /\ \A j \in 1 .. k : made[j] = Longer(made[j - 1], n, 1)
  BY <1>2, <1>4 DEF IsChosen
<1> DEFINE K == {j \in 0 .. k : PlacesIn(made[j], n, j)}
<1>6. 0 \in K
  BY <1>3, <1>5
<1>7. ASSUME NEW j \in 1 .. k, j - 1 \in K
      PROVE  j \in K
  <2>1. PlacesIn(made[j - 1], n, j - 1) /\ j - 1 \in Nat /\ (j - 1) + 1 = j /\ j \in 0 .. k
    BY <1>7
  <2>2. PlacesIn(made[j], n, (j - 1) + 1)
    BY <1>5, <2>1, LongerIs
  <2> QED BY <2>1, <2>2
<1> HIDE DEF K
<1>8. k \in K
  BY <1>6, <1>7, LoopInduction
<1>9. ASSUME k = 1, NEW d \in 1 .. n
      PROVE  Has(made[k], <<d>>)
  <2>1. made[1] = Longer(base, n, 1)
    <3>1. 1 \in 1 .. k /\ 1 - 1 = 0
      BY <1>9
    <3>2. made[1] = Longer(made[1 - 1], n, 1)
      BY <1>5, <3>1
    <3> QED BY <1>5, <3>1, <3>2
  <2> QED BY <1>3, <1>9, <2>1, LongerIs
<1> QED BY <1>1, <1>5, <1>8, <1>9 DEF K

-----------------------------------------------------------------------------
(* No text twice                                                           *)

NoTextTwice(th) ==
    \A i, j \in 1 .. Len(th.quantFreeVocIds) :
        Text(th, th.quantFreeVocIds[i]) = Text(th, th.quantFreeVocIds[j]) => i = j

(* What an insertion changes.                                              *)
Inserts(th, new) ==
    /\ On(th, new) /\ NoTextTwice(new)
    /\ new.generatedVocabIds = th.generatedVocabIds /\ new.boundTerms = th.boundTerms
    /\ \A f : Has(th.quantFreeVocIds, f) => Has(new.quantFreeVocIds, f)

Listed(th, id) == \E f : Has(th.quantFreeVocIds, f) /\ Text(th, f) = Text(th, id)

LEMMA NoTextTwiceStays ==
    ASSUME NEW th, Fine(th), NEW new, On(th, new), new.quantFreeVocIds = th.quantFreeVocIds, NoTextTwice(th)
    PROVE  NoTextTwice(new)
<1>1. \A i \in 1 .. Len(th.quantFreeVocIds) : th.quantFreeVocIds[i] \in Ids(th)
  BY FieldsOf
<1>2. \A id \in Ids(th) : Text(new, id) = Text(th, id)
  BY TextStays
<1> QED BY <1>1, <1>2 DEF NoTextTwice

LEMMA ListedStays ==
    ASSUME NEW th, Fine(th), NEW new, Inserts(th, new), NEW id \in Ids(th), Listed(th, id)
    PROVE  Listed(new, id)
<1>1. PICK f : Has(th.quantFreeVocIds, f) /\ Text(th, f) = Text(th, id)
  BY DEF Listed
<1>2. th.quantFreeVocIds \in Seq(Ids(th))
  BY FieldsOf
<1>3. f \in Ids(th)
  BY <1>1, <1>2, SeqItem DEF Has
<1>4. Text(new, f) = Text(th, f) /\ Text(new, id) = Text(th, id)
  BY <1>3, TextStays DEF Inserts
<1> QED BY <1>1, <1>4 DEF Listed, Inserts

LEMMA InsertIs ==
    ASSUME NEW th, Fine(th), NoTextTwice(th), NEW id \in Ids(th)
    PROVE  LET new == insertQFNoDuplicates(th, id)
           IN  /\ Inserts(th, new) /\ Listed(new, id)
               /\ \A f : Has(new.quantFreeVocIds, f) => Has(th.quantFreeVocIds, f) \/ f = id
<1> DEFINE old == th.quantFreeVocIds
           more == Append(old, id)
           new == insertQFNoDuplicates(th, id)
           there == \E i \in 1 .. Len(old) : Text(th, old[i]) = Text(th, id)
<1>1. old \in Seq(Ids(th)) /\ th.generatedVocabIds \in Seq(Ids(th)) /\ th.boundTerms \subseteq Ids(th)
  BY FieldsOf
<1>2. IsTheory(th)
  BY DEF Fine, Good
<1>3. new = IF there THEN th ELSE [th EXCEPT !.quantFreeVocIds = more]
  <2>1. DOMAIN old = 1 .. Len(old)
    BY <1>1
  <2>2. new = IF \E i \in DOMAIN old : Text(th, old[i]) = Text(th, id) THEN th
              ELSE [th EXCEPT !.quantFreeVocIds = Append(@, id)]
    BY DEF insertQFNoDuplicates
  <2>3. [th EXCEPT !.quantFreeVocIds = Append(@, id)] = [th EXCEPT !.quantFreeVocIds = more]
    OBVIOUS
  <2> HIDE DEF new, old, more
  <2> QED BY <2>1, <2>2, <2>3
<1> HIDE DEF new
<1>4. CASE there
  <2>1. new = th
    BY <1>3, <1>4
  <2>2. Inserts(th, new)
    BY <2>1, OnIs DEF Inserts
  <2>3. Listed(new, id)
    BY <1>4, <2>1 DEF Listed, Has
  <2> QED BY <2>1, <2>2, <2>3 DEF new
<1>5. CASE ~there
  <2>1. new = [th EXCEPT !.quantFreeVocIds = more]
    BY <1>3, <1>5
  <2>2. /\ more \in Seq(Ids(th)) /\ Len(more) = Len(old) + 1 /\ Len(old) \in Nat
        /\ more[Len(old) + 1] = id
        /\ \A i \in 1 .. Len(old) : more[i] = old[i]
    BY <1>1
  <2> HIDE DEF more
  <2>3. Others(th, new) /\ new.quantFreeVocIds = more /\ new.generatedVocabIds = th.generatedVocabIds
        /\ new.boundTerms = th.boundTerms
    BY <1>2, <2>1 DEF Others, IsTheory
  <2>4. On(th, new)
    BY <1>1, <2>2, <2>3, OthersOn
  <2>5. \A x \in Ids(th) : Text(new, x) = Text(th, x)
    BY <2>4, TextStays
  <2>6. ASSUME NEW i \in 1 .. Len(more), NEW j \in 1 .. Len(more), Text(new, more[i]) = Text(new, more[j])
        PROVE  i = j
    <3>1. more[i] \in Ids(th) /\ more[j] \in Ids(th)
      BY <2>2, SeqItem
    <3>2. Text(th, more[i]) = Text(th, more[j])
      BY <2>5, <2>6, <3>1
    <3>3. i \in 1 .. Len(old) \/ i = Len(old) + 1
      BY <2>2
    <3>4. j \in 1 .. Len(old) \/ j = Len(old) + 1
      BY <2>2
    <3>5. CASE i \in 1 .. Len(old) /\ j \in 1 .. Len(old)
      <4>1. Text(th, old[i]) = Text(th, old[j])
        BY <2>2, <3>2, <3>5
      <4> QED BY <3>5, <4>1 DEF NoTextTwice
    <3>6. CASE i \in 1 .. Len(old) /\ j = Len(old) + 1
      <4>1. Text(th, old[i]) = Text(th, id)
        BY <2>2, <3>2, <3>6
      <4> QED BY <1>5, <3>6, <4>1
    <3>7. CASE i = Len(old) + 1 /\ j \in 1 .. Len(old)
      <4>1. Text(th, old[j]) = Text(th, id)
        BY <2>2, <3>2, <3>7
      <4> QED BY <1>5, <3>7, <4>1
    <3> QED BY <3>3, <3>4, <3>5, <3>6, <3>7
  <2>7. NoTextTwice(new)
    BY <2>3, <2>6 DEF NoTextTwice
  <2>8. \A f : Has(more, f) <=> Has(old, f) \/ f = id
    <3>1. \A i \in 1 .. Len(more) : i \in 1 .. Len(old) \/ i = Len(old) + 1
      BY <2>2
    <3>2. Len(old) + 1 \in 1 .. Len(more) /\ \A i \in 1 .. Len(old) : i \in 1 .. Len(more)
      BY <2>2
    <3> QED BY <2>2, <3>1, <3>2 DEF Has
  <2>9. Inserts(th, new) /\ Listed(new, id)
    BY <2>3, <2>4, <2>7, <2>8 DEF Inserts, Listed
  <2> QED BY <2>3, <2>8, <2>9 DEF new
<1> QED BY <1>4, <1>5

-----------------------------------------------------------------------------
(* Instantiation                                                           *)

(* f is the clause c with an index term for each of its variables.         *)
Instantiated(th, indices, c, f) ==
    \E sigma \in [SeqRange(getUVars(th, c)) -> SeqRange(indices)] : f \in Instances(th, c, sigma)

(* The instance of c by sigma is in the quantifier-free vocabulary.        *)
Inserted(th, c, sigma) == \E g : g \in Ids(th) /\ g \in Instances(th, c, sigma) /\ Listed(th, g)

Covered(th, indices, c) ==
    LET uvars == getUVars(th, c)
    IN  /\ Len(uvars) = 0 => Listed(th, c)
        /\ Len(uvars) = 1 => \A i \in 1 .. Len(indices) : Inserted(th, c, [v \in {uvars[1]} |-> indices[i]])

Grounds(th, new, indices, c) ==
    /\ Inserts(th, new)
    /\ \A f : Has(new.quantFreeVocIds, f) => Has(th.quantFreeVocIds, f) \/ Instantiated(new, indices, c, f)

LEMMA InsertsTransitive ==
    ASSUME NEW th, Fine(th), NEW new, NEW more, Inserts(th, new), Inserts(new, more)
    PROVE  Inserts(th, more)
BY OnIs DEF Inserts

LEMMA InstantiatedStays ==
    ASSUME NEW th, Fine(th), NEW new, On(th, new), NEW indices, NEW c \in Ids(th), NEW f,
           Instantiated(th, indices, c, f)
    PROVE  Instantiated(new, indices, c, f)
<1>1. getUVars(new, c) = getUVars(th, c)
  BY UVarsStay
<1>2. PICK sigma \in [SeqRange(getUVars(th, c)) -> SeqRange(indices)] : f \in Instances(th, c, sigma)
  BY DEF Instantiated
<1>3. f \in Instances(new, c, sigma)
  BY <1>2, InstancesStay
<1> QED BY <1>1, <1>2, <1>3 DEF Instantiated

LEMMA InsertedStays ==
    ASSUME NEW th, Fine(th), NEW new, Inserts(th, new), NEW c \in Ids(th), NEW sigma, Inserted(th, c, sigma)
    PROVE  Inserted(new, c, sigma)
<1>1. PICK g : g \in Ids(th) /\ g \in Instances(th, c, sigma) /\ Listed(th, g)
  BY DEF Inserted
<1>2. On(th, new)
  BY DEF Inserts
<1>3. g \in Ids(new) /\ g \in Instances(new, c, sigma)
  BY <1>1, <1>2, OnIs, InstancesStay
<1>4. Listed(new, g)
  BY <1>1, ListedStays
<1> QED BY <1>3, <1>4 DEF Inserted

LEMMA CoveredStays ==
    ASSUME NEW th, Fine(th), NEW new, Inserts(th, new), NEW indices, NEW c \in Ids(th),
           Covered(th, indices, c)
    PROVE  Covered(new, indices, c)
<1>1. getUVars(new, c) = getUVars(th, c)
  BY UVarsStay DEF Inserts
<1>2. Listed(th, c) => Listed(new, c)
  BY ListedStays
<1>3. \A sigma : Inserted(th, c, sigma) => Inserted(new, c, sigma)
  BY InsertedStays
<1> QED BY <1>1, <1>2, <1>3 DEF Covered

LEMMA GroundsTransitive ==
    ASSUME NEW th, Fine(th), NEW new, NEW more, NEW indices, NEW c \in Ids(th),
           Grounds(th, new, indices, c), Grounds(new, more, indices, c)
    PROVE  Grounds(th, more, indices, c)
<1>1. Inserts(th, new) /\ Inserts(new, more)
  BY DEF Grounds
<1>2. Fine(new) /\ c \in Ids(new) /\ On(new, more)
  BY <1>1, OnIs DEF Inserts
<1>3. Inserts(th, more)
  BY <1>1, InsertsTransitive
<1>4. \A f : Instantiated(new, indices, c, f) => Instantiated(more, indices, c, f)
  BY <1>2, InstantiatedStays
<1> QED BY <1>3, <1>4 DEF Grounds

(* What cloneAndSubstitute does.                                           *)
LEMMA CloneInserted ==
    ASSUME NEW th, Fine(th), NoTextTwice(th), NEW c \in Ids(th), NEW combination, NEW sigma,
           Substitution(th, getUVars(th, c), combination, sigma)
    PROVE  LET new == cloneAndSubstitute(th, c, getUVars(th, c), combination)
           IN  /\ Inserts(th, new) /\ Inserted(new, c, sigma)
               /\ \A f : Has(new.quantFreeVocIds, f) =>
                     Has(th.quantFreeVocIds, f) \/ f \in Instances(new, c, sigma)
<1> DEFINE clone == cloneAndSubstituteRec(th, c, getUVars(th, c), combination)
           new == cloneAndSubstitute(th, c, getUVars(th, c), combination)
<1>1. new = insertQFNoDuplicates(clone.th, clone.id)
  BY DEF cloneAndSubstitute
<1>2. /\ On(th, clone.th) /\ Apart(th, clone.th) /\ clone.id \in Ids(clone.th)
      /\ clone.id \in Instances(clone.th, c, sigma)
  BY CloneIsInstance
<1> HIDE DEF clone, new
<1>3. Fine(clone.th) /\ c \in Ids(clone.th)
  BY <1>2, OnIs
<1>4. NoTextTwice(clone.th)
  BY <1>2, NoTextTwiceStays DEF Apart
<1>5. /\ Inserts(clone.th, new) /\ Listed(new, clone.id)
      /\ \A f : Has(new.quantFreeVocIds, f) => Has(clone.th.quantFreeVocIds, f) \/ f = clone.id
  BY <1>1, <1>2, <1>3, <1>4, InsertIs
<1>6. On(clone.th, new)
  BY <1>5 DEF Inserts
<1>7. clone.id \in Ids(new) /\ clone.id \in Instances(new, c, sigma)
  BY <1>2, <1>3, <1>6, OnIs, InstancesStay
<1>8. Inserts(th, new)
  BY <1>2, <1>5, <1>6, OnIs DEF Inserts, Apart
<1>9. Inserted(new, c, sigma)
  BY <1>5, <1>7 DEF Inserted
<1>10. \A f : Has(new.quantFreeVocIds, f) => Has(th.quantFreeVocIds, f) \/ f \in Instances(new, c, sigma)
  BY <1>2, <1>5, <1>7 DEF Apart
<1> QED BY <1>8, <1>9, <1>10 DEF new

(* The terms at the places of a choice, and the variables they are for.    *)
Taken(indices, places) == [i \in DOMAIN places |-> indices[places[i]]]
Substituted(uvars, indices, places) == [u \in SeqRange(uvars) |-> Taken(indices, places)[Place(uvars, u)]]

LEMMA SubstitutedIs ==
    ASSUME NEW th, Fine(th), NEW uvars \in Seq(Ids(th)), NEW indices \in Seq(Ids(th)),
           NEW places \in Seq(1 .. Len(indices)), Len(places) = Len(uvars)
    PROVE  LET sigma == Substituted(uvars, indices, places)
           IN  /\ Substitution(th, uvars, Taken(indices, places), sigma)
               /\ sigma \in [SeqRange(uvars) -> SeqRange(indices)]
<1> DEFINE sigma == Substituted(uvars, indices, places)
           terms == Taken(indices, places)
           X == Ids(th)
<1>1. \A u : Has(uvars, u) <=> u \in SeqRange(uvars)
  BY DEF Has, SeqRange
<1>2. ASSUME NEW u, Has(uvars, u)
      PROVE  terms[Place(uvars, u)] \in Ids(th) /\ terms[Place(uvars, u)] \in SeqRange(indices)
  <2>1. Place(uvars, u) \in 1 .. Len(uvars)
    BY <1>2, PlaceIs
  <2> DEFINE p == Place(uvars, u)
  <2> HIDE DEF p
  <2>2. p \in DOMAIN places /\ places[p] \in 1 .. Len(indices)
    BY <2>1 DEF p
  <2>3. terms[p] = indices[places[p]]
    BY <2>2 DEF Taken
  <2>4. indices[places[p]] \in Ids(th) /\ indices[places[p]] \in SeqRange(indices)
    BY <2>2, SeqItem DEF SeqRange
  <2> QED BY <2>3, <2>4 DEF p
<1> HIDE DEF terms
<1>3. sigma = [u \in SeqRange(uvars) |-> terms[Place(uvars, u)]]
  BY DEF Substituted, terms
<1> HIDE DEF sigma
<1>4. \A u \in SeqRange(uvars) : sigma[u] = terms[Place(uvars, u)]
  BY <1>3
<1>5. Substitution(th, uvars, terms, sigma)
  BY <1>1, <1>2, <1>4 DEF Substitution
<1>6. sigma \in [SeqRange(uvars) -> SeqRange(indices)]
  BY <1>1, <1>2, <1>3
<1> QED BY <1>5, <1>6 DEF terms, sigma

LEMMA AllCloned ==
    ASSUME NEW th, Fine(th), NoTextTwice(th), NEW c \in Ids(th), NEW indices \in Seq(Ids(th)),
           NEW choices, PlacesIn(choices, Len(indices), Len(getUVars(th, c)))
    PROVE  LET uvars == getUVars(th, c)
               new == ClonedAll(th, choices, c, uvars, indices)
           IN  /\ Grounds(th, new, indices, c)
               /\ \A k \in 1 .. Len(choices) : Inserted(new, c, Substituted(uvars, indices, choices[k]))
<1> DEFINE uvars == getUVars(th, c)
           n == Len(choices)
           new == ClonedAll(th, choices, c, uvars, indices)
<1>1. n \in Nat /\ uvars \in Seq(Ids(th))
  BY UVarsAre DEF PlacesIn
<1>2. PICK made : IsClonedAll(made, th, choices, c, uvars, indices)
  BY <1>1, ClonedAllIs
<1>3. /\ new = made[n] /\ made[0] = th
      /\ \A k \in 1 .. n : made[k] = cloneAndSubstitute(made[k - 1], c, uvars, Taken(indices, choices[k]))
  BY <1>2 DEF IsClonedAll, Taken
<1> HIDE DEF new
<1> DEFINE So(t, k) == /\ Grounds(th, t, indices, c)
                       /\ \A j \in 1 .. k : Inserted(t, c, Substituted(uvars, indices, choices[j]))
           K == {k \in 0 .. n : So(made[k], k)}
<1>4. 0 \in K
  <2>1. Grounds(th, th, indices, c)
    BY OnIs DEF Grounds, Inserts
  <2> QED BY <1>1, <1>3, <2>1
<1>5. ASSUME NEW k \in 1 .. n, k - 1 \in K
      PROVE  k \in K
  <2> DEFINE t == made[k - 1]
             places == choices[k]
             sigma == Substituted(uvars, indices, places)
  <2>1. So(t, k - 1)
    BY <1>5
  <2>2. Inserts(th, t)
    BY <2>1 DEF Grounds
  <2>3. Fine(t) /\ NoTextTwice(t) /\ c \in Ids(t) /\ On(th, t) /\ Ids(th) \subseteq Ids(t)
    BY <2>2, OnIs DEF Inserts
  <2>4. getUVars(t, c) = uvars
    BY <2>3, UVarsStay
  <2>5. places \in Seq(1 .. Len(indices)) /\ Len(places) = Len(uvars)
    BY <1>5 DEF PlacesIn
  <2>6. uvars \in Seq(Ids(t)) /\ indices \in Seq(Ids(t))
    BY <1>1, <2>3, SeqWidens
  <2> HIDE DEF uvars, t
  <2>7. Substitution(t, uvars, Taken(indices, places), sigma) /\ sigma \in [SeqRange(uvars) -> SeqRange(indices)]
    BY <2>3, <2>5, <2>6, SubstitutedIs
  <2> HIDE DEF sigma
  <2>8. made[k] = cloneAndSubstitute(t, c, getUVars(t, c), Taken(indices, places))
    BY <1>3, <1>5, <2>4 DEF t
  <2>9. /\ Inserts(t, made[k]) /\ Inserted(made[k], c, sigma)
        /\ \A f : Has(made[k].quantFreeVocIds, f) =>
                     Has(t.quantFreeVocIds, f) \/ f \in Instances(made[k], c, sigma)
    BY <2>3, <2>4, <2>7, <2>8, CloneInserted
  <2>10. getUVars(made[k], c) = uvars
    BY <2>3, <2>4, <2>9, UVarsStay DEF Inserts
  <2>11. \A f : f \in Instances(made[k], c, sigma) => Instantiated(made[k], indices, c, f)
    BY <2>7, <2>10 DEF Instantiated
  <2>12. Grounds(t, made[k], indices, c)
    BY <2>9, <2>11 DEF Grounds
  <2>13. Grounds(th, made[k], indices, c)
    BY <2>1, <2>12, GroundsTransitive
  <2>14. ASSUME NEW j \in 1 .. k
         PROVE  Inserted(made[k], c, Substituted(uvars, indices, choices[j]))
    <3>1. CASE j = k
      BY <2>9, <3>1 DEF sigma
    <3>2. CASE j # k
      <4>1. j \in 1 .. k - 1
        BY <3>2
      <4> QED BY <2>1, <2>3, <2>9, <4>1, InsertedStays
    <3> QED BY <3>1, <3>2
  <2>15. k \in 0 .. n
    BY <1>1
  <2> QED BY <2>13, <2>14, <2>15
<1> HIDE DEF K
<1>6. n \in K
  BY <1>1, <1>4, <1>5, LoopInduction
<1>7. So(made[n], n)
  BY <1>6 DEF K
<1> QED BY <1>3, <1>7 DEF new

(* What one clause adds.                                                   *)
LEMMA ClauseInstantiated ==
    ASSUME NEW th, Fine(th), NoTextTwice(th), NEW c \in Ids(th), NEW indices \in Seq(Ids(th))
    PROVE  LET new == instantiate(th, c, indices)
           IN  Grounds(th, new, indices, c) /\ Covered(new, indices, c)
<1> DEFINE uvars == getUVars(th, c)
           n == Len(indices)
           m == Len(uvars)
           choices == Combinations(n, m)
           new == instantiate(th, c, indices)
<1>1. uvars \in Seq(Ids(th)) /\ m \in Nat /\ n \in Nat
  <2>1. uvars \in Seq(Ids(th))
    BY UVarsAre
  <2> HIDE DEF uvars
  <2> QED BY <2>1
<1>2. CASE getNode(th, c).global
  <2>1. new = ClonedAll(th, choices, c, uvars, indices)
    BY <1>2 DEF instantiate, combinationClone, ClonedAll, Loop
  <2>2. m >= 1
    BY <1>2, UVarsAre
  <2>3. PlacesIn(choices, n, m) /\ (m = 1 => \A d \in 1 .. n : Has(choices, <<d>>))
    BY <1>1, CombinationsAre
  <2> HIDE DEF new, choices
  <2>4. /\ Grounds(th, new, indices, c)
        /\ \A k \in 1 .. Len(choices) : Inserted(new, c, Substituted(uvars, indices, choices[k]))
    BY <2>1, <2>3, AllCloned
  <2>5. getUVars(new, c) = uvars
    BY <2>4, UVarsStay DEF Grounds, Inserts
  <2>6. ASSUME m = 1, NEW i \in 1 .. n
        PROVE  Inserted(new, c, [v \in {uvars[1]} |-> indices[i]])
    <3> DEFINE places == <<i>>
    <3>1. Len(places) = 1 /\ DOMAIN places = {1} /\ places[1] = i
      OBVIOUS
    <3>2. PICK k \in 1 .. Len(choices) : choices[k] = places
      BY <2>3, <2>6 DEF Has
    <3> HIDE DEF uvars, places
    <3>3. SeqRange(uvars) = {uvars[1]} /\ Has(uvars, uvars[1])
      BY <1>1, <2>6 DEF SeqRange, Has
    <3>4. Place(uvars, uvars[1]) \in 1 .. Len(uvars)
      BY <1>1, <3>3, PlaceIs
    <3>5. Place(uvars, uvars[1]) = 1
      BY <2>6, <3>4
    <3>6. Taken(indices, places) = [j \in {1} |-> indices[places[j]]]
      BY <3>1 DEF Taken
    <3>7. Taken(indices, places)[1] = indices[i]
      BY <3>1, <3>6
    <3>8. Substituted(uvars, indices, places) = [v \in {uvars[1]} |-> Taken(indices, places)[Place(uvars, v)]]
      BY <3>3 DEF Substituted
    <3>9. Substituted(uvars, indices, places) = [v \in {uvars[1]} |-> indices[i]]
      BY <3>5, <3>7, <3>8
    <3> QED BY <2>4, <3>2, <3>9
  <2>7. Covered(new, indices, c)
    BY <2>2, <2>5, <2>6 DEF Covered
  <2> QED BY <2>4, <2>7 DEF new
<1>3. CASE ~getNode(th, c).global
  <2>1. new = insertQFNoDuplicates(th, c)
    BY <1>3 DEF instantiate
  <2>2. /\ Inserts(th, new) /\ Listed(new, c)
        /\ \A f : Has(new.quantFreeVocIds, f) => Has(th.quantFreeVocIds, f) \/ f = c
    BY <2>1, InsertIs
  <2> HIDE DEF new
  <2>3. On(th, new) /\ Fine(new) /\ c \in Ids(new) /\ ~getNode(new, c).global
    BY <1>3, <2>2, OnIs, NodeStays DEF Inserts
  <2>4. getUVars(new, c) = <<>>
    BY <2>3, UVarsAre
  <2>5. \A sigma : Instances(new, c, sigma) = {c}
    BY <2>3, InstancesUnfold DEF Fine
  <2>6. \E sigma : sigma \in [SeqRange(getUVars(new, c)) -> SeqRange(indices)]
    <3>1. SeqRange(getUVars(new, c)) = {}
      BY <2>4 DEF SeqRange
    <3>2. [x \in {} |-> x] \in [{} -> SeqRange(indices)]
      OBVIOUS
    <3> QED BY <3>1, <3>2
  <2>7. Instantiated(new, indices, c, c)
    BY <2>5, <2>6 DEF Instantiated
  <2>8. Grounds(th, new, indices, c)
    BY <2>2, <2>7 DEF Grounds
  <2>9. Covered(new, indices, c)
    BY <2>2, <2>4 DEF Covered
  <2> QED BY <2>8, <2>9 DEF new
<1> QED BY <1>2, <1>3

-----------------------------------------------------------------------------
(* The invariant of the program up to the traversal                        *)

(* What generateVocab leaves: formulae that the rules allow, and one for   *)
(* every rule between two variables or literals.                           *)
GeneratedAll(th) ==
    /\ Generated(th, th.numClauseOperationBound)
    /\ \A a, b : Has(Basics(th), a) /\ Has(Basics(th), b) =>
          \A op : IsJoin(th, a, b, <<a, b, op>>) => Met(th, th, <<a, b, op>>)

(* What the instantiation of the first of the clauses, those before n,     *)
(* leaves.                                                                 *)
Freed(th, indices, clauses, n) ==
    /\ NoTextTwice(th)
    /\ \A f : Has(th.quantFreeVocIds, f) => \E c : Has(clauses, c) /\ Instantiated(th, indices, c, f)
    /\ \A k \in 1 .. Len(clauses) : k < n => Covered(th, indices, clauses[k])

MainInv ==
    /\ Fine(theory) /\ options \in Options /\ indexTerms \in Seq(Ids(theory)) /\ next \in Nat
    /\ status = "reading" => ReaderInv
    /\ status \in {"reading", "read"} => Unmade(theory)
    /\ status \in {"reading", "read", "generated", "propagated"} =>
          next = 1 /\ theory.quantFreeVocIds = <<>>
    /\ status = "generated" /\ options.genVocab => GeneratedAll(theory)
    /\ status = "propagated" => ExactElements(theory)
    /\ status = "bounded" \/ (status = "built" /\ options.useQuantFree) =>
          Freed(theory, indexTerms, useIds(FALSE), next)
    /\ status = "built" /\ options.useQuantFree => next > Len(useIds(FALSE))

LEMMA Reading == ReaderNext => status = "reading"
BY DEF ReaderNext, Completes, declaration, constant, grammar_rule, operations_bound, quantifiers_bound,
       atom_literal, atom_variable, atom_access, unaryop, additionop_productop,
       be_literal, be_variable, be_relational, be_boolean, be_not, be_quantified,
       clause, translation_unit, wrong_item, wrong_expression, wrong_clause, wrong_unit

LEMMA ReadingEnds == ReaderNext => status' \in {"reading"} \cup Outcomes
BY DEF ReaderNext, Completes, declaration, constant, grammar_rule, operations_bound, quantifiers_bound,
       atom_literal, atom_variable, atom_access, unaryop, additionop_productop,
       be_literal, be_variable, be_relational, be_boolean, be_not, be_quantified,
       clause, translation_unit, wrong_item, wrong_expression, wrong_clause, wrong_unit,
       Becomes, Stop, Reduce, Ruled, Undeclared, Outcomes

LEMMA InitMain == MainInit => MainInv
<1> SUFFICES ASSUME MainInit
             PROVE  MainInv
  OBVIOUS
<1>1. ReaderInit /\ options \in Options /\ indexTerms = <<>> /\ next = 1
  BY DEF MainInit
<1>2. ReaderInv /\ Right(theory) /\ Begun(theory) /\ status = "reading"
  BY <1>1, InitReads, InitRight, InitSettled DEF ReaderInit
<1>3. Fine(theory) /\ Unmade(theory) /\ theory.quantFreeVocIds = <<>>
  BY <1>2 DEF Fine, ReaderInv, Begun, Unmade
<1>4. indexTerms \in Seq(Ids(theory))
  BY <1>1
<1> QED BY <1>1, <1>2, <1>3, <1>4 DEF MainInv

LEMMA LongerIds ==
    ASSUME NEW th, Good(th), NEW new, Good(new), Grows(th.nodes, new.nodes)
    PROVE  Ids(th) \subseteq Ids(new)
BY NodesOf DEF Grows, Ids

LEMMA FileRead ==
    ASSUME MainInv, read_file
    PROVE  MainInv' /\ [Grows(theory.nodes, theory'.nodes)]_theory
<1>1. ReaderNext /\ options' = options /\ indexTerms' = indexTerms /\ next' = next
  BY DEF read_file, mainVars
<1>2. status = "reading" /\ status' \in {"reading"} \cup Outcomes
  BY <1>1, Reading, ReadingEnds
<1>3. ReaderInv /\ Fine(theory) /\ Unmade(theory) /\ next = 1
  BY <1>2 DEF MainInv
<1>4. Begun(theory) /\ Right(theory) /\ Good(theory)
  BY <1>3 DEF Fine, Begun
<1>5. ReaderInv' /\ [Grows(theory.nodes, theory'.nodes)]_theory
  BY <1>1, <1>3, NextKeeps
<1>6. Right(theory') /\ Begun(theory')
  BY <1>1, <1>3, <1>4, NextRight, NextSettles
<1>7. Fine(theory') /\ Unmade(theory') /\ theory'.quantFreeVocIds = <<>>
  BY <1>5, <1>6 DEF Fine, ReaderInv, Begun, Unmade
<1>8. Ids(theory) \subseteq Ids(theory')
  BY <1>4, <1>5, <1>7, LongerIds DEF Fine
<1>9. indexTerms' \in Seq(Ids(theory'))
  BY <1>1, <1>8, SeqWidens DEF MainInv
<1>10. status' \notin {"generated", "propagated", "bounded", "built"}
  BY <1>2 DEF Outcomes
<1>11. options' \in Options /\ next' = 1
  BY <1>1, <1>3 DEF MainInv
<1> QED BY <1>5, <1>7, <1>9, <1>10, <1>11 DEF MainInv

LEMMA GrowsBy ==
    ASSUME NEW th, Fine(th), NEW new, On(th, new)
    PROVE  Grows(th.nodes, new.nodes)
BY DEF On, Leads

LEMMA VocabularyMade ==
    ASSUME MainInv, generate
    PROVE  MainInv' /\ [Grows(theory.nodes, theory'.nodes)]_theory
<1> DEFINE injected == injectQuantifierVars(theory, options.injectLocal)
           new == generateVocab(injected)
           bound == injected.numClauseOperationBound
<1>1. /\ options' = [options EXCEPT !.genVocab = TRUE]
      /\ indexTerms' = indexTerms /\ next' = next /\ status = "read"
      /\ \/ status' = "endless" /\ theory' = theory
         \/ ~Endless(injected) /\ status' = "generated" /\ theory' = new
  BY DEF generate, Step
<1>2. Fine(theory) /\ Unmade(theory) /\ next = 1 /\ options \in Options /\ indexTerms \in Seq(Ids(theory))
  BY <1>1 DEF MainInv
<1>3. options' \in Options
  BY <1>1, <1>2 DEF Options
<1>4. CASE status' = "endless" /\ theory' = theory
  BY <1>1, <1>2, <1>3, <1>4 DEF MainInv
<1>5. CASE ~Endless(injected) /\ status' = "generated" /\ theory' = new
  <2>1. Leads(theory, injected) /\ Frame(theory, injected)
    BY <1>2, InjectLeads
  <2>2. Fine(injected) /\ injected.generatedVocabIds = <<>> /\ injected.quantFreeVocIds = <<>>
    BY <1>2, <2>1 DEF Leads, Frame, Unmade
  <2>3. /\ On(injected, new) /\ Generated(new, bound)
        /\ new.quantFreeVocIds = injected.quantFreeVocIds
        /\ \A a, b : Has(Basics(injected), a) /\ Has(Basics(injected), b) =>
              \A op : IsJoin(new, a, b, <<a, b, op>>) => Met(new, new, <<a, b, op>>)
    BY <1>5, <2>2, VocabGenerated
  <2> HIDE DEF injected, new
  <2>4. new.numClauseOperationBound = bound /\ Basics(new) = Basics(injected)
    BY <2>3 DEF On, Like, Basics
  <2>5. GeneratedAll(new)
    BY <2>3, <2>4 DEF GeneratedAll
  <2>6. Leads(theory, new)
    BY <1>2, <2>1, <2>3, LeadsTransitive DEF On
  <2>7. Fine(new) /\ Grows(theory.nodes, new.nodes) /\ Ids(theory) \subseteq Ids(new)
    BY <1>2, <2>6, LeadsIs DEF Leads
  <2>8. indexTerms' \in Seq(Ids(new))
    BY <1>1, <1>2, <2>7, SeqWidens
  <2> QED BY <1>1, <1>2, <1>3, <1>5, <2>2, <2>3, <2>5, <2>7, <2>8 DEF MainInv
<1> QED BY <1>1, <1>4, <1>5

LEMMA VocabularyRead ==
    ASSUME MainInv, inject
    PROVE  MainInv' /\ [Grows(theory.nodes, theory'.nodes)]_theory
<1> DEFINE new == injectQuantifierVars(theory, TRUE)
<1>1. /\ options' = options /\ indexTerms' = indexTerms /\ next' = next
      /\ status = "read" /\ status' = "generated" /\ ~options.genVocab
      /\ theory' = theory \/ theory' = new
  BY DEF inject, Step, mainVars, Generates
<1>2. Fine(theory) /\ Unmade(theory) /\ next = 1 /\ options \in Options /\ indexTerms \in Seq(Ids(theory))
  BY <1>1 DEF MainInv
<1>3. Leads(theory, theory) /\ Frame(theory, theory)
  BY <1>2, LeadsIs DEF Frame
<1>4. Leads(theory, theory') /\ Frame(theory, theory')
  BY <1>1, <1>2, <1>3, InjectLeads
<1>5. Fine(theory') /\ Grows(theory.nodes, theory'.nodes) /\ Ids(theory) \subseteq Ids(theory')
  BY <1>2, <1>4, LeadsIs DEF Leads
<1>6. theory'.quantFreeVocIds = <<>>
  BY <1>2, <1>4 DEF Frame, Unmade
<1>7. indexTerms' \in Seq(Ids(theory'))
  BY <1>1, <1>2, <1>5, SeqWidens
<1> QED BY <1>1, <1>2, <1>5, <1>6, <1>7 DEF MainInv

LEMMA ElementsPropagated ==
    ASSUME MainInv, propagate
    PROVE  MainInv' /\ [Grows(theory.nodes, theory'.nodes)]_theory
<1> DEFINE done == propagateElementAttribute(theory)
<1>1. /\ options' = options /\ indexTerms' = indexTerms /\ next' = next /\ status = "generated"
      /\ \/ theory' = theory /\ status' = "undefined"
         \/ theory' = done.th /\ status' = IF done.exits THEN "exited" ELSE "propagated"
  BY DEF propagate, Step, mainVars
<1>2. /\ Fine(theory) /\ next = 1 /\ options \in Options /\ indexTerms \in Seq(Ids(theory))
      /\ theory.quantFreeVocIds = <<>>
  BY <1>1 DEF MainInv
<1>3. On(theory, done.th) /\ Apart(theory, done.th) /\ (done.exits \/ Quiet(done.th))
  BY <1>2, Propagated
<1> HIDE DEF done
<1>4. On(theory, theory') /\ Apart(theory, theory')
  BY <1>1, <1>2, <1>3, OnIs, ApartIs
<1>5. Fine(theory') /\ Grows(theory.nodes, theory'.nodes) /\ Ids(theory) \subseteq Ids(theory')
  BY <1>2, <1>4, OnIs, GrowsBy
<1>6. theory'.quantFreeVocIds = <<>>
  BY <1>2, <1>4 DEF Apart
<1>7. indexTerms' \in Seq(Ids(theory'))
  BY <1>1, <1>2, <1>5, SeqWidens
<1>8. status' \in {"undefined", "exited", "propagated"} /\ (status' = "propagated" => ExactElements(theory'))
  BY <1>1, <1>3, <1>5, QuietExact
<1> QED BY <1>1, <1>2, <1>5, <1>6, <1>7, <1>8 DEF MainInv

LEMMA TermsFilled ==
    ASSUME MainInv, fill_bound_terms
    PROVE  MainInv' /\ [Grows(theory.nodes, theory'.nodes)]_theory
<1>1. /\ options' = options /\ next' = next /\ status = "propagated" /\ status' = "bounded"
      /\ theory' = fillBoundTerms(theory) /\ indexTerms' = IndexTerms(theory')
  BY DEF fill_bound_terms, Step
<1>2. /\ Fine(theory) /\ next = 1 /\ options \in Options /\ theory.quantFreeVocIds = <<>>
  BY <1>1 DEF MainInv
<1>3. On(theory, theory') /\ theory'.quantFreeVocIds = <<>>
  BY <1>1, <1>2, BoundTermsFilled
<1>4. Fine(theory') /\ Grows(theory.nodes, theory'.nodes)
  BY <1>2, <1>3, OnIs, GrowsBy
<1>5. indexTerms' \in Seq(Ids(theory'))
  BY <1>1, <1>4, IndexTermsAre
<1>6. \A clauses : Freed(theory', indexTerms', clauses, 1)
  BY <1>3 DEF Freed, NoTextTwice, Has
<1> QED BY <1>1, <1>2, <1>4, <1>5, <1>6 DEF MainInv

LEMMA ClausesOf ==
    ASSUME MainInv
    PROVE  useIds(FALSE) \in Seq(Ids(theory))
BY FieldsOf DEF MainInv, useIds

LEMMA ClauseDone ==
    ASSUME MainInv, instantiate_clause
    PROVE  MainInv' /\ [Grows(theory.nodes, theory'.nodes)]_theory
<1> DEFINE clauses == useIds(FALSE)
           c == clauses[next]
           new == instantiate(theory, c, indexTerms)
<1>1. /\ options' = options /\ indexTerms' = indexTerms /\ next' = next + 1
      /\ status = "bounded" /\ status' = "bounded" /\ next \in DOMAIN clauses /\ theory' = new
  BY DEF instantiate_clause, Step
<1>2. /\ Fine(theory) /\ next \in Nat /\ options \in Options /\ indexTerms \in Seq(Ids(theory))
      /\ Freed(theory, indexTerms, clauses, next)
  BY <1>1 DEF MainInv
<1>3. clauses \in Seq(Ids(theory))
  BY ClausesOf
<1>4. next \in 1 .. Len(clauses) /\ c \in Ids(theory)
  <2> HIDE DEF clauses
  <2> QED BY <1>1, <1>3
<1>5. NoTextTwice(theory)
  BY <1>2 DEF Freed
<1>6. Grounds(theory, new, indexTerms, c) /\ Covered(new, indexTerms, c)
  BY <1>2, <1>4, <1>5, ClauseInstantiated
<1>7. useIds(FALSE)' = clauses
  BY <1>1, <1>6 DEF useIds, Grounds, Inserts, On, Like
<1> HIDE DEF clauses, new
<1>8. Inserts(theory, new) /\ On(theory, new) /\ NoTextTwice(new)
  BY <1>6 DEF Grounds, Inserts
<1>9. Fine(new) /\ Grows(theory.nodes, new.nodes) /\ Ids(theory) \subseteq Ids(new)
  BY <1>2, <1>8, OnIs, GrowsBy
<1>10. indexTerms \in Seq(Ids(new))
  BY <1>2, <1>9, SeqWidens
<1>11. ASSUME NEW f, Has(new.quantFreeVocIds, f)
       PROVE  \E d : Has(clauses, d) /\ Instantiated(new, indexTerms, d, f)
  <2>1. CASE Instantiated(new, indexTerms, c, f)
    BY <1>4, <2>1 DEF Has
  <2>2. CASE Has(theory.quantFreeVocIds, f)
    <3>1. PICK d : Has(clauses, d) /\ Instantiated(theory, indexTerms, d, f)
      BY <1>2, <2>2 DEF Freed
    <3>2. d \in Ids(theory)
      BY <1>3, <3>1, SeqItem DEF Has
    <3>3. Instantiated(new, indexTerms, d, f)
      BY <1>2, <1>8, <3>1, <3>2, InstantiatedStays
    <3> QED BY <3>1, <3>3
  <2> QED BY <1>6, <1>11, <2>1, <2>2 DEF Grounds
<1>12. ASSUME NEW k \in 1 .. Len(clauses), k < next + 1
       PROVE  Covered(new, indexTerms, clauses[k])
  <2>1. CASE k = next
    BY <1>6, <2>1
  <2>2. CASE k # next
    <3>1. k < next
      BY <1>2, <1>12, <2>2
    <3>2. Covered(theory, indexTerms, clauses[k]) /\ clauses[k] \in Ids(theory)
      BY <1>2, <1>3, <3>1, SeqItem DEF Freed
    <3> QED BY <1>2, <1>8, <3>2, CoveredStays
  <2> QED BY <2>1, <2>2
<1>13. Freed(new, indexTerms, clauses, next + 1)
  BY <1>8, <1>11, <1>12 DEF Freed
<1>14. next + 1 \in Nat
  BY <1>2
<1>15. Freed(theory', indexTerms', useIds(FALSE)', next')
  BY <1>1, <1>7, <1>13
<1> QED BY <1>1, <1>2, <1>9, <1>10, <1>14, <1>15 DEF MainInv

LEMMA Built ==
    ASSUME MainInv, buildSMTFormulae
    PROVE  MainInv' /\ [Grows(theory.nodes, theory'.nodes)]_theory
<1>1. /\ theory' = theory /\ options' = options /\ indexTerms' = indexTerms /\ next' = next
      /\ status' = "built"
      /\ options.useQuantFree => status = "bounded" /\ next > Len(useIds(FALSE))
  BY DEF buildSMTFormulae, Step
<1>2. useIds(FALSE)' = useIds(FALSE)
  BY <1>1 DEF useIds
<1>3. options.useQuantFree => Freed(theory, indexTerms, useIds(FALSE), next)
  BY <1>1 DEF MainInv
<1>4. Freed(theory, indexTerms, useIds(FALSE), next) => Freed(theory', indexTerms', useIds(FALSE)', next')
  BY <1>1, <1>2
<1>5. options'.useQuantFree => Freed(theory', indexTerms', useIds(FALSE)', next') /\ next' > Len(useIds(FALSE)')
  BY <1>1, <1>2, <1>3, <1>4
<1>6. Fine(theory') /\ options' \in Options /\ indexTerms' \in Seq(Ids(theory')) /\ next' \in Nat
  BY <1>1 DEF MainInv
<1> QED BY <1>1, <1>5, <1>6 DEF MainInv

LEMMA Stopped ==
    ASSUME MainInv, use_null \/ ended \/ UNCHANGED <<readerVars, mainVars>>
    PROVE  MainInv' /\ theory' = theory
<1>1. CASE use_null
  <2>1. theory' = theory /\ options' = options /\ indexTerms' = indexTerms /\ next' = next /\ status' = "crashed"
    BY <1>1 DEF use_null, Step, mainVars
  <2> QED BY <2>1 DEF MainInv
<1>2. CASE ended \/ UNCHANGED <<readerVars, mainVars>>
  <2>1. /\ theory' = theory /\ options' = options /\ indexTerms' = indexTerms /\ next' = next
        /\ status' = status /\ text' = text /\ vals' = vals
    BY <1>2 DEF ended, readerVars, mainVars
  <2>2. useIds(FALSE)' = useIds(FALSE)
    BY <2>1 DEF useIds
  <2>3. ReaderInv' <=> ReaderInv
    BY <2>1 DEF ReaderInv
  <2> QED BY <2>1, <2>2, <2>3 DEF MainInv
<1> QED BY <1>1, <1>2

LEMMA NextMain ==
    ASSUME MainInv, [MainNext]_<<readerVars, mainVars>>
    PROVE  MainInv' /\ [Grows(theory.nodes, theory'.nodes)]_theory
BY FileRead, VocabularyMade, VocabularyRead, ElementsPropagated, TermsFilled, ClauseDone, Built, Stopped
   DEF MainNext

LEMMA MainGenerated == MainInv => GeneratedSound
<1> SUFFICES ASSUME MainInv, status = "generated", options.genVocab
             PROVE  /\ \A f \in SeqRange(theory.generatedVocabIds) :
                          LET node == getNode(theory, f)
                              l == node.operandIds[1]
                              r == node.operandIds[2]
                          IN  /\ f \in Relations(theory) /\ l # r
                              /\ Ruled2(l, r, node.op) \/ (node.op = "=" /\ Ruled2(r, l, "="))
                              /\ {Operations(theory, l), Operations(theory, r)}
                                    \subseteq 0 .. theory.numClauseOperationBound - 1
                    /\ \A a, b \in Basic, op \in RelationalOps :
                          /\ a # b /\ <<a, b, op>> \in theory.rulemap
                          /\ Comparable(theory, a, b, op)
                          => \E f \in SeqRange(theory.generatedVocabIds) :
                                getNode(theory, f).op = op /\ Operands(theory, f) = {a, b}
  BY DEF GeneratedSound
<1> DEFINE bound == theory.numClauseOperationBound
           made == theory.generatedVocabIds
<1>1. Fine(theory) /\ GeneratedAll(theory)
  BY DEF MainInv
<1>2. made \in Seq(Ids(theory))
  BY <1>1, FieldsOf
<1>3. ASSUME NEW f \in SeqRange(made)
      PROVE  Has(made, f) /\ Formula(theory, f, bound)
  <2>1. PICK i \in DOMAIN made : made[i] = f
    BY <1>3 DEF SeqRange
  <2>2. i \in 1 .. Len(made)
    BY <1>2, <2>1
  <2> QED BY <1>1, <2>1, <2>2 DEF Has, GeneratedAll, Generated
<1>4. ASSUME NEW a \in Ids(theory), NEW b \in Ids(theory), NEW op, Joining(theory, a, b, op)
      PROVE  Ruled2(a, b, op)
  <2> DEFINE right == getNode(theory, a).rightVars
             left == getNode(theory, b).leftVars
  <2>1. right \in Seq(Nat) /\ left \in Seq(Nat)
    <3>1. getNode(theory, a) \in Node /\ getNode(theory, b) \in Node
      BY <1>1, NodesOf DEF Fine, getNode, Ids
    <3> QED BY <3>1 DEF Node
  <2>2. PICK i \in 1 .. Len(right), j \in 1 .. Len(left) : <<right[i], left[j], op>> \in theory.rulemap
    BY <1>4 DEF Joining
  <2> HIDE DEF right, left
  <2>3. right[i] \in SeqRange(right) /\ left[j] \in SeqRange(left)
    BY <2>1 DEF SeqRange
  <2> QED BY <2>2, <2>3 DEF Ruled2, right, left
<1>5. ASSUME NEW f \in SeqRange(made)
      PROVE  LET node == getNode(theory, f)
                 l == node.operandIds[1]
                 r == node.operandIds[2]
             IN  /\ f \in Relations(theory) /\ l # r
                 /\ Ruled2(l, r, node.op) \/ (node.op = "=" /\ Ruled2(r, l, "="))
                 /\ {Operations(theory, l), Operations(theory, r)} \subseteq 0 .. bound - 1
  BY <1>3, <1>4, <1>5 DEF Formula, Relations
<1>6. ASSUME NEW a \in Basic
      PROVE  /\ Has(Basics(theory), a) /\ a \in Ids(theory)
             /\ getNode(theory, a).leftVars = <<a>> /\ getNode(theory, a).rightVars = <<a>>
  <2> DEFINE cs == theory.constantIds
             vs == theory.varIds
             all == cs \o vs
  <2>1. cs \in Seq(Ids(theory)) /\ vs \in Seq(Ids(theory))
    BY <1>1, VarIdsOf DEF Fine
  <2>3. (\E i \in 1 .. Len(cs) : cs[i] = a) \/ (\E i \in 1 .. Len(vs) : vs[i] = a)
    BY <2>1, <1>6 DEF Basic, SeqRange
  <2>6. getNode(theory, a).isVar \/ getNode(theory, a).type = "literal"
    BY <1>1, <2>3 DEF Fine, Good, Sound, NamedIn, LiteralsIn, getNode
  <2> HIDE DEF cs, vs
  <2>2. /\ Len(all) = Len(cs) + Len(vs) /\ Len(cs) \in Nat /\ Len(vs) \in Nat
        /\ \A i \in 1 .. Len(cs) : all[i] = cs[i]
        /\ \A i \in 1 .. Len(vs) : all[Len(cs) + i] = vs[i]
    BY <2>1, ConcatIs
  <2>4. a \in Ids(theory)
    BY <2>1, <2>3, SeqItem
  <2>5. Has(all, a)
    <3> HIDE DEF all
    <3>1. CASE \E i \in 1 .. Len(cs) : cs[i] = a
      BY <2>2, <3>1 DEF Has
    <3>2. CASE \E i \in 1 .. Len(vs) : vs[i] = a
      <4>1. PICK i \in 1 .. Len(vs) : vs[i] = a
        BY <3>2
      <4>2. Len(cs) + i \in 1 .. Len(all)
        BY <2>2, <4>1
      <4> QED BY <2>2, <4>1, <4>2 DEF Has
    <3> QED BY <2>3, <3>1, <3>2
  <2>7. Own(getNode(theory, a), a)
    <3>1. a + 1 \in 1 .. Len(theory.nodes) /\ (a + 1) - 1 = a
      BY <1>1, <2>4, NodesOf DEF Fine, Ids
    <3>2. Own(theory.nodes[a + 1], (a + 1) - 1)
      BY <1>1, <3>1 DEF Fine, Settled, Shaped
    <3> QED BY <3>1, <3>2 DEF getNode
  <2> QED BY <2>4, <2>5, <2>6, <2>7 DEF Own, Basics, cs, vs
<1>7. ASSUME NEW a \in Basic, NEW b \in Basic, NEW op \in RelationalOps,
             a # b, <<a, b, op>> \in theory.rulemap, Comparable(theory, a, b, op)
      PROVE  \E f \in SeqRange(made) : getNode(theory, f).op = op /\ Operands(theory, f) = {a, b}
  <2>1. Joining(theory, a, b, op)
    <3> DEFINE right == getNode(theory, a).rightVars
               left == getNode(theory, b).leftVars
    <3>1. right = <<a>> /\ left = <<b>>
      BY <1>6, <1>7
    <3> HIDE DEF right, left
    <3>2. 1 \in 1 .. Len(right) /\ 1 \in 1 .. Len(left) /\ <<right[1], left[1], op>> \in theory.rulemap
      BY <1>7, <3>1
    <3>3. Has(OpOrder, op)
      BY OpOrderIs
    <3> QED BY <3>2, <3>3 DEF Joining, right, left
  <2>2. IsJoin(theory, a, b, <<a, b, op>>)
    BY <1>7, <2>1 DEF IsJoin
  <2> DEFINE x == <<a, b, op>>
  <2>3. Met(theory, theory, x)
    BY <1>1, <1>6, <1>7, <2>2 DEF GeneratedAll
  <2>4. x[1] = a /\ x[2] = b /\ x[3] = op
    OBVIOUS
  <2> HIDE DEF x
  <2>5. PICK f : Has(made, f) /\ Relates(theory, f, a, b, op)
    BY <1>7, <2>3, <2>4 DEF Met
  <2>6. f \in SeqRange(made)
    BY <1>2, <2>5 DEF Has, SeqRange
  <2>7. Operands(theory, f) = {a, b}
    <3> DEFINE s == getNode(theory, f).operandIds
    <3>1. s = <<a, b>> \/ s = <<b, a>>
      BY <2>5 DEF Relates
    <3>2. DOMAIN s = {1, 2} /\ {s[1], s[2]} = {a, b}
      <4> HIDE DEF s
      <4> QED BY <3>1
    <3>3. Operands(theory, f) = {s[i] : i \in DOMAIN s}
      BY DEF Operands
    <3> HIDE DEF s
    <3> QED BY <3>2, <3>3
  <2> QED BY <2>5, <2>6, <2>7 DEF Relates
<1>8. \A f \in SeqRange(made) :
         LET node == getNode(theory, f)
             l == node.operandIds[1]
             r == node.operandIds[2]
         IN  /\ f \in Relations(theory) /\ l # r
             /\ Ruled2(l, r, node.op) \/ (node.op = "=" /\ Ruled2(r, l, "="))
             /\ {Operations(theory, l), Operations(theory, r)} \subseteq 0 .. bound - 1
  BY <1>5
<1>9. \A a, b \in Basic, op \in RelationalOps :
         /\ a # b /\ <<a, b, op>> \in theory.rulemap
         /\ Comparable(theory, a, b, op)
         => \E f \in SeqRange(made) : getNode(theory, f).op = op /\ Operands(theory, f) = {a, b}
  BY <1>7
<1> QED BY <1>8, <1>9

LEMMA MainFreed == MainInv => QuantFreeExact
<1> SUFFICES ASSUME MainInv, status = "built", options.useQuantFree
             PROVE  /\ \A f \in QuantFree : \E c \in Clauses : InstanceOf(c, f)
                    /\ \A f, g \in QuantFree : SameText(theory, f, g) => f = g
                    /\ \A c \in Clauses :
                          LET uvars == getUVars(theory, c)
                          IN  /\ Len(uvars) = 0 => \E f \in QuantFree : SameText(theory, f, c)
                              /\ Len(uvars) = 1 => \A i \in DOMAIN indexTerms :
                                    \E f \in QuantFree,
                                       g \in Instances(theory, c, [v \in {uvars[1]} |-> indexTerms[i]]) :
                                        SameText(theory, f, g)
  BY DEF QuantFreeExact
<1> DEFINE clauses == useIds(FALSE)
           free == theory.quantFreeVocIds
<1>1. /\ Fine(theory) /\ Freed(theory, indexTerms, clauses, next) /\ next > Len(clauses)
      /\ indexTerms \in Seq(Ids(theory)) /\ next \in Nat
  BY DEF MainInv
<1>2. clauses \in Seq(Ids(theory)) /\ free \in Seq(Ids(theory))
  BY <1>1, ClausesOf, FieldsOf
<1> HIDE DEF clauses, free
<1>3. \A c : Has(clauses, c) <=> c \in Clauses
  <2>1. Clauses = {clauses[i] : i \in DOMAIN clauses}
    BY DEF Clauses, clauses
  <2> QED BY <1>2, <2>1 DEF Has
<1>4. \A f : Has(free, f) <=> f \in QuantFree
  BY <1>2 DEF Has, QuantFree, free
<1>5. \A c, f : Instantiated(theory, indexTerms, c, f) => InstanceOf(c, f)
  BY DEF Instantiated, InstanceOf, SeqRange
<1>6. \A f \in QuantFree : \E c \in Clauses : InstanceOf(c, f)
  BY <1>1, <1>3, <1>4, <1>5 DEF Freed, free
<1>7. \A f, g \in QuantFree : SameText(theory, f, g) => f = g
  <2>1. \A f \in QuantFree : \E i \in 1 .. Len(free) : free[i] = f
    BY <1>4 DEF Has
  <2> QED BY <1>1, <2>1 DEF Freed, NoTextTwice, SameText, free
<1>8. ASSUME NEW c \in Clauses
      PROVE  Covered(theory, indexTerms, c)
  <2>1. PICK k \in 1 .. Len(clauses) : clauses[k] = c
    BY <1>3 DEF Has
  <2>2. k < next
    BY <1>1, <1>2, <2>1
  <2> QED BY <1>1, <2>1, <2>2 DEF Freed
<1>9. \A id : Listed(theory, id) => \E f \in QuantFree : SameText(theory, f, id)
  BY <1>4 DEF Listed, SameText, free
<1>10. ASSUME NEW c \in Clauses, Len(getUVars(theory, c)) = 1, NEW i \in DOMAIN indexTerms
       PROVE  \E f \in QuantFree, g \in Instances(theory, c, [v \in {getUVars(theory, c)[1]} |-> indexTerms[i]]) :
                 SameText(theory, f, g)
  <2> DEFINE sigma == [v \in {getUVars(theory, c)[1]} |-> indexTerms[i]]
  <2>1. i \in 1 .. Len(indexTerms)
    BY <1>1
  <2>2. Inserted(theory, c, sigma)
    BY <1>8, <1>10, <2>1 DEF Covered
  <2> HIDE DEF sigma
  <2>3. PICK g : g \in Instances(theory, c, sigma) /\ Listed(theory, g)
    BY <2>2 DEF Inserted
  <2>4. PICK f \in QuantFree : SameText(theory, f, g)
    BY <1>9, <2>3
  <2> QED BY <2>3, <2>4 DEF sigma
<1>11. \A c \in Clauses : Len(getUVars(theory, c)) = 0 => \E f \in QuantFree : SameText(theory, f, c)
  BY <1>8, <1>9 DEF Covered
<1> QED BY <1>6, <1>7, <1>10, <1>11

LEMMA MainKeeps == MainSpec => []MainInv
<1>1. MainInit => MainInv
  BY InitMain
<1>2. MainInv /\ [MainNext]_<<readerVars, mainVars>> => MainInv'
  BY NextMain
<1> QED BY <1>1, <1>2, PTL DEF MainSpec

(* From the first file to the formulae built, with injection, generation,  *)
(* propagation and instantiation between: the node table, the map of names *)
(* and the lists of variables and literals agree, and no node is made of   *)
(* itself.                                                                 *)
THEOREM TablesSound == MainSpec => []TableSound
<1>1. MainInv => TableSound
  BY SoundTable DEF MainInv, Fine
<1> QED BY <1>1, MainKeeps, PTL

(* Injecting and cloning collect the indices of the accesses they make as  *)
(* reading does, on the side each access is marked for, so that those      *)
(* instantiated with are all there were.                                   *)
THEOREM IndexTermsSound == MainSpec => []IndexSound
<1>1. MainInv => IndexSound
  BY RightIndexes DEF MainInv, Fine
<1> QED BY <1>1, MainKeeps, PTL

(* Whatever main makes of a theory, every node is a node the grammar could *)
(* have made and every id in a field is one of the table.                  *)
THEOREM TheoryTyped == MainSpec => []TypeOK
<1>1. MainInv => TypeOK
  BY RightIsTyped DEF MainInv, Fine
<1> QED BY <1>1, MainKeeps, PTL

(* No step of main removes a node or changes what an id stands for:        *)
(* generating and cloning append, propagation sets flags.                  *)
THEOREM MainIdsStay == MainSpec => IdsStay
<1>1. MainInit => MainInv
  BY InitMain
<1>2. MainInv /\ [MainNext]_<<readerVars, mainVars>> => MainInv'
  BY NextMain
<1>3. MainInv /\ [MainNext]_<<readerVars, mainVars>> => [TableGrows]_theory
  BY NextMain DEF TableGrows, Grows
<1> QED BY <1>1, <1>2, <1>3, PTL DEF MainSpec, IdsStay

(* For every theory read, every set of rules and every bound: what         *)
(* generateVocab generates is relations of two different terms that some   *)
(* rule joins, each of fewer operations than the bound, and every two      *)
(* variables or constants that a rule relates have their formula.          *)
THEOREM VocabularySound == MainSpec => []GeneratedSound
BY MainGenerated, MainKeeps, PTL

(* For every theory: when the passes of propagateElementAttribute end      *)
(* without an exit, the accesses and, constants aside, what chains of      *)
(* relations connect to them, however long and in whichever order the      *)
(* table has them, are elements, nothing that is not connected is one, and *)
(* no index term but a constant is compared with one.                      *)
THEOREM ElementsSound == MainSpec => []ElementsConnected
<1>1. ASSUME MainInv, status = "propagated"
      PROVE  ElementsConnected
  <2> DEFINE A == Accesses(theory)
             R == Reached(theory, A)
  <2>1. Good(theory) /\ Elements(theory) = R
        /\ \A r \in Relations(theory) :
              Operands(theory, r) \cap R # {} => Operands(theory, r) \cap IndexUsed(theory) = {}
    BY <1>1 DEF MainInv, ExactElements, Fine, Settled
  <2>2. Neighbours(theory, R) = R /\ A \subseteq R
    BY <2>1, ReachedClosed DEF Accesses
  <2> HIDE DEF A, R
  <2>3. ASSUME NEW r \in Relations(theory), Operands(theory, r) \cap R # {}
        PROVE  Operands(theory, r) \subseteq R \ IndexUsed(theory)
    BY <2>1, <2>2, <2>3 DEF Neighbours
  <2> QED BY <2>1, <2>2, <2>3 DEF ElementsConnected, A, R
<1>2. MainInv => ElementsConnected
  BY <1>1 DEF ElementsConnected
<1> QED BY <1>2, MainKeeps, PTL

(* For every theory, vocabulary and list of index terms: each formula of   *)
(* the quantifier-free vocabulary is a clause that had no universal        *)
(* variable or one with the same index term for a variable wherever it     *)
(* stands, though shared nodes are cloned once for every occurrence; no    *)
(* text is there twice; and a clause with one occurrence has its instance  *)
(* for each index term.                                                    *)
THEOREM QuantFreeSound == MainSpec => []QuantFreeExact
BY MainFreed, MainKeeps, PTL
===============================================================================
