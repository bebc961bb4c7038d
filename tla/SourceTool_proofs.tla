-------------------------- MODULE SourceTool_proofs --------------------------
(***************************************************************************)
(* Proofs about the two programs of src/src.  Instrumentation: when its    *)
(* places are in order, every character of every line is written once and  *)
(* in its place.  Extraction: what is recorded of a function is exactly    *)
(* what its expressions say, in whichever order operands are evaluated.    *)
(***************************************************************************)
EXTENDS TypeTheory, Instrument, WellFoundedInduction, TLAPS

(* Induction, from the least number outside a set.                         *)
LEMMA LeastNat ==
    ASSUME NEW T \in SUBSET Nat, T # {}
    PROVE  \E n \in T : \A m \in T : n <= m
<1> DEFINE R == OpToRel(<, Nat)
<1>1. IsWellFoundedOn(R, Nat)
  BY NatLessThanWellFounded
<1>2. \A x, y \in Nat : x < y => <<x, y>> \in R
  BY DEF OpToRel
<1> HIDE DEF R
<1>3. PICK n \in T : \A m \in T : ~ (<<m, n>> \in R)
  BY <1>1, WFMin
<1>4. ASSUME NEW m \in T
      PROVE  n <= m
  <2>1. m \in Nat /\ n \in Nat
    OBVIOUS
  <2>2. ~ (m < n)
    BY <1>2, <1>3, <2>1
  <2> QED BY <2>1, <2>2
<1> QED BY <1>4

LEMMA Induction ==
    ASSUME NEW T, 0 \in T, \A n \in Nat : n \in T => n + 1 \in T
    PROVE  Nat \subseteq T
<1> SUFFICES ASSUME Nat \ T # {} PROVE FALSE
  OBVIOUS
<1> DEFINE Out == Nat \ T
<1>1. Out \in SUBSET Nat /\ Out # {}
  OBVIOUS
<1> HIDE DEF Out
<1>2. PICK n \in Out : \A m \in Out : n <= m
  BY <1>1, LeastNat
<1>3. n \in Nat /\ n \notin T /\ n # 0
  BY <1>2 DEF Out
<1>4. n - 1 \in Nat /\ n - 1 \notin Out
  BY <1>1, <1>2, <1>3
<1>5. n - 1 \in T
  BY <1>4 DEF Out
<1> QED BY <1>3, <1>4, <1>5

-------------------------------------------------------------------------------
(* Sorting: some arrangement of the declarations is in order, so sort has  *)
(* one to choose.  The next declaration is inserted before the first that  *)
(* it is earlier than.                                                     *)

Arranges(p, v, m) ==
    /\ p \in [1 .. m -> 1 .. m]
    /\ \A i, j \in 1 .. m : p[i] = p[j] => i = j
    /\ \A i, j \in 1 .. m : i < j => ~ Earlier(v[p[j]], v[p[i]])

LEMMA EarlierOrder ==
    /\ \A a \in Place : ~ Earlier(a, a)
    /\ \A a, b, c \in Place : Earlier(a, b) /\ Earlier(b, c) => Earlier(a, c)
    /\ \A a, b, c \in Place : Earlier(a, b) /\ ~ Earlier(c, b) => ~ Earlier(c, a)
BY DEF Earlier, Place

LEMMA Inserted ==
    ASSUME NEW v \in Seq(Place), NEW m \in Nat, m + 1 <= Len(v), NEW p, Arranges(p, v, m)
    PROVE  \E q : Arranges(q, v, m + 1)
<1> DEFINE new == v[m + 1]
           Later == {k \in 1 .. m : Earlier(new, v[p[k]])} \cup {m + 1}
<1>1. /\ new \in Place
      /\ \A k \in 1 .. m : v[p[k]] \in Place
  <2>1. m + 1 \in DOMAIN v /\ \A k \in 1 .. m : k \in DOMAIN v
    OBVIOUS
  <2>2. \A k \in 1 .. m : p[k] \in 1 .. m
    BY DEF Arranges
  <2> QED BY <2>1, <2>2
<1>2. PICK r \in Later : \A k \in Later : r <= k
  <2>1. Later \in SUBSET Nat /\ Later # {}
    OBVIOUS
  <2> QED BY <2>1, LeastNat
<1>3. /\ r \in 1 .. m + 1
      /\ r # m + 1 => Earlier(new, v[p[r]])
      /\ \A k \in 1 .. r - 1 : ~ Earlier(new, v[p[k]])
  BY <1>2
<1> HIDE DEF Later
<1> DEFINE q == [k \in 1 .. m + 1 |-> IF k < r THEN p[k] ELSE IF k = r THEN m + 1 ELSE p[k - 1]]
<1>4. q \in [1 .. m + 1 -> 1 .. m + 1]
  BY <1>3 DEF Arranges
<1>5. ASSUME NEW i \in 1 .. m + 1, NEW j \in 1 .. m + 1, q[i] = q[j]
      PROVE  i = j
  <2> DEFINE old(k) == IF k < r THEN k ELSE k - 1
  <2>1. ASSUME NEW k \in 1 .. m + 1, k # r
        PROVE  old(k) \in 1 .. m /\ q[k] = p[old(k)] /\ p[old(k)] \in 1 .. m
    <3>1. old(k) \in 1 .. m
      BY <1>3, <2>1
    <3>2. q[k] = p[old(k)]
      BY <2>1
    <3>3. \A j2 \in 1 .. m : p[j2] \in 1 .. m
      BY DEF Arranges
    <3> QED BY <3>1, <3>2, <3>3
  <2>2. q[r] = m + 1
    BY <1>3
  <2>3. CASE i = r \/ j = r
    <3>1. \A k \in 1 .. m : k # m + 1
      OBVIOUS
    <3> HIDE DEF old, q
    <3> QED BY <1>5, <2>1, <2>2, <2>3, <3>1
  <2>4. CASE i # r /\ j # r
    <3>1. old(i) = old(j)
      <4> HIDE DEF old, q
      <4> QED BY <1>5, <2>1, <2>4 DEF Arranges
    <3> QED BY <1>3, <2>4, <3>1
  <2> QED BY <2>3, <2>4
<1>6. ASSUME NEW i \in 1 .. m + 1, NEW j \in 1 .. m + 1, i < j
      PROVE  ~ Earlier(v[q[j]], v[q[i]])
  <2>1. \A a, b \in 1 .. m : a < b => ~ Earlier(v[p[b]], v[p[a]])
    BY DEF Arranges
  <2>2. CASE j < r
    BY <1>6, <1>3, <2>1, <2>2
  <2>3. CASE j = r
    <3>1. i \in 1 .. r - 1 /\ q[i] = p[i] /\ q[j] = m + 1
      BY <1>6, <1>3, <2>3
    <3> QED BY <1>3, <3>1
  <2>4. CASE j > r
    <3>1. j - 1 \in 1 .. m /\ q[j] = p[j - 1]
      BY <1>6, <1>3, <2>4
    <3>2. CASE i < r
      BY <1>6, <1>3, <2>1, <2>4, <3>1, <3>2
    <3>3. CASE i > r
      <4>1. i - 1 \in 1 .. m /\ q[i] = p[i - 1] /\ i - 1 < j - 1
        BY <1>6, <1>3, <3>3
      <4> QED BY <2>1, <3>1, <4>1
    <3>4. CASE i = r
      <4>1. q[i] = m + 1 /\ r \in 1 .. m /\ Earlier(new, v[p[r]])
        BY <1>6, <1>3, <2>4, <3>4
      <4>2. ~ Earlier(v[p[j - 1]], v[p[r]])
        <5>1. CASE j - 1 = r
          BY <5>1, <1>1, <4>1, EarlierOrder
        <5>2. CASE j - 1 # r
          BY <5>2, <2>1, <2>4, <3>1, <4>1
        <5> QED BY <5>1, <5>2
      <4> QED BY <1>1, <3>1, <4>1, <4>2, EarlierOrder
    <3> QED BY <1>3, <3>2, <3>3, <3>4
  <2> QED BY <1>3, <2>2, <2>3, <2>4
<1>7. Arranges(q, v, m + 1)
  BY <1>4, <1>5, <1>6 DEF Arranges
<1> QED BY <1>7

LEMMA SortedRight ==
    ASSUME NEW v \in Seq(Place)
    PROVE  /\ Sorted(v) \in Seq(Place)
           /\ \A i, j \in DOMAIN Sorted(v) : i < j => ~ Earlier(Sorted(v)[j], Sorted(v)[i])
<1> DEFINE T == {m \in Nat : m <= Len(v) => \E p : Arranges(p, v, m)}
           C == {[k \in DOMAIN v |-> v[p[k]]] :
                    p \in {q \in [DOMAIN v -> DOMAIN v] : \A i, j \in DOMAIN v : q[i] = q[j] => i = j}}
           InOrder(s) == \A i, j \in DOMAIN s : i < j => ~ Earlier(s[j], s[i])
<1>1. 0 \in T
  <2>1. Arranges(<<>>, v, 0)
    BY DEF Arranges
  <2> QED BY <2>1
<1>2. \A m \in Nat : m \in T => m + 1 \in T
  BY Inserted
<1>3. Nat \subseteq T
  <2> HIDE DEF T
  <2> QED BY <1>1, <1>2, Induction
<1>4. Len(v) \in Nat /\ DOMAIN v = 1 .. Len(v)
  OBVIOUS
<1>5. PICK p : Arranges(p, v, Len(v))
  BY <1>3, <1>4
<1>6. [k \in DOMAIN v |-> v[p[k]]] \in C
  BY <1>4, <1>5 DEF Arranges
<1>7. InOrder([k \in DOMAIN v |-> v[p[k]]])
  BY <1>4, <1>5 DEF Arranges
<1>8. Sorted(v) = CHOOSE s \in C : InOrder(s)
  BY DEF Sorted
<1>9. Sorted(v) \in C /\ InOrder(Sorted(v))
  <2> HIDE DEF C, InOrder
  <2> QED BY <1>6, <1>7, <1>8
<1>10. \A s \in C : s \in Seq(Place)
  <2> SUFFICES ASSUME NEW q \in [DOMAIN v -> DOMAIN v]
               PROVE  [k \in DOMAIN v |-> v[q[k]]] \in Seq(Place)
    OBVIOUS
  <2>1. [k \in DOMAIN v |-> v[q[k]]] \in [1 .. Len(v) -> Place]
    BY <1>4
  <2> QED BY <1>4, <2>1
<1> QED BY <1>9, <1>10

-------------------------------------------------------------------------------
(* Pieces that stand for the columns from .. to of a line, in order.       *)

Piece == {"text", "var", "return", "type"} \X Int

Covers(pieces, n, from, to) ==
    /\ pieces \in Seq(Piece)
    /\ \A k \in DOMAIN pieces : Columns(pieces[k], n) \subseteq from .. to
    /\ \A c \in from .. to : \E k \in DOMAIN pieces : c \in Columns(pieces[k], n)
    /\ \A i, j \in DOMAIN pieces : i < j =>
          \A c \in Columns(pieces[i], n), d \in Columns(pieces[j], n) : c < d

LEMMA Concatenation ==
    ASSUME NEW S, NEW p \in Seq(S), NEW q \in Seq(S)
    PROVE  /\ p \o q \in Seq(S)
           /\ DOMAIN (p \o q) = 1 .. Len(p) + Len(q)
           /\ \A k \in 1 .. Len(p) : (p \o q)[k] = p[k]
           /\ \A k \in Len(p) + 1 .. Len(p) + Len(q) :
                 k - Len(p) \in DOMAIN q /\ (p \o q)[k] = q[k - Len(p)]
           /\ \A k \in DOMAIN q : (p \o q)[Len(p) + k] = q[k] /\ Len(p) + k \in DOMAIN (p \o q)
OBVIOUS

LEMMA CoversBoth ==
    ASSUME NEW n, NEW from \in Int, NEW middle \in Int, NEW to \in Int,
           from <= middle + 1, middle <= to,
           NEW p, Covers(p, n, from, middle), NEW q, Covers(q, n, middle + 1, to)
    PROVE  Covers(p \o q, n, from, to)
<1> DEFINE r == p \o q
           Col(x) == Columns(x, n)
<1>1. p \in Seq(Piece) /\ q \in Seq(Piece) /\ Len(p) \in Nat /\ Len(q) \in Nat
      /\ DOMAIN p = 1 .. Len(p) /\ DOMAIN q = 1 .. Len(q)
  BY DEF Covers
<1>2. /\ r \in Seq(Piece)
      /\ DOMAIN r = 1 .. Len(p) + Len(q)
      /\ \A k \in 1 .. Len(p) : r[k] = p[k]
      /\ \A k \in Len(p) + 1 .. Len(p) + Len(q) : k - Len(p) \in DOMAIN q /\ r[k] = q[k - Len(p)]
      /\ \A k \in DOMAIN q : r[Len(p) + k] = q[k] /\ Len(p) + k \in DOMAIN r
  BY <1>1, Concatenation
<1>3. /\ \A k \in DOMAIN p : Col(p[k]) \subseteq from .. middle
      /\ \A c \in from .. middle : \E k \in DOMAIN p : c \in Col(p[k])
      /\ \A i, j \in DOMAIN p : i < j => \A c \in Col(p[i]), d \in Col(p[j]) : c < d
      /\ \A k \in DOMAIN q : Col(q[k]) \subseteq middle + 1 .. to
      /\ \A c \in middle + 1 .. to : \E k \in DOMAIN q : c \in Col(q[k])
      /\ \A i, j \in DOMAIN q : i < j => \A c \in Col(q[i]), d \in Col(q[j]) : c < d
  BY DEF Covers
<1> HIDE DEF r, Col
<1>4. \A k \in DOMAIN r : Col(r[k]) \subseteq from .. to
  <2> SUFFICES ASSUME NEW k \in DOMAIN r, NEW c \in Col(r[k]) PROVE c \in from .. to
    OBVIOUS
  <2>1. CASE k <= Len(p)
    BY <2>1, <1>1, <1>2, <1>3
  <2>2. CASE ~ (k <= Len(p))
    <3>1. k \in Len(p) + 1 .. Len(p) + Len(q)
      BY <2>2, <1>1, <1>2
    <3>2. k - Len(p) \in DOMAIN q /\ r[k] = q[k - Len(p)]
      BY <1>2, <3>1
    <3>3. c \in middle + 1 .. to
      BY <1>3, <3>2
    <3> QED BY <3>3
  <2> QED BY <2>1, <2>2
<1>5. ASSUME NEW c \in from .. to
      PROVE  \E k \in DOMAIN r : c \in Col(r[k])
  <2>1. CASE c <= middle
    <3>1. PICK k \in DOMAIN p : c \in Col(p[k])
      BY <1>3, <2>1
    <3> QED BY <1>1, <1>2, <3>1
  <2>2. CASE ~ (c <= middle)
    <3>1. PICK k \in DOMAIN q : c \in Col(q[k])
      BY <1>3, <2>2
    <3> QED BY <1>2, <3>1
  <2> QED BY <2>1, <2>2
<1>6. ASSUME NEW i \in DOMAIN r, NEW j \in DOMAIN r, i < j, NEW c \in Col(r[i]), NEW d \in Col(r[j])
      PROVE  c < d
  <2>1. CASE j <= Len(p)
    <3>1. i \in DOMAIN p /\ j \in DOMAIN p /\ r[i] = p[i] /\ r[j] = p[j]
      BY <1>6, <2>1, <1>1, <1>2
    <3> QED BY <1>3, <1>6, <3>1
  <2>2. CASE i > Len(p)
    <3>1. /\ i - Len(p) \in DOMAIN q /\ r[i] = q[i - Len(p)]
          /\ j - Len(p) \in DOMAIN q /\ r[j] = q[j - Len(p)]
          /\ i - Len(p) < j - Len(p)
      <4>1. /\ i \in Len(p) + 1 .. Len(p) + Len(q) /\ j \in Len(p) + 1 .. Len(p) + Len(q)
            /\ i - Len(p) < j - Len(p)
        BY <1>6, <2>2, <1>1, <1>2
      <4> QED BY <1>2, <4>1
    <3> QED BY <1>3, <1>6, <3>1
  <2>3. CASE i <= Len(p) /\ j > Len(p)
    <3>1. /\ i \in DOMAIN p /\ r[i] = p[i]
          /\ j - Len(p) \in DOMAIN q /\ r[j] = q[j - Len(p)]
      BY <1>6, <2>3, <1>1, <1>2
    <3>2. c \in from .. middle /\ d \in middle + 1 .. to
      BY <1>3, <1>6, <3>1
    <3> QED BY <3>2
  <2> QED BY <1>1, <1>2, <2>1, <2>2, <2>3
<1> QED BY <1>2, <1>4, <1>5, <1>6 DEF Covers, r, Col

LEMMA TextPieces ==
    ASSUME NEW from \in Nat, NEW count \in Nat
    PROVE  LET p == [k \in 1 .. count |-> <<"text", from + k - 1>>]
           IN  /\ p \in Seq(Piece) /\ Len(p) = count
               /\ \A k \in 1 .. count : p[k] = <<"text", from + k - 1>>
BY DEF Piece

LEMMA TextCovers ==
    ASSUME NEW n, NEW from \in Nat, NEW count \in Nat, NEW p \in Seq(Piece), Len(p) = count,
           \A k \in 1 .. count : p[k] = <<"text", from + k - 1>>
    PROVE  Covers(p, n, from, from + count - 1)
<1>1. p \in Seq(Piece) /\ Len(p) = count /\ DOMAIN p = 1 .. count
  OBVIOUS
<1>2. \A k \in 1 .. count : p[k] = <<"text", from + k - 1>>
  OBVIOUS
<1>3. \A k \in 1 .. count : Columns(p[k], n) = {from + k - 1}
  BY <1>2 DEF Columns
<1>4. \A c \in from .. from + count - 1 : c - from + 1 \in 1 .. count /\ from + (c - from + 1) - 1 = c
  OBVIOUS
<1>5. \A c \in from .. from + count - 1 : c \in Columns(p[c - from + 1], n)
  BY <1>3, <1>4
<1>6. ASSUME NEW k \in 1 .. count
      PROVE  Columns(p[k], n) \subseteq from .. from + count - 1
  <2>1. from + k - 1 \in from .. from + count - 1
    OBVIOUS
  <2> QED BY <1>3, <2>1
<1>7. ASSUME NEW i \in 1 .. count, NEW j \in 1 .. count, i < j,
             NEW c \in Columns(p[i], n), NEW d \in Columns(p[j], n)
      PROVE  c < d
  <2>1. c = from + i - 1 /\ d = from + j - 1
    BY <1>3, <1>7
  <2> QED BY <1>7, <2>1
<1> QED BY <1>1, <1>2, <1>4, <1>5, <1>6, <1>7 DEF Covers

LEMMA PieceCovers ==
    ASSUME NEW n, NEW piece \in Piece, NEW from, NEW to, Columns(piece, n) = from .. to
    PROVE  Covers(<<piece>>, n, from, to)
<1>1. <<piece>> \in Seq(Piece) /\ DOMAIN <<piece>> = {1} /\ <<piece>>[1] = piece
  OBVIOUS
<1>2. \A k \in DOMAIN <<piece>> : k = 1 /\ Columns(<<piece>>[k], n) = from .. to
  BY <1>1
<1>3. ASSUME NEW i \in DOMAIN <<piece>>, NEW j \in DOMAIN <<piece>>, i < j
      PROVE  FALSE
  BY <1>2, <1>3
<1>4. 1 \in DOMAIN <<piece>>
  OBVIOUS
<1> DEFINE p == <<piece>>
<1> HIDE DEF p
<1>5. Covers(p, n, from, to)
  BY <1>1, <1>2, <1>3, <1>4 DEF Covers, p
<1> QED BY <1>5 DEF p

-------------------------------------------------------------------------------
(* The function's type: what precedes the first blank behind it is text as *)
(* it was.                                                                 *)

TypeBlanks(n) == {b \in source.lines[n].blanks : b >= source.function.col}

TextUpTo(pieces, m) == m \in 0 .. Len(pieces) /\ \A k \in 1 .. m : pieces[k] = <<"text", k - 1>>

LEMMA TypeReplaced ==
    ASSUME source \in Source, NEW n \in DOMAIN source.lines, n = currentLine,
           NEW pieces, Covers(pieces, n, 0, line.length - 1),
           NEW m, TextUpTo(pieces, m), m = Len(pieces) \/ \E b \in TypeBlanks(n) : b < m,
           ReplaceType(pieces) # <<>>
    PROVE  Covers(ReplaceType(pieces), n, 0, line.length - 1)
<1> DEFINE col == source.function.col
           Blank(k) == pieces[k][1] = "text" /\ pieces[k][2] \in line.blanks
           blanks == {k \in DOMAIN pieces : k > col /\ Blank(k)}
           last == line.length - 1
<1>0. pieces \in Seq(Piece) /\ Len(pieces) \in Nat /\ DOMAIN pieces = 1 .. Len(pieces)
  BY DEF Covers
<1>m. /\ m \in Nat /\ m <= Len(pieces)
      /\ \A k \in 1 .. m : pieces[k] = <<"text", k - 1>>
  <2>1. m \in 0 .. Len(pieces)
    BY DEF TextUpTo
  <2>2. \A k \in 1 .. m : pieces[k] = <<"text", k - 1>>
    BY DEF TextUpTo
  <2>3. m \in Nat /\ m <= Len(pieces)
    <3>1. \A L \in Nat : m \in 0 .. L => m \in Nat /\ m <= L
      OBVIOUS
    <3> QED BY <1>0, <2>1, <3>1
  <2> QED BY <2>2, <2>3
<1>1. /\ col \in Nat /\ col >= 1
      /\ line \in TextLine /\ line = source.lines[n]
  BY DEF Source, line
<1>2. line.length \in Nat /\ line.blanks \subseteq 0 .. last
  BY <1>1 DEF TextLine
<1>3. blanks # {} /\ blanks \in SUBSET Nat
  BY <1>0 DEF ReplaceType
<1>4. PICK first \in blanks : \A k \in blanks : first <= k
  BY <1>3, LeastNat
<1>5. (CHOOSE k \in blanks : \A j \in blanks : k <= j) = first
  <2>1. \A k \in blanks : (\A j \in blanks : k <= j) => k = first
    BY <1>3, <1>4
  <2> QED BY <1>4, <2>1
<1>6. /\ first \in 1 .. Len(pieces) /\ first > col
      /\ pieces[first][1] = "text" /\ pieces[first][2] \in line.blanks
  BY <1>0, <1>4
<1>7. first <= m
  <2>1. CASE m = Len(pieces)
    BY <2>1, <1>6
  <2>2. CASE \E b \in TypeBlanks(n) : b < m
    <3>1. PICK b \in TypeBlanks(n) : b < m
      BY <2>2
    <3>2. b \in line.blanks /\ b \in Nat /\ b >= col
      BY <1>1, <1>2, <3>1 DEF TypeBlanks
    <3>3. b + 1 \in 1 .. m /\ b + 1 \in DOMAIN pieces /\ b + 1 > col
      <4>1. b + 1 \in 1 .. m /\ b + 1 > col /\ m \in Nat /\ m <= Len(pieces)
        BY <1>m, <1>1, <3>1, <3>2
      <4>2. \A L \in Nat : m <= L => b + 1 \in 1 .. L
        BY <4>1
      <4> QED BY <1>0, <4>1, <4>2
    <3>4. pieces[b + 1] = <<"text", b>>
      <4>1. PICK k \in 1 .. m : k = b + 1 /\ k - 1 = b
        BY <3>2, <3>3
      <4>2. pieces[k] = <<"text", k - 1>>
        BY <1>m
      <4> QED BY <4>1, <4>2
    <3>5. b + 1 \in blanks
      BY <3>2, <3>3, <3>4
    <3>6. first <= b + 1
      BY <1>4, <3>5
    <3> QED BY <1>6, <1>m, <3>1, <3>2, <3>6
  <2> QED BY <2>1, <2>2
<1>8. \A k \in 1 .. first : pieces[k] = <<"text", k - 1>> /\ Columns(pieces[k], n) = {k - 1}
  <2> SUFFICES ASSUME NEW k \in 1 .. first
               PROVE  pieces[k] = <<"text", k - 1>> /\ Columns(pieces[k], n) = {k - 1}
    OBVIOUS
  <2>1. k \in 1 .. m
    BY <1>6, <1>7, <1>m
  <2>2. pieces[k] = <<"text", k - 1>>
    BY <2>1, <1>m
  <2> QED BY <2>2 DEF Columns
<1>9. first - 1 \in line.blanks
  BY <1>6, <1>8
<1> HIDE DEF blanks
<1> DEFINE tb == TypeBlanks(n)
<1>10. first - 1 \in tb /\ \A c \in tb : first - 1 <= c
  <2>1. first - 1 \in tb
    BY <1>1, <1>6, <1>9 DEF TypeBlanks
  <2>2. ASSUME NEW c \in tb, c < first - 1
        PROVE  FALSE
    <3>1. c \in line.blanks /\ c >= col /\ c \in Nat
      BY <1>1, <1>2 DEF TypeBlanks
    <3>2. c + 1 \in 1 .. first /\ c + 1 \in DOMAIN pieces
      BY <1>0, <1>6, <2>2, <3>1
    <3>3. pieces[c + 1] = <<"text", c>>
      <4>1. PICK k \in 1 .. first : k = c + 1 /\ k - 1 = c
        BY <3>1, <3>2
      <4>2. pieces[k] = <<"text", k - 1>>
        BY <1>8
      <4> QED BY <4>1, <4>2
    <3>4. c + 1 \in blanks
      BY <1>1, <3>1, <3>2, <3>3 DEF blanks
    <3> QED BY <1>4, <1>6, <2>2, <3>1, <3>4
  <2>3. \A c \in tb : c \in Int
    BY <1>1, <1>2 DEF TypeBlanks
  <2> QED BY <1>6, <2>1, <2>2, <2>3
<1>11. Columns(<<"type", 0>>, n) = col - 1 .. first - 1
  <2>1. \A b \in tb : (\A c \in tb : b <= c) => b = first - 1
    BY <1>1, <1>2, <1>6, <1>10 DEF TypeBlanks
  <2>2. (CHOOSE b \in tb : \A c \in tb : b <= c) = first - 1
    BY <1>10, <2>1
  <2> QED BY <2>2 DEF Columns, TypeBlanks
<1> DEFINE front == SubSeq(pieces, 1, col - 1)
           back == SubSeq(pieces, first + 1, Len(pieces))
<1>12. ReplaceType(pieces) = front \o <<<<"type", 0>>>> \o back
  BY <1>3, <1>5 DEF ReplaceType, blanks
<1>13. /\ front \in Seq(Piece) /\ Len(front) = col - 1 /\ col - 1 \in Nat
       /\ \A k \in 1 .. col - 1 : front[k] = pieces[k] /\ k \in 1 .. first
  <2>1. 1 \in Nat /\ col - 1 \in 0 .. Len(pieces) /\ col - 1 \in Nat /\ col - 1 < first
    BY <1>0, <1>1, <1>6
  <2>2. front = [k \in 1 .. col - 1 |-> pieces[k]]
    BY <1>0, <2>1
  <2>3. \A k \in 1 .. col - 1 : k \in DOMAIN pieces /\ k \in 1 .. first
    BY <1>0, <1>6, <2>1
  <2> HIDE DEF front
  <2>4. front \in [1 .. col - 1 -> Piece]
    BY <1>0, <2>2, <2>3
  <2>5. \A k \in 1 .. col - 1 : front[k] = pieces[k]
    BY <2>2
  <2>6. front \in Seq(Piece) /\ Len(front) = col - 1
    BY <2>1, <2>4
  <2> QED BY <2>1, <2>3, <2>5, <2>6
<1>14. Covers(front, n, 0, col - 2)
  <2> HIDE DEF front
  <2>1. \A k \in 1 .. col - 1 : front[k] = <<"text", k - 1>>
    BY <1>8, <1>13
  <2>2. \A k \in 1 .. col - 1 : 0 + k - 1 = k - 1
    OBVIOUS
  <2>3. \A k \in 1 .. col - 1 : front[k] = <<"text", 0 + k - 1>>
    BY <2>1, <2>2
  <2> DEFINE len == col - 1
  <2>4. len \in Nat /\ Len(front) = len /\ \A k \in 1 .. len : front[k] = <<"text", 0 + k - 1>>
    BY <1>13, <2>3
  <2> HIDE DEF len
  <2>5. Covers(front, n, 0, 0 + len - 1)
    BY <1>13, <2>4, TextCovers
  <2>6. 0 + len - 1 = col - 2
    BY <1>1 DEF len
  <2> QED BY <2>5, <2>6
<1>15. Covers(<<<<"type", 0>>>>, n, col - 1, first - 1)
  <2>1. <<"type", 0>> \in Piece
    BY DEF Piece
  <2> QED BY <1>11, <2>1, PieceCovers
<1>16. Covers(front \o <<<<"type", 0>>>>, n, 0, first - 1)
  <2>1. col - 1 = (col - 2) + 1 /\ col - 2 \in Int /\ first - 1 \in Int /\ 0 <= (col - 2) + 1 /\ col - 2 <= first - 1
    BY <1>1, <1>6
  <2>2. Covers(<<<<"type", 0>>>>, n, (col - 2) + 1, first - 1)
    BY <1>15, <2>1
  <2> HIDE DEF front
  <2> QED BY <1>14, <2>1, <2>2, CoversBoth
<1>17. /\ back \in Seq(Piece) /\ DOMAIN back = 1 .. Len(pieces) - first
       /\ \A k \in DOMAIN back : back[k] = pieces[first + k] /\ first + k \in DOMAIN pieces
  <2>1. back = [k \in 1 .. Len(pieces) - first |-> pieces[first + k]]
    BY <1>0, <1>6
  <2>2. \A k \in 1 .. Len(pieces) - first : first + k \in DOMAIN pieces
    BY <1>0, <1>6
  <2>3. Len(pieces) - first \in Nat
    BY <1>0, <1>6
  <2> HIDE DEF back
  <2>4. back \in [1 .. Len(pieces) - first -> Piece]
    BY <1>0, <2>1, <2>2
  <2> QED BY <2>1, <2>2, <2>3, <2>4
<1> HIDE DEF front, back
<1>18. Covers(back, n, first, last)
  <2> DEFINE Col(x) == Columns(x, n)
  <2>1. /\ \A k \in DOMAIN pieces : Col(pieces[k]) \subseteq 0 .. last
        /\ \A c \in 0 .. last : \E k \in DOMAIN pieces : c \in Col(pieces[k])
        /\ \A i, j \in DOMAIN pieces : i < j => \A c \in Col(pieces[i]), d \in Col(pieces[j]) : c < d
    BY DEF Covers
  <2>2. \A k \in 1 .. first : Col(pieces[k]) = {k - 1}
    BY <1>8
  <2> HIDE DEF Col
  <2>3. ASSUME NEW k \in DOMAIN back, NEW c \in Col(back[k])
        PROVE  c \in first .. last
    <3>1. first + k \in DOMAIN pieces /\ back[k] = pieces[first + k] /\ first < first + k
      BY <1>6, <1>17
    <3>2. c \in 0 .. last
      BY <2>1, <2>3, <3>1
    <3>3. first - 1 \in Col(pieces[first]) /\ first \in DOMAIN pieces
      BY <1>0, <1>6, <2>2
    <3>4. first - 1 < c
      BY <2>1, <2>3, <3>1, <3>3
    <3> QED BY <1>2, <1>6, <3>2, <3>4
  <2>4. ASSUME NEW c \in first .. last
        PROVE  \E k \in DOMAIN back : c \in Col(back[k])
    <3>1. PICK k \in DOMAIN pieces : c \in Col(pieces[k])
      BY <1>6, <2>1
    <3>2. k > first
      <4>1. ~ (k \in 1 .. first)
        BY <1>6, <2>2, <2>4, <3>1
      <4> QED BY <1>0, <1>6, <4>1
    <3>3. k - first \in DOMAIN back /\ first + (k - first) = k
      BY <1>0, <1>6, <1>17, <3>2
    <3>4. back[k - first] = pieces[k]
      BY <1>17, <3>3
    <3> QED BY <3>1, <3>3, <3>4
  <2>5. ASSUME NEW i \in DOMAIN back, NEW j \in DOMAIN back, i < j,
               NEW c \in Col(back[i]), NEW d \in Col(back[j])
        PROVE  c < d
    <3>1. first + i \in DOMAIN pieces /\ first + j \in DOMAIN pieces /\ first + i < first + j
      BY <1>6, <1>17, <2>5
    <3> QED BY <1>17, <2>1, <2>5, <3>1
  <2> QED BY <1>17, <2>3, <2>4, <2>5 DEF Covers, Col
<1>19. first - 1 <= last /\ last \in Int /\ first - 1 \in Int
  BY <1>2, <1>6, <1>9
<1>20. Covers(back, n, (first - 1) + 1, last)
  <2>1. (first - 1) + 1 = first
    BY <1>6
  <2> QED BY <1>18, <2>1
<1>21. 0 <= (first - 1) + 1
  BY <1>6
<1> HIDE DEF last
<1>22. Covers((front \o <<<<"type", 0>>>>) \o back, n, 0, last)
  BY <1>16, <1>19, <1>20, <1>21, CoversBoth
<1> QED BY <1>12, <1>22 DEF last

-------------------------------------------------------------------------------
(* The invariant.  The buffer holds the line up to prevDeclEnd, all that   *)
(* remains to be replaced on the line lies behind it, and what lies on     *)
(* earlier lines was replaced: the declarations because they are sorted,   *)
(* the returns because WellPlaced says so.                                 *)

Typed ==
    /\ source \in Source
    /\ \A i, j \in DOMAIN source.vars : i < j => ~ Earlier(source.vars[j], source.vars[i])
    /\ currentVar \in 1 .. Len(source.vars) + 1
    /\ currentReturn \in 1 .. Len(source.returns) + 1
    /\ progress \in {"declarations", "returns", "done", "undefined", "crashed"}

Progress ==
    /\ currentLine \in 1 .. Len(source.lines) + 1
    /\ progress = "returns" => currentLine <= Len(source.lines)
    /\ progress = "done" => currentLine = Len(source.lines) + 1
    /\ \A k \in currentVar .. Len(source.vars) :
          /\ source.vars[k].line >= currentLine
          /\ progress = "returns" => source.vars[k].line > currentLine
    /\ \A k \in currentReturn .. Len(source.returns) : source.returns[k].line >= currentLine

Written ==
    /\ output \in Seq(Seq(Piece)) /\ Len(output) = currentLine - 1
    /\ \A n \in 1 .. currentLine - 1 : Covers(output[n], n, 0, source.lines[n].length - 1)

Prefixed(pieces, n) ==
    n = source.function.line /\ pieces # <<>> => \E b \in TypeBlanks(n) : TextUpTo(pieces, b + 1)

Ahead(cursor, places) ==
    \A k \in cursor .. Len(places) : places[k].line = currentLine => prevDeclEnd < places[k].col - 1

Buffer ==
    currentLine <= Len(source.lines) =>
        /\ prevDeclEnd \in -1 .. source.lines[currentLine].length - 1
        /\ Covers(instrumented_line, currentLine, 0, prevDeclEnd)
        /\ Prefixed(instrumented_line, currentLine)
        /\ Ahead(currentVar, source.vars) /\ Ahead(currentReturn, source.returns)

Placed == Progress /\ Written /\ Buffer

(* Where the places are in order nothing is thrown.                        *)
IInv ==
    /\ Typed
    /\ WellPlaced => progress # "crashed" /\ (progress # "undefined" => Placed)

IsPlace(at) ==
    \/ \E k \in DOMAIN source.vars : at = source.vars[k]
    \/ \E k \in DOMAIN source.returns : at = source.returns[k]

LEMMA LineTyped ==
    ASSUME source \in Source, NEW n \in DOMAIN source.lines
    PROVE  /\ source.lines[n] \in TextLine
           /\ source.lines[n].length \in Nat
           /\ source.lines[n].stops \subseteq 0 .. source.lines[n].length - 1
           /\ source.lines[n].blanks \subseteq 0 .. source.lines[n].length - 1
<1>1. source.lines[n] \in TextLine
  BY DEF Source
<1> QED BY <1>1 DEF TextLine

LEMMA PlaceFacts ==
    ASSUME source \in Source, WellPlaced, NEW at, IsPlace(at)
    PROVE  /\ at \in Place
           /\ at.line \in DOMAIN source.lines
           /\ at.col \in 1 .. source.lines[at.line].length
           /\ \E c \in source.lines[at.line].stops : c >= at.col - 1
           /\ End(at) \in at.col - 1 .. source.lines[at.line].length - 1
           /\ at.line = source.function.line => \E b \in TypeBlanks(at.line) : b <= at.col - 2
<1> DEFINE L == source.lines[at.line]
           stops == {c \in L.stops : c >= at.col - 1}
<1>1. at \in Place
  BY DEF Source, IsPlace
<1>2. /\ at.line \in DOMAIN source.lines
      /\ at.col \in 1 .. L.length
      /\ \E c \in L.stops : c >= at.col - 1
      /\ at.line = source.function.line => \E b \in L.blanks : b \in source.function.col .. at.col - 2
  BY DEF WellPlaced, IsPlace
<1>3. L.length \in Nat /\ L.stops \subseteq 0 .. L.length - 1 /\ L.blanks \subseteq 0 .. L.length - 1
  BY <1>2, LineTyped
<1>4. stops # {} /\ stops \in SUBSET Nat
  BY <1>2, <1>3
<1>5. PICK first \in stops : \A d \in stops : first <= d
  BY <1>4, LeastNat
<1>6. \A c \in stops : (\A d \in stops : c <= d) => c = first
  BY <1>4, <1>5
<1>7. End(at) = first
  <2>1. End(at) = CHOOSE c \in stops : \A d \in stops : c <= d
    BY DEF End
  <2> HIDE DEF stops
  <2> QED BY <1>5, <1>6, <2>1
<1>8. at.line = source.function.line => \E b \in TypeBlanks(at.line) : b <= at.col - 2
  <2> SUFFICES ASSUME at.line = source.function.line
               PROVE  \E b \in TypeBlanks(at.line) : b <= at.col - 2
    OBVIOUS
  <2>1. PICK b \in L.blanks : b \in source.function.col .. at.col - 2
    BY <1>2
  <2>2. source.function.col \in Nat
    BY DEF Source
  <2>3. b >= source.function.col /\ b <= at.col - 2
    BY <1>2, <2>1, <2>2
  <2> QED BY <2>1, <2>3 DEF TypeBlanks
<1> QED BY <1>1, <1>2, <1>3, <1>5, <1>7, <1>8

(* One more place rewritten.                                               *)
LEMMA RewriteStep ==
    ASSUME source \in Source, WellPlaced, currentLine \in DOMAIN source.lines,
           NEW at, IsPlace(at), at.line = currentLine,
           NEW piece \in Piece, Columns(piece, currentLine) = at.col - 1 .. End(at),
           prevDeclEnd \in -1 .. line.length - 1, prevDeclEnd < at.col - 1,
           Covers(instrumented_line, currentLine, 0, prevDeclEnd),
           Prefixed(instrumented_line, currentLine),
           Rewrite(at, piece)
    PROVE  /\ prevDeclEnd' = End(at)
           /\ Covers(instrumented_line', currentLine, 0, End(at))
           /\ Prefixed(instrumented_line', currentLine)
<1> DEFINE beg == at.col - 1
           count == beg - prevDeclEnd - 1
           text == Substr(prevDeclEnd + 1, count)
           old == instrumented_line
           n == currentLine
<1>1. /\ at \in Place /\ line = source.lines[at.line] /\ line.length \in Nat
      /\ at.col \in 1 .. line.length
      /\ \E c \in line.stops : c >= beg
      /\ End(at) \in beg .. line.length - 1
      /\ at.line = source.function.line => \E b \in TypeBlanks(at.line) : b <= at.col - 2
  BY PlaceFacts, LineTyped DEF line
<1>2. prevDeclEnd' = End(at)
  <2>1. DeclarationEnd(beg) = End(at)
    BY <1>1 DEF DeclarationEnd, End
  <2> QED BY <2>1 DEF Rewrite
<1>3. /\ beg \in 0 .. line.length - 1 /\ count \in Nat /\ prevDeclEnd + 1 \in Nat
      /\ prevDeclEnd + 1 + count = beg
      /\ prevDeclEnd \in Int /\ count \in Int
  <2>1. line.length \in Nat /\ at.col \in 1 .. line.length
    BY <1>1
  <2>2. prevDeclEnd \in Int /\ prevDeclEnd >= -1 /\ prevDeclEnd < beg
    BY <2>1
  <2>3. beg \in 0 .. line.length - 1 /\ beg \in Int
    BY <2>1
  <2> HIDE DEF beg
  <2>4. count \in Nat /\ prevDeclEnd + 1 \in Nat /\ prevDeclEnd + 1 + count = beg /\ count \in Int
    BY <2>2, <2>3
  <2> QED BY <2>2, <2>3, <2>4
<1>4. text = [k \in 1 .. count |-> <<"text", prevDeclEnd + 1 + k - 1>>]
  <2>1. ~ (count < 0) /\ ~ (prevDeclEnd + 1 + count > line.length)
        /\ (prevDeclEnd + 1 + count) - (prevDeclEnd + 1) = count
    <3>1. beg <= line.length /\ beg \in Int /\ line.length \in Int
      <4>1. at.col \in 1 .. line.length /\ line.length \in Nat
        BY <1>1
      <4> QED BY <4>1
    <3>2. count \in Nat /\ prevDeclEnd \in Int /\ prevDeclEnd + 1 + count = beg
      BY <1>3
    <3> HIDE DEF beg, count
    <3>3. ~ (count < 0) /\ prevDeclEnd + 1 \in Int
      BY <3>2
    <3>4. ~ (prevDeclEnd + 1 + count > line.length)
      BY <3>1, <3>2
    <3>5. (prevDeclEnd + 1 + count) - (prevDeclEnd + 1) = count
      BY <3>2
    <3> QED BY <3>3, <3>4, <3>5
  <2> QED BY <2>1 DEF Substr
<1>5. /\ Covers(text, n, prevDeclEnd + 1, beg - 1)
      /\ Len(text) = count
      /\ \A k \in 1 .. count : text[k] = <<"text", prevDeclEnd + 1 + k - 1>>
  <2>1. /\ Covers(text, n, prevDeclEnd + 1, prevDeclEnd + 1 + count - 1)
        /\ Len(text) = count
        /\ \A k \in 1 .. count : text[k] = <<"text", prevDeclEnd + 1 + k - 1>>
    <3> DEFINE from == prevDeclEnd + 1
    <3>1. from \in Nat /\ count \in Nat
      BY <1>3
    <3>2. text = [k \in 1 .. count |-> <<"text", from + k - 1>>]
      BY <1>4
    <3> HIDE DEF text, count, from
    <3>3. /\ text \in Seq(Piece) /\ Len(text) = count
          /\ \A k \in 1 .. count : text[k] = <<"text", from + k - 1>>
      BY <3>1, <3>2, TextPieces
    <3>4. Covers(text, n, from, from + count - 1)
      BY <3>1, <3>3, TextCovers
    <3> QED BY <3>3, <3>4 DEF from
  <2>2. prevDeclEnd + 1 + count - 1 = beg - 1
    BY <1>3
  <2> QED BY <2>1, <2>2
<1>6. instrumented_line' = (old \o text) \o <<piece>>
  BY DEF Rewrite
<1>7. prevDeclEnd \in Int /\ beg \in Int /\ beg - 1 \in Int /\ End(at) \in Int
      /\ 0 <= prevDeclEnd + 1 /\ prevDeclEnd <= beg - 1 /\ 0 <= beg - 1 + 1 /\ beg - 1 <= End(at)
      /\ beg - 1 + 1 = beg
  <2>1. beg \in Int /\ End(at) \in Int /\ beg <= End(at) /\ beg >= 0
    BY <1>1, <1>3
  <2>2. prevDeclEnd \in Int /\ prevDeclEnd >= -1 /\ prevDeclEnd < beg
    BY <1>1, <1>3
  <2> HIDE DEF beg, count
  <2> QED BY <2>1, <2>2
<1> HIDE DEF text, count, beg
<1>8. Covers(old \o text, n, 0, beg - 1)
  BY <1>5, <1>7, CoversBoth
<1>9. Covers(<<piece>>, n, beg - 1 + 1, End(at))
  BY <1>7, PieceCovers DEF beg
<1>10. Covers((old \o text) \o <<piece>>, n, 0, End(at))
  BY <1>7, <1>8, <1>9, CoversBoth
<1>11. ASSUME n = source.function.line
       PROVE  \E b \in TypeBlanks(n) : TextUpTo(instrumented_line', b + 1)
  <2>1. /\ old \in Seq(Piece) /\ text \in Seq(Piece) /\ <<piece>> \in Seq(Piece)
    BY <1>5 DEF Covers
  <2> DEFINE new == (old \o text) \o <<piece>>
  <2>2. /\ Len(new) \in Nat /\ Len(new) >= Len(old) + Len(text)
        /\ \A k \in 1 .. Len(old) : new[k] = old[k]
        /\ \A k \in 1 .. Len(text) : new[Len(old) + k] = text[k]
    BY <2>1
  <2>n. Len(old) \in Nat /\ Len(text) \in Nat
    BY <2>1
  <2> HIDE DEF new
  <2>3. CASE old # <<>>
    <3>1. PICK b \in TypeBlanks(n) : TextUpTo(old, b + 1)
      BY <1>11, <2>3 DEF Prefixed
    <3>2. TextUpTo(new, b + 1)
      <4>1. b + 1 \in 0 .. Len(old) /\ \A k \in 1 .. b + 1 : old[k] = <<"text", k - 1>>
        BY <3>1 DEF TextUpTo
      <4>2. \A l, m \in Nat : l <= m => 0 .. l \subseteq 0 .. m
        OBVIOUS
      <4>3. Len(old) <= Len(new)
        BY <2>2, <2>n
      <4>4. b + 1 \in 0 .. Len(new)
        BY <2>2, <2>n, <4>1, <4>2, <4>3
      <4>5. \A k \in 1 .. b + 1 : k \in 1 .. Len(old)
        BY <2>n, <4>1
      <4> QED BY <2>2, <4>1, <4>4, <4>5 DEF TextUpTo
    <3> QED BY <1>6, <3>2 DEF new
  <2>4. CASE old = <<>>
    <3>1. prevDeclEnd = -1
      <4>1. \A c \in 0 .. prevDeclEnd : \E k \in DOMAIN old : TRUE
        BY DEF Covers
      <4>2. DOMAIN old = {}
        BY <2>4
      <4>3. 0 \notin 0 .. prevDeclEnd
        BY <4>1, <4>2
      <4> QED BY <4>3
    <3>2. PICK b \in TypeBlanks(n) : b <= at.col - 2
      BY <1>1, <1>11
    <3>3. b \in Nat
      BY <3>2, LineTyped DEF TypeBlanks
    <3>4. Len(old) = 0 /\ count = beg /\ b + 1 <= beg
      BY <1>1, <1>3, <2>4, <3>1, <3>2, <3>3 DEF beg
    <3>5. ASSUME NEW k \in 1 .. b + 1
          PROVE  new[k] = <<"text", k - 1>>
      <4>1. k \in 1 .. count /\ prevDeclEnd + 1 + k - 1 = k - 1
        BY <1>1, <1>3, <3>1, <3>3, <3>4
      <4>2. Len(old) + k = k
        BY <3>4
      <4>3. new[k] = text[k]
        BY <1>5, <2>2, <4>1, <4>2
      <4> QED BY <1>5, <4>1, <4>3
    <3>6. b + 1 \in 0 .. Len(new)
      BY <1>3, <1>5, <2>2, <3>3, <3>4
    <3>7. TextUpTo(new, b + 1)
      BY <3>5, <3>6 DEF TextUpTo
    <3> QED BY <1>6, <3>2, <3>7 DEF new
  <2> QED BY <2>3, <2>4
<1> QED BY <1>2, <1>6, <1>10, <1>11 DEF Prefixed

-------------------------------------------------------------------------------
(* The steps                                                               *)

LEMMA SourceStays ==
    ASSUME source' = source
    PROVE  WellPlaced' <=> WellPlaced
BY DEF WellPlaced, Clear, End, Earlier

LEMMA CoversStays ==
    ASSUME source' = source, NEW p, NEW n, NEW a, NEW e, Covers(p, n, a, e)
    PROVE  Covers(p, n, a, e)'
<1>1. \A at : End(at)' = End(at)
  BY DEF End
<1>2. \A piece : Columns(piece, n)' = Columns(piece, n)
  BY <1>1 DEF Columns
<1> QED BY <1>2 DEF Covers

LEMMA PrefixedStays ==
    ASSUME source' = source, NEW p, NEW n, Prefixed(p, n)
    PROVE  Prefixed(p, n)'
BY DEF Prefixed, TypeBlanks, TextUpTo

LEMMA Lengths ==
    ASSUME Typed
    PROVE  /\ Len(source.lines) \in Nat /\ DOMAIN source.lines = 1 .. Len(source.lines)
           /\ Len(source.vars) \in Nat /\ DOMAIN source.vars = 1 .. Len(source.vars)
           /\ Len(source.returns) \in Nat /\ DOMAIN source.returns = 1 .. Len(source.returns)
           /\ \A k \in DOMAIN source.vars : source.vars[k] \in Place
           /\ \A k \in DOMAIN source.returns : source.returns[k] \in Place
BY DEF Typed, Source

LEMMA Remaining ==
    ASSUME Typed
    PROVE  /\ \A k \in currentVar .. Len(source.vars) : k \in DOMAIN source.vars /\ currentVar <= k
           /\ \A k \in currentReturn .. Len(source.returns) : k \in DOMAIN source.returns /\ currentReturn <= k
<1>1. \A m \in Nat : \A c \in 1 .. m + 1 : \A k \in c .. m : k \in 1 .. m /\ c <= k
  OBVIOUS
<1> QED BY <1>1, Lengths DEF Typed

LEMMA Initially == InstrumentInit => IInv
<1> SUFFICES ASSUME InstrumentInit PROVE IInv
  OBVIOUS
<1>1. PICK s \in Sources : source = [s EXCEPT !.vars = Sorted(s.vars)]
  BY DEF InstrumentInit
<1>2. s \in Source /\ s.vars \in Seq(Place)
  BY SourcesAssumption DEF Source
<1>3. /\ Sorted(s.vars) \in Seq(Place)
      /\ \A i, j \in DOMAIN Sorted(s.vars) : i < j => ~ Earlier(Sorted(s.vars)[j], Sorted(s.vars)[i])
  BY <1>2, SortedRight
<1>4. source \in Source /\ source.vars = Sorted(s.vars)
  BY <1>1, <1>2, <1>3 DEF Source
<1>5. Typed
  <2>1. Len(source.vars) \in Nat /\ Len(source.returns) \in Nat
    BY <1>4 DEF Source
  <2> QED BY <1>3, <1>4, <2>1 DEF Typed, InstrumentInit
<1>6. ASSUME WellPlaced
      PROVE  Placed
  <2>1. currentLine = 1 /\ currentVar = 1 /\ currentReturn = 1 /\ prevDeclEnd = -1
        /\ instrumented_line = <<>> /\ output = <<>> /\ progress = "declarations"
    BY DEF InstrumentInit
  <2>2. \A at : IsPlace(at) => /\ at.line \in DOMAIN source.lines
                               /\ at.col \in 1 .. source.lines[at.line].length
    BY <1>4, <1>6, PlaceFacts
  <2>3. \A k \in 1 .. Len(source.vars) : IsPlace(source.vars[k])
    BY <1>5, Lengths DEF IsPlace
  <2>4. \A k \in 1 .. Len(source.returns) : IsPlace(source.returns[k])
    BY <1>5, Lengths DEF IsPlace
  <2>5. \A n \in DOMAIN source.lines : n \in Nat /\ n >= 1
    BY <1>5, Lengths
  <2>6. Progress
    BY <1>5, <2>1, <2>2, <2>3, <2>4, <2>5, Lengths DEF Progress
  <2>7. Written
    BY <2>1 DEF Written
  <2>8. ASSUME 1 <= Len(source.lines)
        PROVE  Buffer
    <3>1. source.lines[1].length \in Nat
      BY <1>4, <1>5, <2>8, LineTyped, Lengths
    <3>2. Covers(<<>>, 1, 0, -1)
      BY DEF Covers
    <3>3. Ahead(1, source.vars) /\ Ahead(1, source.returns)
      <4>1. ASSUME NEW at, IsPlace(at)
            PROVE  -1 < at.col - 1
        <5>1. at.line \in DOMAIN source.lines /\ at.col \in 1 .. source.lines[at.line].length
          BY <2>2, <4>1
        <5>2. source.lines[at.line].length \in Nat
          BY <1>4, <5>1, LineTyped
        <5> QED BY <5>1, <5>2
      <4> QED BY <2>1, <2>3, <2>4, <4>1 DEF Ahead
    <3> QED BY <2>1, <3>1, <3>2, <3>3 DEF Buffer, Prefixed
  <2> QED BY <2>1, <2>6, <2>7, <2>8 DEF Placed, Buffer
<1> QED BY <1>5, <1>6 DEF IInv, InstrumentInit

(* A place of the line is replaced: those before the cursor are settled,   *)
(* those behind it lie behind the new end.                                 *)
LEMMA DeclarationStep ==
    ASSUME Typed, WellPlaced, Placed, instrument_declaration
    PROVE  Placed'
<1> DEFINE at == source.vars[currentVar]
           L == source.lines[currentLine]
<1>1. /\ progress = "declarations" /\ currentLine <= Len(source.lines)
      /\ currentVar \in DOMAIN source.vars /\ at.line = currentLine
      /\ currentVar' = currentVar + 1
      /\ Rewrite(at, <<"var", currentVar>>)
      /\ UNCHANGED <<source, currentLine, currentReturn, output, progress>>
  BY Lengths DEF instrument_declaration, Due, Typed
<1>2. /\ currentLine \in DOMAIN source.lines /\ currentLine \in Nat
      /\ source \in Source /\ IsPlace(at) /\ L = line
  BY <1>1, Lengths DEF Typed, Placed, Progress, IsPlace, line
<1>3. /\ prevDeclEnd \in -1 .. line.length - 1
      /\ Covers(instrumented_line, currentLine, 0, prevDeclEnd)
      /\ Prefixed(instrumented_line, currentLine)
      /\ Ahead(currentVar, source.vars) /\ Ahead(currentReturn, source.returns)
  BY <1>1 DEF Placed, Buffer, line
<1>4. /\ at \in Place /\ line.length \in Nat
      /\ at.col \in 1 .. line.length /\ End(at) \in at.col - 1 .. line.length - 1
  BY <1>1, <1>2, PlaceFacts, LineTyped
<1>5. prevDeclEnd < at.col - 1
  <2>1. currentVar \in currentVar .. Len(source.vars)
    BY <1>1, Lengths
  <2> QED BY <1>1, <1>3, <2>1 DEF Ahead
<1>6. <<"var", currentVar>> \in Piece /\ Columns(<<"var", currentVar>>, currentLine) = at.col - 1 .. End(at)
  <2>1. currentVar \in Int
    BY <1>1, Lengths
  <2> QED BY <2>1 DEF Piece, Columns
<1>7. /\ prevDeclEnd' = End(at)
      /\ Covers(instrumented_line', currentLine, 0, End(at))
      /\ Prefixed(instrumented_line', currentLine)
  BY <1>1, <1>2, <1>3, <1>5, <1>6, RewriteStep
<1>8. Progress'
  BY <1>1, Lengths DEF Placed, Progress, Typed
<1>9. Written'
  <2>1. \A n \in 1 .. currentLine - 1 : Covers(output[n], n, 0, source.lines[n].length - 1)'
    BY <1>1, CoversStays DEF Placed, Written
  <2> QED BY <1>1, <2>1 DEF Placed, Written
<1>10. Buffer'
  <2>1. (prevDeclEnd \in -1 .. source.lines[currentLine].length - 1)'
    BY <1>1, <1>2, <1>4, <1>7
  <2>2. Covers(instrumented_line, currentLine, 0, prevDeclEnd)'
    <3>1. \A p, n, a, e : Covers(p, n, a, e) => Covers(p, n, a, e)'
      BY <1>1, CoversStays
    <3> QED BY <1>1, <1>7, <3>1
  <2>3. Prefixed(instrumented_line, currentLine)'
    BY <1>1, <1>7 DEF Prefixed, TypeBlanks, TextUpTo
  <2>4. \A k \in currentVar + 1 .. Len(source.vars) : k \in DOMAIN source.vars /\ currentVar < k
    BY <1>1, Lengths
  <2>5. \A k \in currentReturn .. Len(source.returns) : k \in DOMAIN source.returns
    BY Lengths DEF Typed
  <2>6. \A k \in currentVar + 1 .. Len(source.vars) : Clear(at, source.vars[k])
    BY <1>1, <2>4 DEF WellPlaced
  <2>7. \A k \in currentReturn .. Len(source.returns) : Clear(at, source.returns[k])
    BY <1>1, <2>5 DEF WellPlaced
  <2>8. Ahead(currentVar, source.vars)'
    BY <1>1, <1>7, <2>6 DEF Ahead, Clear
  <2>9. Ahead(currentReturn, source.returns)'
    BY <1>1, <1>7, <2>7 DEF Ahead, Clear
  <2> QED BY <2>1, <2>2, <2>3, <2>8, <2>9 DEF Buffer
<1> QED BY <1>8, <1>9, <1>10 DEF Placed

LEMMA NoMoreStep ==
    ASSUME Typed, WellPlaced, Placed, no_more_declarations
    PROVE  Placed'
<1>1. /\ progress' = "returns" /\ currentLine <= Len(source.lines)
      /\ ~ Due(currentVar, source.vars)
      /\ UNCHANGED <<source, currentLine, currentVar, currentReturn, prevDeclEnd, instrumented_line, output>>
  BY DEF no_more_declarations
<1>2. ASSUME NEW k \in currentVar .. Len(source.vars)
      PROVE  source.vars[k].line > currentLine
  <2>1. currentVar \in DOMAIN source.vars /\ k \in DOMAIN source.vars /\ currentVar <= k
    BY Lengths DEF Typed
  <2>2. source.vars[currentVar].line # currentLine /\ source.vars[currentVar].line >= currentLine
        /\ currentLine \in Int
    BY <1>1, <2>1, Lengths DEF Due, Placed, Progress
  <2>3. source.vars[currentVar].line \in Int /\ source.vars[k].line \in Int
    BY <2>1, Lengths DEF Place
  <2>4. ~ Earlier(source.vars[k], source.vars[currentVar]) \/ k = currentVar
    BY <2>1, Lengths DEF Typed
  <2> QED BY <2>2, <2>3, <2>4 DEF Earlier
<1>3. Progress'
  BY <1>1, <1>2, Lengths DEF Placed, Progress, Typed
<1>4. Written'
  <2>1. \A n \in 1 .. currentLine - 1 : Covers(output[n], n, 0, source.lines[n].length - 1)'
    BY <1>1, CoversStays DEF Placed, Written
  <2> QED BY <1>1, <2>1 DEF Placed, Written
<1>5. Buffer'
  <2>1. Covers(instrumented_line, currentLine, 0, prevDeclEnd)'
    BY <1>1, CoversStays DEF Placed, Buffer
  <2>2. Prefixed(instrumented_line, currentLine)'
    BY <1>1, PrefixedStays DEF Placed, Buffer
  <2> QED BY <1>1, <2>1, <2>2 DEF Placed, Buffer, Ahead
<1> QED BY <1>3, <1>4, <1>5 DEF Placed

LEMMA ReturnStep ==
    ASSUME Typed, WellPlaced, Placed, instrument_return
    PROVE  Placed'
<1> DEFINE at == source.returns[currentReturn]
           L == source.lines[currentLine]
<1>1. /\ progress = "returns" /\ currentLine <= Len(source.lines)
      /\ currentReturn \in DOMAIN source.returns /\ at.line = currentLine
      /\ currentReturn' = currentReturn + 1
      /\ Rewrite(at, <<"return", currentReturn>>)
      /\ UNCHANGED <<source, currentLine, currentVar, output, progress>>
  BY Lengths DEF instrument_return, Due, Typed, Placed, Progress
<1>2. /\ currentLine \in DOMAIN source.lines /\ currentLine \in Nat
      /\ source \in Source /\ IsPlace(at) /\ L = line
  BY <1>1, Lengths DEF Typed, Placed, Progress, IsPlace, line
<1>3. /\ prevDeclEnd \in -1 .. line.length - 1
      /\ Covers(instrumented_line, currentLine, 0, prevDeclEnd)
      /\ Prefixed(instrumented_line, currentLine)
      /\ Ahead(currentVar, source.vars) /\ Ahead(currentReturn, source.returns)
  BY <1>1 DEF Placed, Buffer, line
<1>4. /\ at \in Place /\ line.length \in Nat
      /\ at.col \in 1 .. line.length /\ End(at) \in at.col - 1 .. line.length - 1
  BY <1>1, <1>2, PlaceFacts, LineTyped
<1>5. prevDeclEnd < at.col - 1
  <2>1. currentReturn \in currentReturn .. Len(source.returns)
    BY <1>1, Lengths
  <2> QED BY <1>1, <1>3, <2>1 DEF Ahead
<1>6. <<"return", currentReturn>> \in Piece
      /\ Columns(<<"return", currentReturn>>, currentLine) = at.col - 1 .. End(at)
  <2>1. currentReturn \in Int
    BY <1>1, Lengths
  <2> QED BY <2>1 DEF Piece, Columns
<1>7. /\ prevDeclEnd' = End(at)
      /\ Covers(instrumented_line', currentLine, 0, End(at))
      /\ Prefixed(instrumented_line', currentLine)
  BY <1>1, <1>2, <1>3, <1>5, <1>6, RewriteStep
<1>8. Progress'
  BY <1>1, Lengths DEF Placed, Progress, Typed
<1>9. Written'
  <2>1. \A n \in 1 .. currentLine - 1 : Covers(output[n], n, 0, source.lines[n].length - 1)'
    BY <1>1, CoversStays DEF Placed, Written
  <2> QED BY <1>1, <2>1 DEF Placed, Written
<1>10. Buffer'
  <2>1. (prevDeclEnd \in -1 .. source.lines[currentLine].length - 1)'
    BY <1>1, <1>2, <1>4, <1>7
  <2>2. Covers(instrumented_line, currentLine, 0, prevDeclEnd)'
    <3>1. \A p, n, a, e : Covers(p, n, a, e) => Covers(p, n, a, e)'
      BY <1>1, CoversStays
    <3> QED BY <1>1, <1>7, <3>1
  <2>3. Prefixed(instrumented_line, currentLine)'
    BY <1>1, <1>7 DEF Prefixed, TypeBlanks, TextUpTo
  <2>4. \A k \in currentReturn + 1 .. Len(source.returns) : k \in DOMAIN source.returns /\ currentReturn < k
    BY <1>1, Lengths
  <2>5. \A k \in currentReturn + 1 .. Len(source.returns) : Clear(at, source.returns[k])
    BY <1>1, <2>4 DEF WellPlaced
  <2>6. Ahead(currentReturn, source.returns)'
    BY <1>1, <1>7, <2>5 DEF Ahead, Clear
  <2>7. Ahead(currentVar, source.vars)'
    <3>1. \A k \in currentVar .. Len(source.vars) : source.vars[k].line # currentLine
      <4>1. \A k \in currentVar .. Len(source.vars) : source.vars[k].line > currentLine /\ k \in DOMAIN source.vars
        BY <1>1, Remaining DEF Placed, Progress
      <4>2. \A k \in DOMAIN source.vars : source.vars[k].line \in Int
        BY Lengths DEF Place
      <4> QED BY <1>2, <4>1, <4>2
    <3> QED BY <1>1, <3>1 DEF Ahead
  <2> QED BY <2>1, <2>2, <2>3, <2>6, <2>7 DEF Buffer
<1> QED BY <1>8, <1>9, <1>10 DEF Placed

LEMMA EndStep ==
    ASSUME Typed, WellPlaced, Placed, end_of_file
    PROVE  Placed'
<1>1. /\ progress' = "done" /\ progress = "declarations" /\ currentLine > Len(source.lines)
      /\ UNCHANGED <<source, currentLine, currentVar, currentReturn, prevDeclEnd, instrumented_line, output>>
  BY DEF end_of_file
<1>2. Progress'
  BY <1>1, Lengths DEF Placed, Progress, Typed
<1>3. Written'
  <2>1. \A n \in 1 .. currentLine - 1 : Covers(output[n], n, 0, source.lines[n].length - 1)'
    BY <1>1, CoversStays DEF Placed, Written
  <2> QED BY <1>1, <2>1 DEF Placed, Written
<1>4. Buffer'
  BY <1>1, Lengths DEF Placed, Progress, Buffer
<1> QED BY <1>2, <1>3, <1>4 DEF Placed

(* The rest of the line is added, and the function's type replaced.        *)
LEMMA LineStep ==
    ASSUME Typed, WellPlaced, Placed, write_line, progress' # "undefined"
    PROVE  Placed'
<1> DEFINE n == currentLine
           count == line.length - 1 - prevDeclEnd
           text == Substr(prevDeclEnd + 1, count)
           pieces == instrumented_line \o text
           typed == currentLine = source.function.line /\ source.function.type # "void"
           written == IF typed THEN ReplaceType(pieces) ELSE pieces
           last == line.length - 1
<1>1. /\ progress = "returns" /\ ~ Due(currentReturn, source.returns)
      /\ typed => ReplaceType(pieces) # <<>>
      /\ output' = Append(output, written)
      /\ progress' = "declarations"
      /\ currentLine' = currentLine + 1
      /\ prevDeclEnd' = -1 /\ instrumented_line' = <<>>
      /\ UNCHANGED <<source, currentVar, currentReturn>>
  BY DEF write_line
<1>2. /\ n \in DOMAIN source.lines /\ n \in Nat /\ n >= 1 /\ n <= Len(source.lines)
      /\ source \in Source /\ line = source.lines[n] /\ line.length \in Nat
  <2>1. n \in 1 .. Len(source.lines) /\ source \in Source
    BY <1>1, Lengths DEF Placed, Progress, Typed
  <2> QED BY <2>1, Lengths, LineTyped DEF line
<1>3. /\ prevDeclEnd \in -1 .. last
      /\ Covers(instrumented_line, n, 0, prevDeclEnd)
      /\ Prefixed(instrumented_line, n)
  BY <1>2 DEF Placed, Buffer
<1>4. /\ count \in Nat /\ prevDeclEnd + 1 \in Nat /\ prevDeclEnd \in Int
      /\ prevDeclEnd + 1 + count = line.length
      /\ prevDeclEnd <= last /\ last \in Int /\ 0 <= prevDeclEnd + 1
  <2>1. \A l \in Nat : \A e \in -1 .. l - 1 :
          /\ l - 1 - e \in Nat /\ e + 1 \in Nat /\ e \in Int /\ e + 1 + (l - 1 - e) = l
          /\ e <= l - 1 /\ l - 1 \in Int /\ 0 <= e + 1
    OBVIOUS
  <2>2. line.length \in Nat /\ prevDeclEnd \in -1 .. line.length - 1
    BY <1>2, <1>3
  <2> QED BY <2>1, <2>2
<1>5. text = [k \in 1 .. count |-> <<"text", prevDeclEnd + 1 + k - 1>>]
  <2>1. ~ (count < 0) /\ ~ (prevDeclEnd + 1 + count > line.length)
        /\ (prevDeclEnd + 1 + count) - (prevDeclEnd + 1) = count
    <3> HIDE DEF count
    <3> QED BY <1>2, <1>4
  <2> QED BY <2>1 DEF Substr
<1>6. /\ Covers(text, n, prevDeclEnd + 1, last)
      /\ Len(text) = count
      /\ \A k \in 1 .. count : text[k] = <<"text", prevDeclEnd + 1 + k - 1>>
  <2>1. /\ Covers(text, n, prevDeclEnd + 1, prevDeclEnd + 1 + count - 1)
        /\ Len(text) = count
        /\ \A k \in 1 .. count : text[k] = <<"text", prevDeclEnd + 1 + k - 1>>
    <3> DEFINE from == prevDeclEnd + 1
    <3>1. from \in Nat /\ count \in Nat
      BY <1>4
    <3>2. text = [k \in 1 .. count |-> <<"text", from + k - 1>>]
      BY <1>5
    <3> HIDE DEF text, count, from
    <3>3. /\ text \in Seq(Piece) /\ Len(text) = count
          /\ \A k \in 1 .. count : text[k] = <<"text", from + k - 1>>
      BY <3>1, <3>2, TextPieces
    <3>4. Covers(text, n, from, from + count - 1)
      BY <3>1, <3>3, TextCovers
    <3> QED BY <3>3, <3>4 DEF from
  <2>2. prevDeclEnd + 1 + count - 1 = last
    BY <1>2, <1>4
  <2> QED BY <2>1, <2>2
<1> HIDE DEF text, count
<1>7. Covers(pieces, n, 0, last)
  <2> HIDE DEF last
  <2> QED BY <1>3, <1>4, <1>6, CoversBoth
<1>8. ASSUME typed
      PROVE  Covers(ReplaceType(pieces), n, 0, last)
  <2>1. instrumented_line \in Seq(Piece) /\ text \in Seq(Piece)
    BY <1>3, <1>6 DEF Covers
  <2>2. /\ Len(pieces) = Len(instrumented_line) + Len(text)
        /\ \A k \in 1 .. Len(instrumented_line) : pieces[k] = instrumented_line[k]
        /\ \A k \in 1 .. Len(text) : pieces[Len(instrumented_line) + k] = text[k]
        /\ Len(instrumented_line) \in Nat /\ Len(text) \in Nat
    BY <2>1
  <2> HIDE DEF pieces
  <2>3. \E m : TextUpTo(pieces, m) /\ (m = Len(pieces) \/ \E b \in TypeBlanks(n) : b < m)
    <3>1. CASE instrumented_line # <<>>
      <4>1. PICK b \in TypeBlanks(n) : TextUpTo(instrumented_line, b + 1)
        BY <1>3, <1>8, <3>1 DEF Prefixed
      <4>2. b \in Nat /\ b < b + 1
        BY <1>2, <4>1, LineTyped DEF TypeBlanks
      <4>3. b + 1 \in 0 .. Len(instrumented_line)
            /\ \A k \in 1 .. b + 1 : instrumented_line[k] = <<"text", k - 1>>
        BY <4>1 DEF TextUpTo
      <4>4. b + 1 \in 0 .. Len(pieces)
        BY <2>2, <4>2, <4>3
      <4>5. \A k \in 1 .. b + 1 : k \in 1 .. Len(instrumented_line)
        BY <2>2, <4>2, <4>3
      <4>6. TextUpTo(pieces, b + 1)
        BY <2>2, <4>3, <4>4, <4>5 DEF TextUpTo
      <4> QED BY <4>1, <4>2, <4>6
    <3>2. CASE instrumented_line = <<>>
      <4>1. prevDeclEnd = -1
        <5>1. \A c \in 0 .. prevDeclEnd : \E k \in DOMAIN instrumented_line : TRUE
          BY <1>3 DEF Covers
        <5>2. DOMAIN instrumented_line = {}
          BY <3>2
        <5>3. 0 \notin 0 .. prevDeclEnd
          BY <5>1, <5>2
        <5> QED BY <1>3, <1>4, <5>3
      <4>2. Len(instrumented_line) = 0 /\ Len(pieces) = count
        BY <1>4, <1>6, <2>2, <3>2
      <4>3. ASSUME NEW k \in 1 .. Len(pieces)
            PROVE  pieces[k] = <<"text", k - 1>>
        <5>1. k \in 1 .. Len(text) /\ Len(instrumented_line) + k = k /\ prevDeclEnd + 1 + k - 1 = k - 1
          BY <1>4, <1>6, <4>1, <4>2
        <5>2. pieces[k] = text[k]
          BY <2>2, <5>1
        <5> QED BY <1>6, <5>1, <5>2
      <4>4. TextUpTo(pieces, Len(pieces))
        BY <1>4, <4>2, <4>3 DEF TextUpTo
      <4> QED BY <4>4
    <3> QED BY <3>1, <3>2
  <2>4. PICK m : TextUpTo(pieces, m) /\ (m = Len(pieces) \/ \E b \in TypeBlanks(n) : b < m)
    BY <2>3
  <2>5. ReplaceType(pieces) # <<>>
    BY <1>1, <1>8 DEF pieces
  <2> QED BY <1>2, <1>7, <2>4, <2>5, TypeReplaced DEF pieces
<1>9. Covers(written, n, 0, source.lines[n].length - 1)
  BY <1>2, <1>7, <1>8
<1> HIDE DEF pieces, typed, written
<1>10. Written'
  <2>1. output \in Seq(Seq(Piece)) /\ Len(output) = n - 1
        /\ \A i \in 1 .. n - 1 : Covers(output[i], i, 0, source.lines[i].length - 1)
    BY DEF Placed, Written
  <2>2. written \in Seq(Piece)
    BY <1>9 DEF Covers
  <2>3. /\ output' \in Seq(Seq(Piece)) /\ Len(output') = n
        /\ output'[n] = written /\ \A i \in 1 .. n - 1 : output'[i] = output[i]
    BY <1>1, <1>2, <2>1, <2>2
  <2>4. \A i \in 1 .. n : Covers(output'[i], i, 0, source.lines[i].length - 1)
    <3>1. \A i \in 1 .. n : i = n \/ i \in 1 .. n - 1
      BY <1>2
    <3> QED BY <1>9, <2>1, <2>3, <3>1
  <2>5. \A p, i, a, e : Covers(p, i, a, e) => Covers(p, i, a, e)'
    BY <1>1, CoversStays
  <2>6. currentLine' - 1 = n
    BY <1>1, <1>2
  <2> QED BY <1>1, <2>3, <2>4, <2>5, <2>6 DEF Written
<1>11. \A k \in currentReturn .. Len(source.returns) :
          k \in DOMAIN source.returns /\ source.returns[k].line > n
  <2> SUFFICES ASSUME NEW k \in currentReturn .. Len(source.returns)
               PROVE  k \in DOMAIN source.returns /\ source.returns[k].line > n
    OBVIOUS
  <2>1. currentReturn \in DOMAIN source.returns /\ k \in DOMAIN source.returns /\ currentReturn <= k
    BY Lengths DEF Typed
  <2>2. source.returns[currentReturn].line # n /\ source.returns[currentReturn].line >= n
    BY <1>1, <2>1, Lengths DEF Due, Placed, Progress
  <2>3. source.returns[currentReturn].line \in Int /\ source.returns[k].line \in Int
    BY <2>1, Lengths DEF Place
  <2>4. k = currentReturn \/ ~ Earlier(source.returns[k], source.returns[currentReturn])
    BY <2>1, Lengths DEF WellPlaced
  <2> QED BY <1>2, <2>1, <2>2, <2>3, <2>4 DEF Earlier
<1>12. \A k \in currentVar .. Len(source.vars) :
          k \in DOMAIN source.vars /\ source.vars[k].line > n
  <2>1. \A k \in currentVar .. Len(source.vars) : source.vars[k].line > n
    BY <1>1 DEF Placed, Progress
  <2> QED BY <2>1, Remaining
<1>13. Progress'
  <2>1. \A k \in currentVar .. Len(source.vars) : source.vars[k].line \in Int
    BY <1>12, Lengths DEF Place
  <2>2. \A k \in currentReturn .. Len(source.returns) : source.returns[k].line \in Int
    BY <1>11, Lengths DEF Place
  <2>3. \A k \in currentVar .. Len(source.vars) : source.vars[k].line >= n + 1
    BY <1>2, <1>12, <2>1
  <2>4. \A k \in currentReturn .. Len(source.returns) : source.returns[k].line >= n + 1
    BY <1>2, <1>11, <2>2
  <2>5. n + 1 \in 1 .. Len(source.lines) + 1
    BY <1>2
  <2> QED BY <1>1, <2>3, <2>4, <2>5 DEF Progress
<1>14. Buffer'
  <2> SUFFICES ASSUME n + 1 <= Len(source.lines)
               PROVE  Buffer'
    BY <1>1 DEF Buffer
  <2>1. n + 1 \in DOMAIN source.lines
    BY <1>2, Lengths
  <2>2. source.lines[n + 1].length \in Nat
    BY <1>2, <2>1, LineTyped
  <2>3. Covers(<<>>, n + 1, 0, -1)
    BY DEF Covers
  <2>4. \A p, i, a, e : Covers(p, i, a, e) => Covers(p, i, a, e)'
    BY <1>1, CoversStays
  <2>5. ASSUME NEW at, IsPlace(at)
        PROVE  -1 < at.col - 1
    <3>1. at.line \in DOMAIN source.lines /\ at.col \in 1 .. source.lines[at.line].length
      BY <1>2, <2>5, PlaceFacts
    <3>2. source.lines[at.line].length \in Nat
      BY <1>2, <3>1, LineTyped
    <3> QED BY <3>1, <3>2
  <2>6. Ahead(currentVar, source.vars)' /\ Ahead(currentReturn, source.returns)'
    <3>1. \A k \in currentVar .. Len(source.vars) : IsPlace(source.vars[k])
      BY <1>12 DEF IsPlace
    <3>2. \A k \in currentReturn .. Len(source.returns) : IsPlace(source.returns[k])
      BY <1>11 DEF IsPlace
    <3> QED BY <1>1, <2>5, <3>1, <3>2 DEF Ahead
  <2> QED BY <1>1, <2>2, <2>3, <2>4, <2>6 DEF Buffer, Prefixed
<1> QED BY <1>10, <1>13, <1>14 DEF Placed

(* The positions of the line are in it, as is the text of a return.        *)
LEMMA NothingThrown ==
    ASSUME Typed, WellPlaced, Placed
    PROVE  ~ out_of_range
<1> SUFFICES ASSUME out_of_range
             PROVE  FALSE
  OBVIOUS
<1>1. /\ source \in Source /\ currentLine \in DOMAIN source.lines
      /\ currentLine <= Len(source.lines) /\ line = source.lines[currentLine]
  BY Lengths DEF out_of_range, Typed, Placed, Progress, line
<1>2. line.length \in Nat /\ prevDeclEnd \in -1 .. line.length - 1
  BY <1>1, LineTyped DEF Placed, Buffer
<1>3. ~ Outside(prevDeclEnd + 1)
  BY <1>2 DEF Outside
<1>4. ASSUME NEW at, IsPlace(at), at.line = currentLine
      PROVE  /\ ~ Misplaced(at)
             /\ DeclarationLength(at.col - 1) = End(at) - (at.col - 1) + 1
  <2>1. /\ at \in Place /\ at.col \in 1 .. line.length
        /\ \E c \in line.stops : c >= at.col - 1
    BY <1>1, <1>4, PlaceFacts
  <2>2. ~ Outside(at.col - 1)
    BY <1>2, <2>1 DEF Outside
  <2>3. DeclarationEnd(at.col - 1) = End(at)
    BY <1>1, <1>4, <2>1 DEF DeclarationEnd, End
  <2>4. DeclarationLength(at.col - 1) = DeclarationEnd(at.col - 1) - (at.col - 1) + 1
    BY <2>1 DEF DeclarationLength
  <2> QED BY <1>3, <2>2, <2>3, <2>4 DEF Misplaced
<1>5. ~ (Due(currentVar, source.vars) /\ Misplaced(source.vars[currentVar]))
  BY <1>4, Lengths DEF Due, Typed, IsPlace
<1>6. ~ (Due(currentReturn, source.returns) /\ Misplaced(source.returns[currentReturn]))
  BY <1>4, Lengths DEF Due, Typed, IsPlace
<1>7. ~ (Due(currentReturn, source.returns) /\ TooShort(source.returns[currentReturn]))
  <2> SUFFICES ASSUME Due(currentReturn, source.returns), source.function.type # "void"
               PROVE  ~ TooShort(source.returns[currentReturn])
    BY DEF TooShort
  <2> DEFINE at == source.returns[currentReturn]
  <2>1. currentReturn \in DOMAIN source.returns /\ at.line = currentLine /\ IsPlace(at)
    BY Lengths DEF Due, Typed, IsPlace
  <2>2. End(at) - (at.col - 1) + 1 >= ReturnPrefix
    BY <2>1 DEF WellPlaced
  <2>3. End(at) - (at.col - 1) + 1 \in Int
    BY <1>1, <2>1, PlaceFacts, LineTyped DEF Place
  <2>4. DeclarationLength(at.col - 1) = End(at) - (at.col - 1) + 1
    BY <1>4, <2>1
  <2> QED BY <2>2, <2>3, <2>4 DEF TooShort, ReturnPrefix
<1> QED BY <1>3, <1>5, <1>6, <1>7 DEF out_of_range

LEMMA Inductive == IInv /\ [InstrumentNext]_instrumentVars => IInv'
<1> SUFFICES ASSUME IInv, [InstrumentNext]_instrumentVars PROVE IInv'
  OBVIOUS
<1>1. Typed
  BY DEF IInv
<1>2. source' = source
  BY DEF InstrumentNext, instrument_declaration, no_more_declarations, instrument_return, write_line,
     end_of_file, out_of_range, instrumentVars
<1>3. WellPlaced' <=> WellPlaced
  BY <1>2, SourceStays
<1>4. Typed'
  BY <1>1, <1>2, Lengths DEF Typed, Due, InstrumentNext, instrument_declaration, no_more_declarations,
     instrument_return, write_line, end_of_file, out_of_range, instrumentVars
<1>5. ASSUME WellPlaced
      PROVE  progress' # "crashed" /\ (progress' # "undefined" => Placed')
  <2>1. CASE instrument_declaration
    BY <1>1, <1>5, <2>1, DeclarationStep DEF IInv, instrument_declaration
  <2>2. CASE no_more_declarations
    BY <1>1, <1>5, <2>2, NoMoreStep DEF IInv, no_more_declarations
  <2>3. CASE instrument_return
    BY <1>1, <1>5, <2>3, ReturnStep DEF IInv, instrument_return
  <2>4. CASE write_line
    BY <1>1, <1>5, <2>4, LineStep DEF IInv, write_line
  <2>5. CASE end_of_file
    BY <1>1, <1>5, <2>5, EndStep DEF IInv, end_of_file
  <2>6. CASE UNCHANGED instrumentVars
    <3> SUFFICES ASSUME progress' # "undefined"
                 PROVE  progress' # "crashed" /\ Placed'
      BY <1>5, <2>6 DEF IInv, instrumentVars
    <3>1. progress # "undefined" /\ progress' # "crashed" /\ Placed
      BY <1>5, <2>6 DEF IInv, instrumentVars
    <3>2. Progress'
      BY <2>6, <3>1 DEF Placed, Progress, instrumentVars
    <3>3. \A p, n, a, e : Covers(p, n, a, e) => Covers(p, n, a, e)'
      BY <1>2, CoversStays
    <3>4. \A p, n : Prefixed(p, n) => Prefixed(p, n)'
      BY <1>2, PrefixedStays
    <3>5. Written'
      BY <2>6, <3>1, <3>3 DEF Placed, Written, instrumentVars
    <3>6. Buffer'
      BY <2>6, <3>1, <3>3, <3>4 DEF Placed, Buffer, Ahead, instrumentVars
    <3> QED BY <3>1, <3>2, <3>5, <3>6 DEF Placed
  <2>7. CASE out_of_range
    <3>1. Placed
      BY <1>5, <2>7 DEF IInv, out_of_range
    <3> QED BY <1>1, <1>5, <2>7, <3>1, NothingThrown
  <2> QED BY <2>1, <2>2, <2>3, <2>4, <2>5, <2>6, <2>7 DEF InstrumentNext
<1> QED BY <1>3, <1>4, <1>5 DEF IInv

LEMMA Invariant == InstrumentSpec => []IInv
BY Initially, Inductive, PTL DEF InstrumentSpec

LEMMA Kept == IInv => LinesKept
<1> SUFFICES ASSUME IInv, progress = "done", WellPlaced
             PROVE  LinesKept
  BY DEF LinesKept, IInv
<1>1. Typed /\ Progress /\ Written
  BY DEF IInv, Placed
<1>2. /\ currentLine = Len(source.lines) + 1
      /\ Len(source.lines) \in Nat /\ DOMAIN source.lines = 1 .. Len(source.lines)
      /\ source \in Source
  BY <1>1, Lengths DEF Typed, Progress
<1>3. currentVar = Len(source.vars) + 1
  <2> SUFFICES ASSUME currentVar # Len(source.vars) + 1 PROVE FALSE
    OBVIOUS
  <2>1. currentVar \in DOMAIN source.vars /\ currentVar \in currentVar .. Len(source.vars)
    BY <1>1, Lengths DEF Typed
  <2>2. source.vars[currentVar].line \in DOMAIN source.lines
    BY <1>2, <2>1, PlaceFacts DEF IsPlace
  <2>3. source.vars[currentVar].line >= currentLine
    BY <1>1, <2>1 DEF Progress
  <2> QED BY <1>2, <2>2, <2>3
<1>4. currentReturn = Len(source.returns) + 1
  <2> SUFFICES ASSUME currentReturn # Len(source.returns) + 1 PROVE FALSE
    OBVIOUS
  <2>1. currentReturn \in DOMAIN source.returns /\ currentReturn \in currentReturn .. Len(source.returns)
    BY <1>1, Lengths DEF Typed
  <2>2. source.returns[currentReturn].line \in DOMAIN source.lines
    BY <1>2, <2>1, PlaceFacts DEF IsPlace
  <2>3. source.returns[currentReturn].line >= currentLine
    BY <1>1, <2>1 DEF Progress
  <2> QED BY <1>2, <2>2, <2>3
<1>5. ASSUME NEW n \in DOMAIN source.lines
      PROVE  /\ UNION {Columns(output[n][k], n) : k \in DOMAIN output[n]} = 0 .. source.lines[n].length - 1
             /\ \A i, j \in DOMAIN output[n] : i < j =>
                   \A c \in Columns(output[n][i], n), d \in Columns(output[n][j], n) : c < d
  <2>1. Covers(output[n], n, 0, source.lines[n].length - 1)
    BY <1>1, <1>2 DEF Written
  <2> QED BY <2>1 DEF Covers
<1> QED BY <1>3, <1>4, <1>5 DEF LinesKept

(* Every character of every line is written exactly once and in its place, *)
(* as itself or in what replaces it, and everything that was to be         *)
(* replaced is: for every file, function and list of places in order.      *)
THEOREM LinesAreKept == InstrumentSpec => []LinesKept
BY Invariant, Kept, PTL

-----------------------------------------------------------------------------
(* The extraction: definitions by recursion on the height of expressions.  *)

(* step[x, f] looks only at what f is lower than x.                        *)
LooksDown(D, h, R, step) ==
    /\ R # {}
    /\ h \in [D -> Nat]
    /\ step \in [D \X [D -> R] -> R]
    /\ \A x \in D : \A f, g \in [D -> R] :
          (\A y \in D : h[y] < h[x] => f[y] = g[y]) => step[<<x, f>>] = step[<<x, g>>]

(* A function can be defined by recursion on a height: some f is its own   *)
(* next step.                                                              *)
LEMMA Recursion ==
    ASSUME NEW D, NEW h, NEW R, NEW step, LooksDown(D, h, R, step)
    PROVE  \E f \in [D -> R] : \A x \in D : f[x] = step[<<x, f>>]
<1> DEFINE F == [D -> R]
           Right(n, f) == \A x \in D : h[x] < n => f[x] = step[<<x, f>>]
           M == {n \in Nat : \E f \in F : Right(n, f)}
<1>0. /\ \A x \in D : h[x] \in Nat
      /\ \A x \in D, f \in F : step[<<x, f>>] \in R
  BY DEF LooksDown
<1>1. \A x \in D : \A f, g \in F :
         (\A y \in D : h[y] < h[x] => f[y] = g[y]) => step[<<x, f>>] = step[<<x, g>>]
  BY DEF LooksDown
<1>2. 0 \in M
  <2> PICK r \in R : TRUE
    BY DEF LooksDown
  <2> DEFINE f == [x \in D |-> r]
  <2>1. f \in F
    OBVIOUS
  <2>2. Right(0, f)
    BY <1>0
  <2> HIDE DEF f, F, Right
  <2> QED BY <2>1, <2>2
<1>3. ASSUME NEW n \in Nat, n \in M
      PROVE  n + 1 \in M
  <2>1. PICK f \in F : Right(n, f)
    BY <1>3
  <2> DEFINE g == [x \in D |-> step[<<x, f>>]]
  <2>2. g \in F
    BY <1>0
  <2>3. ASSUME NEW x \in D, h[x] < n + 1
        PROVE  g[x] = step[<<x, g>>]
    <3>1. g[x] = step[<<x, f>>]
      OBVIOUS
    <3>2. \A y \in D : h[y] < h[x] => f[y] = g[y]
      <4> SUFFICES ASSUME NEW y \in D, h[y] < h[x] PROVE f[y] = g[y]
        OBVIOUS
      <4>1. h[y] < n
        BY <1>0, <2>3
      <4>2. f[y] = step[<<y, f>>]
        BY <2>1, <4>1
      <4> QED BY <4>2
    <3>3. step[<<x, f>>] = step[<<x, g>>]
      <4> HIDE DEF g, F
      <4> QED BY <1>1, <2>2, <3>2
    <3> QED BY <3>1, <3>3
  <2>4. Right(n + 1, g)
    <3> HIDE DEF g
    <3> QED BY <2>3
  <2> HIDE DEF g, F, Right
  <2> QED BY <2>2, <2>4
<1>4. Nat \subseteq M
  <2> HIDE DEF M
  <2> QED BY <1>2, <1>3, Induction
<1>5. ASSUME NEW n \in Nat, NEW m \in Nat, NEW f \in F, NEW g \in F, Right(n, f), Right(m, g)
      PROVE  \A x \in D : h[x] < n /\ h[x] < m => f[x] = g[x]
  <2> DEFINE K == {k \in Nat : \A x \in D : h[x] < k /\ h[x] < n /\ h[x] < m => f[x] = g[x]}
  <2>1. 0 \in K
    BY <1>0
  <2>2. ASSUME NEW k \in Nat, k \in K
        PROVE  k + 1 \in K
    <3>1. ASSUME NEW x \in D, h[x] < k + 1, h[x] < n, h[x] < m
          PROVE  f[x] = g[x]
      <4>1. \A y \in D : h[y] < h[x] => f[y] = g[y]
        BY <1>0, <2>2, <3>1
      <4>2. step[<<x, f>>] = step[<<x, g>>]
        <5> HIDE DEF F
        <5> QED BY <1>1, <4>1
      <4>3. f[x] = step[<<x, f>>] /\ g[x] = step[<<x, g>>]
        BY <1>5, <3>1
      <4> QED BY <4>2, <4>3
    <3> QED BY <3>1
  <2>3. Nat \subseteq K
    <3> HIDE DEF K
    <3> QED BY <2>1, <2>2, Induction
  <2>4. ASSUME NEW x \in D, h[x] < n, h[x] < m
        PROVE  f[x] = g[x]
    <3>1. h[x] + 1 \in K
      BY <1>0, <2>3
    <3> QED BY <1>0, <2>4, <3>1
  <2> QED BY <2>4
<1> DEFINE upTo(n) == CHOOSE f \in F : Right(n, f)
           all == [x \in D |-> upTo(h[x] + 1)[x]]
<1>6. \A n \in Nat : upTo(n) \in F /\ Right(n, upTo(n))
  <2> SUFFICES ASSUME NEW n \in Nat PROVE upTo(n) \in F /\ Right(n, upTo(n))
    OBVIOUS
  <2>1. \E f \in F : Right(n, f)
    BY <1>4
  <2> HIDE DEF F, Right
  <2> QED BY <2>1
<1>7. all \in F
  <2>1. \A x \in D : upTo(h[x] + 1) \in F
    <3> HIDE DEF F, Right, upTo
    <3> QED BY <1>0, <1>6
  <2> HIDE DEF upTo, Right
  <2> QED BY <2>1
<1>8. ASSUME NEW x \in D
      PROVE  all[x] = step[<<x, all>>]
  <2> DEFINE f == upTo(h[x] + 1)
  <2>1. h[x] + 1 \in Nat /\ h[x] < h[x] + 1
    BY <1>0
  <2>2. f \in F /\ Right(h[x] + 1, f)
    <3> HIDE DEF F, Right, upTo
    <3> QED BY <1>6, <2>1
  <2>3. all[x] = f[x]
    OBVIOUS
  <2>4. ASSUME NEW y \in D, h[y] < h[x]
        PROVE  f[y] = all[y]
    <3>1. h[y] + 1 \in Nat /\ h[y] < h[y] + 1 /\ h[y] < h[x] + 1
      BY <1>0, <2>4
    <3>2. upTo(h[y] + 1) \in F /\ Right(h[y] + 1, upTo(h[y] + 1))
      <4> HIDE DEF F, Right, upTo
      <4> QED BY <1>6, <3>1
    <3>3. all[y] = upTo(h[y] + 1)[y]
      OBVIOUS
    <3> HIDE DEF all, upTo, f, F, Right
    <3>4. f[y] = upTo(h[y] + 1)[y]
      BY <1>5, <2>1, <2>2, <3>1, <3>2
    <3> QED BY <3>3, <3>4
  <2> HIDE DEF all, f
  <2>5. step[<<x, f>>] = step[<<x, all>>]
    <3> HIDE DEF F
    <3> QED BY <1>1, <1>7, <2>2, <2>4
  <2>6. f[x] = step[<<x, f>>]
    BY <2>1, <2>2
  <2> QED BY <2>3, <2>5, <2>6
<1> HIDE DEF all
<1> QED BY <1>7, <1>8

Upwards(D, h, R, f) ==
    /\ h \in [D -> Nat]
    /\ f = [x \in D |-> f[x]]
    /\ \A x \in D : (\A y \in D : h[y] < h[x] => f[y] \in R) => f[x] \in R

LEMMA TypedUpwards ==
    ASSUME NEW D, NEW h, NEW R, NEW f, Upwards(D, h, R, f)
    PROVE  f \in [D -> R]
<1> USE DEF Upwards
<1> DEFINE K == {k \in Nat : \A x \in D : h[x] < k => f[x] \in R}
<1>0. \A x \in D : h[x] \in Nat
  OBVIOUS
<1>1. 0 \in K
  BY <1>0
<1>2. ASSUME NEW k \in Nat, k \in K
      PROVE  k + 1 \in K
  <2>1. ASSUME NEW x \in D, h[x] < k + 1
        PROVE  f[x] \in R
    BY <1>0, <1>2, <2>1
  <2> QED BY <2>1
<1>3. Nat \subseteq K
  <2> HIDE DEF K
  <2> QED BY <1>1, <1>2, Induction
<1>4. \A x \in D : f[x] \in R
  <2>1. \A x \in D : h[x] + 1 \in K
    BY <1>0, <1>3
  <2> QED BY <1>0, <2>1
<1> QED BY <1>4

(* What the parts of an expression are, by its class.                      *)
LEMMA Shapes ==
    ASSUME NEW e \in Expressions
    PROVE  /\ e.class = "ImplicitCastExpr" => e.sub \in Expressions /\ Children(e) = {e.sub}
           /\ e.class \in {"Literal", "DeclRefExpr"} =>
                 e.name \in Name /\ e.type \in CType /\ Children(e) = {}
           /\ e.class = "ArraySubscriptExpr" =>
                 e.index \in Expressions /\ e.base \in Expressions /\ Children(e) = {e.index, e.base}
           /\ e.class = "BinaryOperator" =>
                 /\ e.op \in Word
                 /\ e.lhs \in Expressions /\ e.rhs \in Expressions /\ Children(e) = {e.lhs, e.rhs}
           /\ e.class = "UnaryOperator" =>
                 /\ e.op \in Word /\ e.prefix \in BOOLEAN
                 /\ e.sub \in Expressions /\ Children(e) = {e.sub}
           /\ e.class = "other" => Children(e) = {}
           /\ e.class \in {"ImplicitCastExpr", "Literal", "DeclRefExpr", "ArraySubscriptExpr",
                           "BinaryOperator", "UnaryOperator", "other"}
<1>1. e \in Expression
  BY ExpressionsAssumption
<1> QED BY <1>1 DEF Expression, Children

LEMMA PartsLower ==
    ASSUME NEW e \in Expressions, NEW p \in Children(e)
    PROVE  p \in Expressions /\ height[p] < height[e] /\ height[p] \in Nat /\ height[e] \in Nat
<1>1. p \in Expressions
  BY Shapes
<1> QED BY <1>1, ExpressionsAssumption

LEMMA WithinRight ==
    /\ Within \in [Expressions -> SUBSET Expressions]
    /\ \A e \in Expressions : Within[e] = {e} \cup UNION {Within[p] : p \in Children(e)}
<1> DEFINE R == SUBSET Expressions
           Body(f, e) == {e} \cup UNION {f[p] : p \in Children(e)}
           step == [z \in Expressions \X [Expressions -> R] |-> Body(z[2], z[1])]
           Eq(f) == f = [e \in Expressions |-> Body(f, e)]
<1>1. \A e \in Expressions, f \in [Expressions -> R] :
         step[<<e, f>>] = Body(f, e) /\ Body(f, e) \in R
  <2> SUFFICES ASSUME NEW e \in Expressions, NEW f \in [Expressions -> R]
               PROVE  step[<<e, f>>] = Body(f, e) /\ Body(f, e) \in R
    OBVIOUS
  <2>1. \A p \in Children(e) : f[p] \in SUBSET Expressions
    BY PartsLower
  <2> QED BY <2>1
<1>2. step \in [Expressions \X [Expressions -> R] -> R]
  <2> HIDE DEF R, Body
  <2> QED BY <1>1
<1>3. \A e \in Expressions : \A f, g \in [Expressions -> R] :
         (\A y \in Expressions : height[y] < height[e] => f[y] = g[y]) => step[<<e, f>>] = step[<<e, g>>]
  <2> SUFFICES ASSUME NEW e \in Expressions, NEW f \in [Expressions -> R], NEW g \in [Expressions -> R],
                      \A y \in Expressions : height[y] < height[e] => f[y] = g[y]
               PROVE  step[<<e, f>>] = step[<<e, g>>]
    OBVIOUS
  <2>1. \A p \in Children(e) : f[p] = g[p]
    BY PartsLower
  <2>2. Body(f, e) = Body(g, e)
    BY <2>1
  <2> HIDE DEF Body, step, R
  <2> QED BY <1>1, <2>2
<1>4. \E f \in [Expressions -> R] : \A e \in Expressions : f[e] = step[<<e, f>>]
  <2>1. R # {} /\ height \in [Expressions -> Nat]
    BY ExpressionsAssumption
  <2> HIDE DEF step, R
  <2>2. LooksDown(Expressions, height, R, step)
    BY <1>2, <1>3, <2>1 DEF LooksDown
  <2> QED BY <2>2, Recursion
<1>5. PICK f \in [Expressions -> R] : \A e \in Expressions : f[e] = step[<<e, f>>]
  BY <1>4
<1>6. Eq(f)
  <2>1. \A e \in Expressions : f[e] = Body(f, e)
    <3> HIDE DEF step, Body, R
    <3> QED BY <1>1, <1>5
  <2> HIDE DEF step, Body
  <2> QED BY <2>1
<1>7. Within = CHOOSE g : Eq(g)
  BY DEF Within
<1>8. Eq(Within)
  <2> HIDE DEF Eq
  <2> QED BY <1>6, <1>7
<1>9. Within = [e \in Expressions |-> Body(Within, e)]
  BY <1>8
<1>10. \A e \in Expressions : Within[e] = Body(Within, e)
  <2> HIDE DEF Body
  <2> QED BY <1>9
<1>15. Within \in [Expressions -> SUBSET Expressions]
  <2>1. ASSUME NEW e \in Expressions,
               \A y \in Expressions : height[y] < height[e] => Within[y] \in SUBSET Expressions
        PROVE  Within[e] \in SUBSET Expressions
    <3>1. \A p \in Children(e) : Within[p] \subseteq Expressions
      BY <2>1, PartsLower
    <3> QED BY <1>10, <3>1
  <2>2. Within = [e \in Expressions |-> Within[e]]
    BY <1>9
  <2>3. height \in [Expressions -> Nat]
    BY ExpressionsAssumption
  <2> HIDE DEF R
  <2>4. Upwards(Expressions, height, R, Within)
    BY <2>1, <2>2, <2>3 DEF Upwards, R
  <2>5. Within \in [Expressions -> R]
    BY <2>4, TypedUpwards
  <2> QED BY <2>5 DEF R
<1> QED BY <1>10, <1>15

(* A meaningful expression has meaningful parts.                           *)
LEMMA MeaningfulShapes ==
    ASSUME NEW e \in Meaningful
    PROVE  /\ e \in Expressions /\ height[e] \in Nat
           /\ Children(e) \subseteq Meaningful
           /\ \A p \in Children(e) : height[p] \in Nat /\ height[p] < height[e]
           /\ e.class \in {"ImplicitCastExpr", "Literal", "DeclRefExpr", "ArraySubscriptExpr",
                           "BinaryOperator", "UnaryOperator"}
           /\ e.class = "ImplicitCastExpr" => e.sub \in Children(e)
           /\ e.class \in {"Literal", "DeclRefExpr"} => e.name \in Name /\ e.type \in CType
           /\ e.class = "ArraySubscriptExpr" => e.index \in Children(e) /\ e.base \in Children(e)
           /\ e.class = "BinaryOperator" => e.op \in Word /\ e.lhs \in Children(e) /\ e.rhs \in Children(e)
           /\ e.class = "UnaryOperator" => e.op \in Word /\ e.prefix \in BOOLEAN /\ e.sub \in Children(e)
<1>1. e \in Expressions /\ \A p \in Within[e] : p.class # "other"
  BY DEF Meaningful
<1>2. e.class # "other"
  BY <1>1, WithinRight
<1>3. Children(e) \subseteq Meaningful
  <2> SUFFICES ASSUME NEW p \in Children(e) PROVE p \in Meaningful
    OBVIOUS
  <2>1. p \in Expressions
    BY <1>1, PartsLower
  <2>2. Within[p] \subseteq Within[e]
    BY <1>1, WithinRight
  <2> QED BY <1>1, <2>1, <2>2 DEF Meaningful
<1>4. height[e] \in Nat
  BY <1>1, ExpressionsAssumption
<1> QED BY <1>1, <1>2, <1>3, <1>4, Shapes, PartsLower

meaningfulHeight == [e \in Meaningful |-> height[e]]

LEMMA MeaningfulHeight ==
    /\ meaningfulHeight \in [Meaningful -> Nat]
    /\ \A e \in Meaningful : \A p \in Children(e) :
          p \in Meaningful /\ meaningfulHeight[p] < meaningfulHeight[e]
BY MeaningfulShapes DEF meaningfulHeight

NameBody(f, e) ==
    CASE e.class = "ImplicitCastExpr" -> f[e.sub]
      [] e.class \in {"Literal", "DeclRefExpr"} -> e.name
      [] e.class = "ArraySubscriptExpr" -> f[e.index] \o f[e.base] \o <<"[]">>
      [] e.class = "BinaryOperator" -> f[e.lhs] \o f[e.rhs] \o <<e.op>>
      [] e.class = "UnaryOperator" ->
            IF e.prefix THEN <<e.op>> \o f[e.sub] ELSE Append(f[e.sub], e.op)

LEMMA NameBodyRight ==
    ASSUME NEW e \in Meaningful, NEW f, \A p \in Children(e) : f[p] \in Name
    PROVE  /\ NameBody(f, e) \in Name
           /\ \A g : (\A p \in Children(e) : f[p] = g[p]) => NameBody(f, e) = NameBody(g, e)
<1> USE MeaningfulShapes
<1>1. "[]" \in Word
  BY DEF Word
<1>2. \A m, n \in Name, w \in Word : /\ m \o n \o <<w>> \in Name
                                       /\ <<w>> \o m \in Name /\ Append(m, w) \in Name
  BY DEF Name
<1>3. CASE e.class = "ImplicitCastExpr"
  BY <1>3 DEF NameBody
<1>4. CASE e.class \in {"Literal", "DeclRefExpr"}
  BY <1>4 DEF NameBody
<1>5. CASE e.class = "ArraySubscriptExpr"
  BY <1>1, <1>2, <1>5 DEF NameBody
<1>6. CASE e.class = "BinaryOperator"
  BY <1>2, <1>6 DEF NameBody
<1>7. CASE e.class = "UnaryOperator"
  BY <1>2, <1>7 DEF NameBody
<1> QED BY <1>3, <1>4, <1>5, <1>6, <1>7

LEMMA NameRight ==
    /\ NameOf \in [Meaningful -> Name]
    /\ \A e \in Meaningful : NameOf[e] = NameBody(NameOf, e)
<1> DEFINE step == [z \in Meaningful \X [Meaningful -> Name] |-> NameBody(z[2], z[1])]
           Eq(f) == f = [e \in Meaningful |-> NameBody(f, e)]
<1>1. \A e \in Meaningful, f \in [Meaningful -> Name] :
         step[<<e, f>>] = NameBody(f, e) /\ NameBody(f, e) \in Name
  BY NameBodyRight, MeaningfulShapes
<1>2. step \in [Meaningful \X [Meaningful -> Name] -> Name]
  BY <1>1
<1>3. \A e \in Meaningful : \A f, g \in [Meaningful -> Name] :
         (\A y \in Meaningful : meaningfulHeight[y] < meaningfulHeight[e] => f[y] = g[y])
         => step[<<e, f>>] = step[<<e, g>>]
  <2> SUFFICES ASSUME NEW e \in Meaningful, NEW f \in [Meaningful -> Name], NEW g \in [Meaningful -> Name],
                      \A y \in Meaningful : meaningfulHeight[y] < meaningfulHeight[e] => f[y] = g[y]
               PROVE  step[<<e, f>>] = step[<<e, g>>]
    OBVIOUS
  <2>1. \A p \in Children(e) : f[p] = g[p] /\ f[p] \in Name
    BY MeaningfulHeight
  <2>2. NameBody(f, e) = NameBody(g, e)
    BY <2>1, NameBodyRight
  <2> HIDE DEF step
  <2> QED BY <1>1, <2>2
<1>4. \E f \in [Meaningful -> Name] : \A e \in Meaningful : f[e] = step[<<e, f>>]
  <2>1. <<>> \in Name
    BY DEF Name
  <2> HIDE DEF step
  <2>2. LooksDown(Meaningful, meaningfulHeight, Name, step)
    BY <1>2, <1>3, <2>1, MeaningfulHeight DEF LooksDown
  <2> QED BY <2>2, Recursion
<1>5. PICK f \in [Meaningful -> Name] : \A e \in Meaningful : f[e] = step[<<e, f>>]
  BY <1>4
<1>6. Eq(f)
  <2>1. \A e \in Meaningful : f[e] = NameBody(f, e)
    <3> HIDE DEF step
    <3> QED BY <1>1, <1>5
  <2> HIDE DEF step
  <2> QED BY <2>1
<1>7. NameOf = CHOOSE g : Eq(g)
  BY DEF NameOf, NameBody
<1>8. Eq(NameOf)
  <2> HIDE DEF Eq
  <2> QED BY <1>6, <1>7
<1>9. NameOf = [e \in Meaningful |-> NameBody(NameOf, e)]
  BY <1>8
<1>10. \A e \in Meaningful : NameOf[e] = NameBody(NameOf, e)
  BY <1>9
<1>11. NameOf \in [Meaningful -> Name]
  <2>1. ASSUME NEW e \in Meaningful,
               \A y \in Meaningful : meaningfulHeight[y] < meaningfulHeight[e] => NameOf[y] \in Name
        PROVE  NameOf[e] \in Name
    <3>1. \A p \in Children(e) : NameOf[p] \in Name
      BY <2>1, MeaningfulHeight
    <3> QED BY <1>10, <3>1, NameBodyRight
  <2>2. NameOf = [e \in Meaningful |-> NameOf[e]]
    BY <1>9
  <2>3. Upwards(Meaningful, meaningfulHeight, Name, NameOf)
    BY <2>1, <2>2, MeaningfulHeight DEF Upwards
  <2> QED BY <2>3, TypedUpwards
<1> QED BY <1>10, <1>11

-----------------------------------------------------------------------------
(* What the operations on the theory are given and give.                   *)

LEMMA NamesJoin ==
    /\ \A m, n \in Name, w \in Word : /\ m \o n \o <<w>> \in Name
                                      /\ <<w>> \o m \in Name /\ Append(m, w) \in Name
    /\ "[]" \in Word
<1>1. \A m, n \in Name, w \in Word : /\ m \o n \o <<w>> \in Name
                                     /\ <<w>> \o m \in Name /\ Append(m, w) \in Name
  BY DEF Name
<1> QED BY <1>1 DEF Word

Joined(m, n, w) == m \o n \o <<w>>

(* Each operation on the theory keeps it one.                              *)
LEMMA VariableTyped ==
    ASSUME NEW n \in Name, NEW t \in Word, NEW u \in BOOLEAN
    PROVE  /\ Variable(n, t, u) \in VariableRecord
           /\ Variable(n, t, u).name = n /\ Variable(n, t, u).type = t
BY DEF Variable, VariableRecord

LEMMA BinaryTyped ==
    ASSUME NEW l \in VariableRecord, NEW r \in VariableRecord, NEW w \in Word, NEW u \in BOOLEAN
    PROVE  /\ BinaryOperation(l, r, w, u) \in VariableRecord
           /\ BinaryOperation(l, r, w, u).name = Joined(l.name, r.name, w)
           /\ BinaryOperation(l, r, w, u).type = "unknown"
<1> DEFINE n == Joined(l.name, r.name, w)
<1>1. n \in Name
  BY NamesJoin DEF Joined, VariableRecord
<1>2. BinaryOperation(l, r, w, u) = Variable(n, "unknown", u)
  BY DEF BinaryOperation, Joined
<1>3. "unknown" \in Word
  BY DEF Word
<1> HIDE DEF n
<1>4. /\ BinaryOperation(l, r, w, u) \in VariableRecord
      /\ BinaryOperation(l, r, w, u).name = n
      /\ BinaryOperation(l, r, w, u).type = "unknown"
  BY <1>1, <1>2, <1>3, VariableTyped
<1> QED BY <1>4 DEF n

LEMMA UnaryTyped ==
    ASSUME NEW s \in VariableRecord, NEW w \in Word, NEW u \in BOOLEAN, NEW pre \in BOOLEAN
    PROVE  /\ UnaryOperation(s, w, pre, u) \in VariableRecord
           /\ UnaryOperation(s, w, pre, u).name = IF pre THEN <<w>> \o s.name ELSE Append(s.name, w)
           /\ UnaryOperation(s, w, pre, u).type = "unknown"
<1> DEFINE n == IF pre THEN <<w>> \o s.name ELSE Append(s.name, w)
<1>1. n \in Name
  BY NamesJoin DEF VariableRecord
<1>2. UnaryOperation(s, w, pre, u) = Variable(n, "unknown", u)
  BY DEF UnaryOperation
<1>3. "unknown" \in Word
  BY DEF Word
<1> HIDE DEF n
<1>4. /\ UnaryOperation(s, w, pre, u) \in VariableRecord
      /\ UnaryOperation(s, w, pre, u).name = n
      /\ UnaryOperation(s, w, pre, u).type = "unknown"
  BY <1>1, <1>2, <1>3, VariableTyped
<1> QED BY <1>4 DEF n

LEMMA AddTyped ==
    ASSUME NEW tt \in Theory, NEW var \in VariableRecord
    PROVE  /\ AddVariable(tt, var) \in Theory
           /\ AddVariable(tt, var).byName =
                 IF Known(tt, var.name) THEN tt.byName ELSE tt.byName \cup {var}
           /\ AddVariable(tt, var).bOps = tt.bOps
           /\ AddVariable(tt, var).uOps = tt.uOps
BY DEF AddVariable, Theory

LEMMA RetypeTyped ==
    ASSUME NEW tt \in Theory, NEW n \in Name, NEW t \in Word
    PROVE  /\ Retype(tt, n, t) \in Theory
           /\ Retype(tt, n, t).byName = {IF v.name = n THEN [v EXCEPT !.type = t] ELSE v : v \in tt.byName}
           /\ Retype(tt, n, t).bOps = tt.bOps
           /\ Retype(tt, n, t).uOps = tt.uOps
<1>1. \A v \in VariableRecord : [v EXCEPT !.type = t] \in VariableRecord
  BY DEF VariableRecord
<1>2. tt.byName \subseteq VariableRecord
  BY DEF Theory
<1>3. {IF v.name = n THEN [v EXCEPT !.type = t] ELSE v : v \in tt.byName} \in SUBSET VariableRecord
  BY <1>1, <1>2
<1> DEFINE now == {IF v.name = n THEN [v EXCEPT !.type = t] ELSE v : v \in tt.byName}
<1>4. Retype(tt, n, t) = [tt EXCEPT !.byName = now]
  BY DEF Retype
<1> HIDE DEF now
<1>5. now \in SUBSET VariableRecord
  BY <1>3 DEF now
<1>6. /\ Retype(tt, n, t) \in Theory
      /\ Retype(tt, n, t).byName = now
      /\ Retype(tt, n, t).bOps = tt.bOps
      /\ Retype(tt, n, t).uOps = tt.uOps
  BY <1>4, <1>5 DEF Theory
<1> QED BY <1>6 DEF now

LEMMA ToIndexTyped ==
    ASSUME NEW tt \in Theory, NEW var \in VariableRecord
    PROVE  UpdateToIndex(tt, var) \in Theory /\ UpdateToBound(tt, var) \in Theory
<1>1. "ArrayIndex" \in Word /\ "ArrayBound" \in Word /\ var.name \in Name
  BY DEF Word, VariableRecord
<1>2. \A t \in Word : [var EXCEPT !.type = t] \in VariableRecord
  BY DEF VariableRecord
<1>3. Retype(tt, var.name, "ArrayIndex") \in Theory
  BY <1>1, RetypeTyped
<1>4. /\ AddVariable(tt, [var EXCEPT !.type = "ArrayIndex"]) \in Theory
      /\ AddVariable(tt, [var EXCEPT !.type = "ArrayBound"]) \in Theory
  BY <1>1, <1>2, AddTyped
<1> QED BY <1>3, <1>4 DEF UpdateToIndex, UpdateToBound

LEMMA AddOpTyped ==
    ASSUME NEW tt \in Theory, NEW left \in VariableRecord, NEW right \in VariableRecord,
           NEW op \in VariableRecord
    PROVE  AddBOp(tt, left, right, op) \in Theory /\ AddUOp(tt, left, op) \in Theory
<1>1. \A t \in Theory : /\ [t EXCEPT !.bOps = Append(@, op.name)] \in Theory
                        /\ [t EXCEPT !.uOps = Append(@, op.name)] \in Theory
  <2> TAKE t \in Theory
  <2>1. op.name \in Name
    BY DEF VariableRecord
  <2>2. t.bOps \in Seq(Name) /\ t.uOps \in Seq(Name)
    BY DEF Theory
  <2>3. Append(t.bOps, op.name) \in Seq(Name) /\ Append(t.uOps, op.name) \in Seq(Name)
    BY <2>1, <2>2
  <2> QED BY <2>3 DEF Theory
<1> QED BY <1>1, AddTyped DEF AddBOp, AddUOp

LEMMA BoundTyped ==
    ASSUME NEW tt \in Theory, NEW op, NEW l \in VariableRecord, NEW r \in VariableRecord
    PROVE  Bound(tt, op, l, r) \in Theory
BY ToIndexTyped DEF Bound

-----------------------------------------------------------------------------
Result == [tt : Theory, var : VariableRecord]
Handler == [BOOLEAN -> [Theory -> Result]]

(* The body of HandleOperand, of any function.                             *)
OperandBody(f, e, u, tt) ==
    LET index == f[e.index][u][tt]
        base  == f[e.base][u][UpdateToIndex(index.tt, index.var)]
        rhs   == f[e.rhs][u][tt]
        lhs   == f[e.lhs][u][rhs.tt]
        sub   == f[e.sub][u][tt]
        leaf   == Variable(e.name, e.type, u)
        access == BinaryOperation(index.var, base.var, "[]", u)
        bOp    == BinaryOperation(lhs.var, rhs.var, e.op, u)
        uOp    == UnaryOperation(sub.var, e.op, e.prefix, u)
    IN  CASE e.class = "ImplicitCastExpr" -> sub
          [] e.class \in {"Literal", "DeclRefExpr"} -> [tt |-> AddVariable(tt, leaf), var |-> leaf]
          [] e.class = "ArraySubscriptExpr" ->
                [tt |-> AddBOp(base.tt, index.var, base.var, access), var |-> access]
          [] e.class = "BinaryOperator" ->
                [tt |-> AddBOp(Bound(lhs.tt, e.op, lhs.var, rhs.var), lhs.var, rhs.var, bOp), var |-> bOp]
          [] e.class = "UnaryOperator" -> [tt |-> AddUOp(sub.tt, sub.var, uOp), var |-> uOp]

LEMMA HandlerApplied ==
    ASSUME NEW g \in Handler, NEW u \in BOOLEAN, NEW tt \in Theory
    PROVE  /\ g[u][tt] \in Result
           /\ g[u][tt].tt \in Theory /\ g[u][tt].var \in VariableRecord
<1>1. g[u][tt] \in Result
  BY DEF Handler
<1> QED BY <1>1 DEF Result

LEMMA BodyTyped ==
    ASSUME NEW e \in Meaningful, NEW f, \A p \in Children(e) : f[p] \in Handler,
           NEW u \in BOOLEAN, NEW tt \in Theory
    PROVE  OperandBody(f, e, u, tt) \in Result
<1> USE MeaningfulShapes
<1>0. \A r : \A v : r \in Theory /\ v \in VariableRecord => [tt |-> r, var |-> v] \in Result
  BY DEF Result
<1>1. CASE e.class = "ImplicitCastExpr"
  BY <1>1, HandlerApplied DEF OperandBody
<1>2. CASE e.class \in {"Literal", "DeclRefExpr"}
  <2>1. Variable(e.name, e.type, u) \in VariableRecord
    BY <1>2, VariableTyped DEF CType
  <2>2. AddVariable(tt, Variable(e.name, e.type, u)) \in Theory
    BY <2>1, AddTyped
  <2>3. OperandBody(f, e, u, tt) = [tt |-> AddVariable(tt, Variable(e.name, e.type, u)),
                                    var |-> Variable(e.name, e.type, u)]
    BY <1>2 DEF OperandBody
  <2> QED BY <1>0, <2>1, <2>2, <2>3
<1>3. CASE e.class = "ArraySubscriptExpr"
  <2> DEFINE index == f[e.index][u][tt]
             base  == f[e.base][u][UpdateToIndex(index.tt, index.var)]
             access == BinaryOperation(index.var, base.var, "[]", u)
  <2>1. index.tt \in Theory /\ index.var \in VariableRecord
    BY <1>3, HandlerApplied
  <2>2. UpdateToIndex(index.tt, index.var) \in Theory
    BY <2>1, ToIndexTyped
  <2>3. base.tt \in Theory /\ base.var \in VariableRecord
    BY <1>3, <2>2, HandlerApplied
  <2>4. access \in VariableRecord
    BY <2>1, <2>3, BinaryTyped, NamesJoin
  <2>5. OperandBody(f, e, u, tt) = [tt |-> AddBOp(base.tt, index.var, base.var, access), var |-> access]
    BY <1>3 DEF OperandBody
  <2> HIDE DEF index, base, access
  <2>6. AddBOp(base.tt, index.var, base.var, access) \in Theory
    BY <2>1, <2>3, <2>4, AddOpTyped
  <2> QED BY <1>0, <2>4, <2>5, <2>6
<1>4. CASE e.class = "BinaryOperator"
  <2> DEFINE rhs == f[e.rhs][u][tt]
             lhs == f[e.lhs][u][rhs.tt]
             bOp == BinaryOperation(lhs.var, rhs.var, e.op, u)
             bound == Bound(lhs.tt, e.op, lhs.var, rhs.var)
  <2>1. rhs.tt \in Theory /\ rhs.var \in VariableRecord
    BY <1>4, HandlerApplied
  <2>2. lhs.tt \in Theory /\ lhs.var \in VariableRecord
    <3> HIDE DEF rhs
    <3> QED BY <1>4, <2>1, HandlerApplied
  <2>3. OperandBody(f, e, u, tt) = [tt |-> AddBOp(bound, lhs.var, rhs.var, bOp), var |-> bOp]
    BY <1>4 DEF OperandBody
  <2>4. bOp \in VariableRecord /\ bound \in Theory
    <3> HIDE DEF rhs, lhs
    <3> QED BY <1>4, <2>1, <2>2, BinaryTyped, BoundTyped
  <2> HIDE DEF rhs, lhs, bOp, bound
  <2>5. AddBOp(bound, lhs.var, rhs.var, bOp) \in Theory
    BY <2>1, <2>2, <2>4, AddOpTyped
  <2> QED BY <1>0, <2>3, <2>4, <2>5
<1>5. CASE e.class = "UnaryOperator"
  <2> DEFINE sub == f[e.sub][u][tt]
             uOp == UnaryOperation(sub.var, e.op, e.prefix, u)
  <2>1. sub.tt \in Theory /\ sub.var \in VariableRecord
    BY <1>5, HandlerApplied
  <2>2. OperandBody(f, e, u, tt) = [tt |-> AddUOp(sub.tt, sub.var, uOp), var |-> uOp]
    BY <1>5 DEF OperandBody
  <2>3. uOp \in VariableRecord
    <3> HIDE DEF sub
    <3> QED BY <1>5, <2>1, UnaryTyped
  <2> HIDE DEF sub, uOp
  <2>4. AddUOp(sub.tt, sub.var, uOp) \in Theory
    BY <2>1, <2>3, AddOpTyped
  <2> QED BY <1>0, <2>2, <2>3, <2>4
<1> QED BY <1>1, <1>2, <1>3, <1>4, <1>5

LEMMA BodyLocal ==
    ASSUME NEW e \in Meaningful, NEW f, NEW g, \A p \in Children(e) : f[p] = g[p],
           NEW u, NEW tt
    PROVE  OperandBody(f, e, u, tt) = OperandBody(g, e, u, tt)
<1> USE MeaningfulShapes
<1>1. CASE e.class = "ImplicitCastExpr"
  BY <1>1 DEF OperandBody
<1>2. CASE e.class \in {"Literal", "DeclRefExpr"}
  BY <1>2 DEF OperandBody
<1>3. CASE e.class = "ArraySubscriptExpr"
  BY <1>3 DEF OperandBody
<1>4. CASE e.class = "BinaryOperator"
  BY <1>4 DEF OperandBody
<1>5. CASE e.class = "UnaryOperator"
  BY <1>5 DEF OperandBody
<1> QED BY <1>1, <1>2, <1>3, <1>4, <1>5

HandlerBody(f, e) == [u \in BOOLEAN |-> [tt \in Theory |-> OperandBody(f, e, u, tt)]]

LEMMA HandlerBodyRight ==
    ASSUME NEW e \in Meaningful, NEW f, \A p \in Children(e) : f[p] \in Handler
    PROVE  /\ HandlerBody(f, e) \in Handler
           /\ \A u \in BOOLEAN, tt \in Theory : HandlerBody(f, e)[u][tt] = OperandBody(f, e, u, tt)
           /\ \A g : (\A p \in Children(e) : f[p] = g[p]) => HandlerBody(f, e) = HandlerBody(g, e)
<1>1. \A u \in BOOLEAN, tt \in Theory : OperandBody(f, e, u, tt) \in Result
  BY BodyTyped
<1>2. HandlerBody(f, e) \in Handler
  BY <1>1 DEF HandlerBody, Handler
<1>3. \A u \in BOOLEAN, tt \in Theory : HandlerBody(f, e)[u][tt] = OperandBody(f, e, u, tt)
  BY DEF HandlerBody
<1>4. ASSUME NEW g, \A p \in Children(e) : f[p] = g[p]
      PROVE  HandlerBody(f, e) = HandlerBody(g, e)
  <2>1. \A u \in BOOLEAN, tt \in Theory : OperandBody(f, e, u, tt) = OperandBody(g, e, u, tt)
    BY <1>4, BodyLocal
  <2> QED BY <2>1 DEF HandlerBody
<1> QED BY <1>2, <1>3, <1>4

LEMMA HandleRight ==
    /\ HandleOperand \in [Meaningful -> Handler]
    /\ \A e \in Meaningful : HandleOperand[e] = HandlerBody(HandleOperand, e)
<1> DEFINE step == [z \in Meaningful \X [Meaningful -> Handler] |-> HandlerBody(z[2], z[1])]
           Eq(f) == f = [e \in Meaningful |-> HandlerBody(f, e)]
<1>1. \A e \in Meaningful, f \in [Meaningful -> Handler] :
         step[<<e, f>>] = HandlerBody(f, e) /\ HandlerBody(f, e) \in Handler
  BY HandlerBodyRight, MeaningfulShapes
<1>2. step \in [Meaningful \X [Meaningful -> Handler] -> Handler]
  BY <1>1
<1>3. \A e \in Meaningful : \A f, g \in [Meaningful -> Handler] :
         (\A y \in Meaningful : meaningfulHeight[y] < meaningfulHeight[e] => f[y] = g[y])
         => step[<<e, f>>] = step[<<e, g>>]
  <2> SUFFICES ASSUME NEW e \in Meaningful,
                      NEW f \in [Meaningful -> Handler], NEW g \in [Meaningful -> Handler],
                      \A y \in Meaningful : meaningfulHeight[y] < meaningfulHeight[e] => f[y] = g[y]
               PROVE  step[<<e, f>>] = step[<<e, g>>]
    OBVIOUS
  <2>1. \A p \in Children(e) : f[p] = g[p] /\ f[p] \in Handler
    BY MeaningfulHeight
  <2>2. HandlerBody(f, e) = HandlerBody(g, e)
    BY <2>1, HandlerBodyRight
  <2> HIDE DEF step
  <2> QED BY <1>1, <2>2
<1>4. \E f \in [Meaningful -> Handler] : \A e \in Meaningful : f[e] = step[<<e, f>>]
  <2>1. Handler # {}
    <3>1. [name |-> <<>>, type |-> "unknown", isInput |-> FALSE, isOutput |-> FALSE] \in VariableRecord
      BY DEF VariableRecord, Name, Word
    <3>2. PICK v \in VariableRecord : TRUE
      BY <3>1
    <3>3. [u \in BOOLEAN |-> [tt \in Theory |-> [tt |-> tt, var |-> v]]] \in Handler
      BY DEF Handler, Result
    <3> QED BY <3>3
  <2> HIDE DEF step
  <2>2. LooksDown(Meaningful, meaningfulHeight, Handler, step)
    BY <1>2, <1>3, <2>1, MeaningfulHeight DEF LooksDown
  <2> QED BY <2>2, Recursion
<1>5. PICK f \in [Meaningful -> Handler] : \A e \in Meaningful : f[e] = step[<<e, f>>]
  BY <1>4
<1>6. Eq(f)
  <2>1. \A e \in Meaningful : f[e] = HandlerBody(f, e)
    <3> HIDE DEF step
    <3> QED BY <1>1, <1>5
  <2> HIDE DEF step
  <2> QED BY <2>1
<1>7. HandleOperand = CHOOSE g : Eq(g)
  BY DEF HandleOperand, HandlerBody, OperandBody
<1>8. Eq(HandleOperand)
  <2> HIDE DEF Eq
  <2> QED BY <1>6, <1>7
<1>9. HandleOperand = [e \in Meaningful |-> HandlerBody(HandleOperand, e)]
  BY <1>8
<1>10. \A e \in Meaningful : HandleOperand[e] = HandlerBody(HandleOperand, e)
  BY <1>9
<1>11. HandleOperand \in [Meaningful -> Handler]
  <2>1. ASSUME NEW e \in Meaningful,
               \A y \in Meaningful : meaningfulHeight[y] < meaningfulHeight[e] => HandleOperand[y] \in Handler
        PROVE  HandleOperand[e] \in Handler
    <3>1. \A p \in Children(e) : HandleOperand[p] \in Handler
      BY <2>1, MeaningfulHeight
    <3> QED BY <1>10, <3>1, HandlerBodyRight
  <2>2. HandleOperand = [e \in Meaningful |-> HandleOperand[e]]
    BY <1>9
  <2>3. Upwards(Meaningful, meaningfulHeight, Handler, HandleOperand)
    BY <2>1, <2>2, MeaningfulHeight DEF Upwards
  <2> QED BY <2>3, TypedUpwards
<1> QED BY <1>10, <1>11

-----------------------------------------------------------------------------
BNames(V) == NamesOf(OfClass(V, {"BinaryOperator", "ArraySubscriptExpr"}))
UNames(V) == NamesOf(OfClass(V, {"UnaryOperator"}))

(* The facts of ExtractionExact, about any theory and any sets of names.   *)
Holds(tt, I, N, B, U, O) ==
    /\ \A v \in tt.byName : v.type = "ArrayIndex" => v.name \in I
    /\ \A n \in I : \E v \in tt.byName : v.name = n /\ v.type = "ArrayIndex"
    /\ \A v \in tt.byName : v.type # "ArrayBound"
    /\ \A n \in N \cup O : Known(tt, n)
    /\ B = SeqRange(tt.bOps)
    /\ U = SeqRange(tt.uOps)
    /\ \A v \in tt.byName : v.name \in O => v.isOutput

Plain(var) == var \in VariableRecord /\ var.type # "ArrayIndex" /\ var.type # "ArrayBound"

LEMMA AddHolds ==
    ASSUME NEW tt \in Theory, NEW I, NEW N, NEW B, NEW U, NEW O, Holds(tt, I, N, B, U, O),
           NEW var, Plain(var)
    PROVE  /\ AddVariable(tt, var) \in Theory
           /\ Holds(AddVariable(tt, var), I, N \cup {var.name}, B, U, O)
<1> DEFINE t == AddVariable(tt, var)
<1>1. /\ t \in Theory
      /\ t.byName = IF Known(tt, var.name) THEN tt.byName ELSE tt.byName \cup {var}
      /\ t.bOps = tt.bOps /\ t.uOps = tt.uOps
  BY AddTyped DEF Plain
<1> HIDE DEF t
<1>2. CASE Known(tt, var.name)
  <2>1. Holds(t, I, N \cup {var.name}, B, U, O)
    BY <1>1, <1>2 DEF Holds, Known
  <2> QED BY <1>1, <2>1 DEF t
<1>3. CASE ~ Known(tt, var.name)
  <2>1. t.byName = tt.byName \cup {var}
    BY <1>1, <1>3
  <2>2. \A n \in N \cup {var.name} \cup O : Known(t, n)
    BY <2>1 DEF Holds, Known
  <2>3. var.name \notin O
    BY <1>3 DEF Holds
  <2>4. Holds(t, I, N \cup {var.name}, B, U, O)
    BY <1>1, <2>1, <2>2, <2>3 DEF Holds, Plain
  <2> QED BY <1>1, <2>4 DEF t
<1> QED BY <1>2, <1>3

LEMMA IndexHolds ==
    ASSUME NEW tt \in Theory, NEW I, NEW N, NEW B, NEW U, NEW O, Holds(tt, I, N, B, U, O),
           NEW var, Plain(var)
    PROVE  /\ UpdateToIndex(tt, var) \in Theory
           /\ Holds(UpdateToIndex(tt, var), I \cup {var.name}, N \cup {var.name}, B, U, O)
<1> DEFINE t == UpdateToIndex(tt, var)
<1>1. t \in Theory
  BY ToIndexTyped DEF Plain
<1>2. var.name \in Name /\ "ArrayIndex" \in Word
  BY DEF Plain, VariableRecord, Word
<1>3. CASE Known(tt, var.name)
  <2>1. t = Retype(tt, var.name, "ArrayIndex")
    BY <1>3 DEF UpdateToIndex
  <2>2. /\ t.byName = {IF v.name = var.name THEN [v EXCEPT !.type = "ArrayIndex"] ELSE v : v \in tt.byName}
        /\ t.bOps = tt.bOps /\ t.uOps = tt.uOps
    BY <1>2, <2>1, RetypeTyped
  <2>3. \A v \in VariableRecord :
           /\ [v EXCEPT !.type = "ArrayIndex"].name = v.name
           /\ [v EXCEPT !.type = "ArrayIndex"].type = "ArrayIndex"
           /\ [v EXCEPT !.type = "ArrayIndex"].isOutput = v.isOutput
    BY DEF VariableRecord
  <2>4. tt.byName \subseteq VariableRecord
    BY DEF Theory
  <2> HIDE DEF t
  <2>5. \A w \in t.byName : \E v \in tt.byName :
           /\ w.name = v.name /\ w.isOutput = v.isOutput
           /\ w.type = IF v.name = var.name THEN "ArrayIndex" ELSE v.type
    <3> TAKE w \in t.byName
    <3>1. PICK v \in tt.byName :
             w = IF v.name = var.name THEN [v EXCEPT !.type = "ArrayIndex"] ELSE v
      BY <2>2
    <3>2. v \in VariableRecord
      BY <2>4
    <3>3. /\ w.name = v.name /\ w.isOutput = v.isOutput
          /\ w.type = IF v.name = var.name THEN "ArrayIndex" ELSE v.type
      BY <2>3, <3>1, <3>2
    <3> QED BY <3>3
  <2>6. \A v \in tt.byName : \E w \in t.byName :
           /\ w.name = v.name
           /\ w.type = IF v.name = var.name THEN "ArrayIndex" ELSE v.type
    <3> TAKE v \in tt.byName
    <3> DEFINE w == IF v.name = var.name THEN [v EXCEPT !.type = "ArrayIndex"] ELSE v
    <3>1. w \in t.byName
      BY <2>2
    <3>2. v \in VariableRecord
      BY <2>4
    <3>3. w.name = v.name /\ w.type = IF v.name = var.name THEN "ArrayIndex" ELSE v.type
      BY <2>3, <3>2
    <3> HIDE DEF w
    <3> QED BY <3>1, <3>3
  <2>7. \A n \in N \cup {var.name} \cup O : Known(t, n)
    BY <1>3, <2>6 DEF Holds, Known
  <2>8. \A n \in I \cup {var.name} : \E w \in t.byName : w.name = n /\ w.type = "ArrayIndex"
    BY <1>3, <2>6 DEF Holds, Known
  <2>9. \A w \in t.byName : /\ w.type = "ArrayIndex" => w.name \in I \cup {var.name}
                            /\ w.type # "ArrayBound"
                            /\ w.name \in O => w.isOutput
    BY <2>5 DEF Holds
  <2>10. Holds(t, I \cup {var.name}, N \cup {var.name}, B, U, O)
    BY <2>2, <2>7, <2>8, <2>9 DEF Holds
  <2> QED BY <1>1, <2>10 DEF t
<1>4. CASE ~ Known(tt, var.name)
  <2> DEFINE new == [var EXCEPT !.type = "ArrayIndex"]
  <2>1. t = AddVariable(tt, new)
    BY <1>4 DEF UpdateToIndex
  <2>2. /\ new \in VariableRecord /\ new.name = var.name /\ new.type = "ArrayIndex"
    BY <1>2 DEF Plain, VariableRecord
  <2> HIDE DEF t, new
  <2>3. /\ t.byName = tt.byName \cup {new}
        /\ t.bOps = tt.bOps /\ t.uOps = tt.uOps
    BY <1>4, <2>1, <2>2, AddTyped
  <2>4. \A n \in N \cup {var.name} \cup O : Known(t, n)
    BY <2>2, <2>3 DEF Holds, Known
  <2>5. var.name \notin O
    BY <1>4 DEF Holds
  <2>6. Holds(t, I \cup {var.name}, N \cup {var.name}, B, U, O)
    BY <2>2, <2>3, <2>4, <2>5 DEF Holds
  <2> QED BY <1>1, <2>6 DEF t
<1> QED BY <1>3, <1>4

LEMMA OutputHolds ==
    ASSUME NEW tt \in Theory, NEW I, NEW N, NEW B, NEW U, NEW O, Holds(tt, I, N, B, U, O),
           NEW var, Plain(var)
    PROVE  /\ UpdateToOutput(tt, var) \in Theory
           /\ Holds(UpdateToOutput(tt, var), I, N, B, U, O \cup {var.name})
<1> DEFINE t == UpdateToOutput(tt, var)
<1>1. \A v \in VariableRecord :
         /\ [v EXCEPT !.isOutput = TRUE] \in VariableRecord
         /\ [v EXCEPT !.isOutput = TRUE].name = v.name
         /\ [v EXCEPT !.isOutput = TRUE].type = v.type
         /\ [v EXCEPT !.isOutput = TRUE].isOutput = TRUE
  BY DEF VariableRecord
<1>2. CASE Known(tt, var.name)
  <2> DEFINE now == {IF v.name = var.name THEN [v EXCEPT !.isOutput = TRUE] ELSE v : v \in tt.byName}
  <2>1. t = [tt EXCEPT !.byName = now]
    BY <1>2 DEF UpdateToOutput
  <2>2. tt.byName \subseteq VariableRecord
    BY DEF Theory
  <2>3. now \in SUBSET VariableRecord
    BY <1>1, <2>2
  <2>4. \A w \in now : \E v \in tt.byName :
           /\ w.name = v.name /\ w.type = v.type
           /\ v.name = var.name => w.isOutput
           /\ v.name # var.name => w.isOutput = v.isOutput
    <3> TAKE w \in now
    <3>1. PICK v \in tt.byName :
             w = IF v.name = var.name THEN [v EXCEPT !.isOutput = TRUE] ELSE v
      OBVIOUS
    <3>2. v \in VariableRecord
      BY <2>2
    <3>3. /\ w.name = v.name /\ w.type = v.type
          /\ v.name = var.name => w.isOutput
          /\ v.name # var.name => w.isOutput = v.isOutput
      BY <1>1, <3>1, <3>2
    <3> HIDE DEF now
    <3> QED BY <3>3
  <2>5. \A v \in tt.byName : \E w \in now : w.name = v.name /\ w.type = v.type
    BY <1>1, <2>2
  <2> HIDE DEF t, now
  <2>6. /\ t \in Theory /\ t.byName = now
        /\ t.bOps = tt.bOps /\ t.uOps = tt.uOps
    BY <2>1, <2>3 DEF Theory
  <2>7. \A n \in N \cup O \cup {var.name} : Known(t, n)
    BY <1>2, <2>5, <2>6 DEF Holds, Known
  <2>8. \A n \in I : \E w \in now : w.name = n /\ w.type = "ArrayIndex"
    BY <2>5 DEF Holds
  <2>9. \A w \in now : /\ w.type = "ArrayIndex" => w.name \in I
                       /\ w.type # "ArrayBound"
                       /\ w.name \in O \cup {var.name} => w.isOutput
    BY <2>4 DEF Holds
  <2>10. Holds(t, I, N, B, U, O \cup {var.name})
    BY <2>6, <2>7, <2>8, <2>9 DEF Holds
  <2> QED BY <2>6, <2>10 DEF t
<1>3. CASE ~ Known(tt, var.name)
  <2> DEFINE new == [var EXCEPT !.isOutput = TRUE]
  <2>1. t = AddVariable(tt, new)
    BY <1>3 DEF UpdateToOutput
  <2>2. Plain(new) /\ new.name = var.name /\ new.isOutput = TRUE
    BY <1>1 DEF Plain
  <2> HIDE DEF t, new
  <2>3. /\ t \in Theory /\ t.byName = tt.byName \cup {new}
        /\ t.bOps = tt.bOps /\ t.uOps = tt.uOps
    BY <1>3, <2>1, <2>2, AddTyped DEF Plain
  <2>4. \A n \in N \cup O \cup {var.name} : Known(t, n)
    BY <2>2, <2>3 DEF Holds, Known
  <2>5. \A v \in tt.byName : v.name # var.name
    BY <1>3 DEF Known
  <2>6. Holds(t, I, N, B, U, O \cup {var.name})
    BY <2>2, <2>3, <2>4, <2>5 DEF Holds, Plain
  <2> QED BY <2>3, <2>6 DEF t
<1> QED BY <1>2, <1>3

LEMMA RangeAppend ==
    ASSUME NEW s \in Seq(Name), NEW n \in Name
    PROVE  SeqRange(Append(s, n)) = SeqRange(s) \cup {n}
<1>1. DOMAIN Append(s, n) = 1 .. Len(s) + 1
  OBVIOUS
<1>2. \A k \in 1 .. Len(s) : Append(s, n)[k] = s[k]
  OBVIOUS
<1>3. Append(s, n)[Len(s) + 1] = n /\ Len(s) \in Nat /\ DOMAIN s = 1 .. Len(s)
  OBVIOUS
<1>4. \A k \in 1 .. Len(s) + 1 : k \in 1 .. Len(s) \/ k = Len(s) + 1
  BY <1>3
<1>5. SeqRange(Append(s, n)) \subseteq SeqRange(s) \cup {n}
  BY <1>1, <1>2, <1>3, <1>4 DEF SeqRange
<1>6. SeqRange(s) \subseteq SeqRange(Append(s, n))
  BY <1>1, <1>2, <1>3 DEF SeqRange
<1>7. n \in SeqRange(Append(s, n))
  BY <1>1, <1>3 DEF SeqRange
<1> QED BY <1>5, <1>6, <1>7

LEMMA NotedHolds ==
    ASSUME NEW tt \in Theory, NEW I, NEW N, NEW B, NEW U, NEW O, Holds(tt, I, N, B, U, O),
           NEW n \in Name
    PROVE  /\ [tt EXCEPT !.bOps = Append(@, n)] \in Theory
           /\ Holds([tt EXCEPT !.bOps = Append(@, n)], I, N, B \cup {n}, U, O)
           /\ [tt EXCEPT !.uOps = Append(@, n)] \in Theory
           /\ Holds([tt EXCEPT !.uOps = Append(@, n)], I, N, B, U \cup {n}, O)
<1>1. tt.bOps \in Seq(Name) /\ tt.uOps \in Seq(Name)
  BY DEF Theory
<1>2. Append(tt.bOps, n) \in Seq(Name) /\ Append(tt.uOps, n) \in Seq(Name)
  BY <1>1
<1>3. /\ SeqRange(Append(tt.bOps, n)) = SeqRange(tt.bOps) \cup {n}
      /\ SeqRange(Append(tt.uOps, n)) = SeqRange(tt.uOps) \cup {n}
  BY <1>1, RangeAppend
<1>4. ASSUME NEW b \in Seq(Name), SeqRange(b) = SeqRange(tt.bOps) \cup {n}
      PROVE  [tt EXCEPT !.bOps = b] \in Theory /\ Holds([tt EXCEPT !.bOps = b], I, N, B \cup {n}, U, O)
  BY <1>4 DEF Theory, Holds, Known
<1>5. ASSUME NEW b \in Seq(Name), SeqRange(b) = SeqRange(tt.uOps) \cup {n}
      PROVE  [tt EXCEPT !.uOps = b] \in Theory /\ Holds([tt EXCEPT !.uOps = b], I, N, B, U \cup {n}, O)
  BY <1>5 DEF Theory, Holds, Known
<1> QED BY <1>2, <1>3, <1>4, <1>5

LEMMA AddOpHolds ==
    ASSUME NEW tt \in Theory, NEW I, NEW N, NEW B, NEW U, NEW O, Holds(tt, I, N, B, U, O),
           NEW left, Plain(left), NEW right, Plain(right), NEW op, Plain(op)
    PROVE  /\ AddBOp(tt, left, right, op) \in Theory
           /\ Holds(AddBOp(tt, left, right, op), I, N \cup {left.name, right.name, op.name},
                    B \cup {op.name}, U, O)
           /\ AddUOp(tt, left, op) \in Theory
           /\ Holds(AddUOp(tt, left, op), I, N \cup {left.name, op.name}, B, U \cup {op.name}, O)
<1>0. op.name \in Name
  BY DEF Plain, VariableRecord
<1>1. /\ AddBOp(tt, left, right, op) \in Theory
      /\ Holds(AddBOp(tt, left, right, op), I, N \cup {left.name, right.name, op.name},
               B \cup {op.name}, U, O)
  <2> DEFINE one == AddVariable(tt, right)
             two == AddVariable(one, left)
             three == [two EXCEPT !.bOps = Append(@, op.name)]
  <2>1. one \in Theory /\ Holds(one, I, N \cup {right.name}, B, U, O)
    BY AddHolds
  <2> HIDE DEF one
  <2>2. two \in Theory /\ Holds(two, I, (N \cup {right.name}) \cup {left.name}, B, U, O)
    BY <2>1, AddHolds
  <2> HIDE DEF two
  <2>3. three \in Theory
        /\ Holds(three, I, (N \cup {right.name}) \cup {left.name}, B \cup {op.name}, U, O)
    BY <1>0, <2>2, NotedHolds
  <2> HIDE DEF three
  <2>4. /\ AddVariable(three, op) \in Theory
        /\ Holds(AddVariable(three, op), I, ((N \cup {right.name}) \cup {left.name}) \cup {op.name},
                 B \cup {op.name}, U, O)
    BY <2>3, AddHolds
  <2>5. AddBOp(tt, left, right, op) = AddVariable(three, op)
    BY DEF AddBOp, one, two, three
  <2>6. ((N \cup {right.name}) \cup {left.name}) \cup {op.name} = N \cup {left.name, right.name, op.name}
    OBVIOUS
  <2> QED BY <2>4, <2>5, <2>6
<1>2. /\ AddUOp(tt, left, op) \in Theory
      /\ Holds(AddUOp(tt, left, op), I, N \cup {left.name, op.name}, B, U \cup {op.name}, O)
  <2> DEFINE one == AddVariable(tt, left)
             two == [one EXCEPT !.uOps = Append(@, op.name)]
  <2>1. one \in Theory /\ Holds(one, I, N \cup {left.name}, B, U, O)
    BY AddHolds
  <2> HIDE DEF one
  <2>2. two \in Theory /\ Holds(two, I, N \cup {left.name}, B, U \cup {op.name}, O)
    BY <1>0, <2>1, NotedHolds
  <2> HIDE DEF two
  <2>3. /\ AddVariable(two, op) \in Theory
        /\ Holds(AddVariable(two, op), I, (N \cup {left.name}) \cup {op.name}, B, U \cup {op.name}, O)
    BY <2>2, AddHolds
  <2>4. AddUOp(tt, left, op) = AddVariable(two, op)
    BY DEF AddUOp, one, two
  <2>5. (N \cup {left.name}) \cup {op.name} = N \cup {left.name, op.name}
    OBVIOUS
  <2> QED BY <2>3, <2>4, <2>5
<1> QED BY <1>1, <1>2

LEMMA BoundNothing ==
    ASSUME NEW tt, NEW op, NEW l, Plain(l), NEW r, Plain(r)
    PROVE  Bound(tt, op, l, r) = tt
BY DEF Bound, Plain

-----------------------------------------------------------------------------
(* What is read of a set of expressions is read of each of them.           *)
LEMMA ReadOfEach ==
    /\ \A V, W : /\ Indices(V \cup W) = Indices(V) \cup Indices(W)
                 /\ NamesOf(V \cup W) = NamesOf(V) \cup NamesOf(W)
                 /\ BNames(V \cup W) = BNames(V) \cup BNames(W)
                 /\ UNames(V \cup W) = UNames(V) \cup UNames(W)
    /\ \A e : /\ Indices({e}) = IF e.class = "ArraySubscriptExpr" THEN {NameOf[e.index]} ELSE {}
              /\ NamesOf({e}) = {NameOf[e]}
              /\ BNames({e}) = IF e.class \in {"BinaryOperator", "ArraySubscriptExpr"}
                               THEN {NameOf[e]} ELSE {}
              /\ UNames({e}) = IF e.class = "UnaryOperator" THEN {NameOf[e]} ELSE {}
BY DEF Indices, NamesOf, BNames, UNames, OfClass

With(V, e, W) == V = {e} \cup W

LEMMA ReadWith ==
    ASSUME NEW e, NEW V, NEW W, With(V, e, W)
    PROVE  /\ e.class = "ArraySubscriptExpr" => Indices(V) = {NameOf[e.index]} \cup Indices(W)
           /\ e.class # "ArraySubscriptExpr" => Indices(V) = Indices(W)
           /\ NamesOf(V) = {NameOf[e]} \cup NamesOf(W)
           /\ e.class \in {"BinaryOperator", "ArraySubscriptExpr"} =>
                 BNames(V) = {NameOf[e]} \cup BNames(W)
           /\ e.class \notin {"BinaryOperator", "ArraySubscriptExpr"} => BNames(V) = BNames(W)
           /\ e.class = "UnaryOperator" => UNames(V) = {NameOf[e]} \cup UNames(W)
           /\ e.class # "UnaryOperator" => UNames(V) = UNames(W)
<1>1. /\ Indices(V) = Indices({e}) \cup Indices(W)
      /\ NamesOf(V) = NamesOf({e}) \cup NamesOf(W)
      /\ BNames(V) = BNames({e}) \cup BNames(W)
      /\ UNames(V) = UNames({e}) \cup UNames(W)
  BY ReadOfEach DEF With
<1>2. /\ Indices({e}) = IF e.class = "ArraySubscriptExpr" THEN {NameOf[e.index]} ELSE {}
      /\ NamesOf({e}) = {NameOf[e]}
      /\ BNames({e}) = IF e.class \in {"BinaryOperator", "ArraySubscriptExpr"} THEN {NameOf[e]} ELSE {}
      /\ UNames({e}) = IF e.class = "UnaryOperator" THEN {NameOf[e]} ELSE {}
  BY ReadOfEach
<1> QED BY <1>1, <1>2

(* What a call of HandleOperand does.                                      *)
Gathers(g, V, n) ==
    \A u \in BOOLEAN, tt \in Theory : \A I, N, B, U, O \in SUBSET Name :
        Holds(tt, I, N, B, U, O) =>
            /\ g[u][tt].tt \in Theory
            /\ Holds(g[u][tt].tt, I \cup Indices(V), N \cup NamesOf(V), B \cup BNames(V), U \cup UNames(V), O)
            /\ Plain(g[u][tt].var) /\ g[u][tt].var.name = n

LEMMA NamesAreNames ==
    ASSUME NEW V \in SUBSET Meaningful
    PROVE  /\ Indices(V) \in SUBSET Name /\ NamesOf(V) \in SUBSET Name
           /\ BNames(V) \in SUBSET Name /\ UNames(V) \in SUBSET Name
<1>1. \A e \in V : NameOf[e] \in Name
  BY NameRight
<1>2. \A e \in V : e.class = "ArraySubscriptExpr" => NameOf[e.index] \in Name
  BY NameRight, MeaningfulShapes
<1> QED BY <1>1, <1>2 DEF Indices, NamesOf, BNames, UNames, OfClass

LEMMA WithinMeaningful ==
    ASSUME NEW e \in Meaningful
    PROVE  /\ Within[e] \in SUBSET Meaningful
           /\ Within[e] = {e} \cup UNION {Within[p] : p \in Children(e)}
           /\ NameOf[e] \in NamesOf(Within[e])
<1> DEFINE K == {k \in Nat : \A x \in Meaningful : height[x] < k => Within[x] \subseteq Meaningful}
<1>1. 0 \in K
  BY MeaningfulShapes
<1>2. ASSUME NEW k \in Nat, k \in K
      PROVE  k + 1 \in K
  <2>1. ASSUME NEW x \in Meaningful, height[x] < k + 1
        PROVE  Within[x] \subseteq Meaningful
    <3>1. \A p \in Children(x) : p \in Meaningful /\ height[p] < k
      BY <2>1, MeaningfulShapes
    <3>2. \A p \in Children(x) : Within[p] \subseteq Meaningful
      BY <1>2, <3>1
    <3>3. Within[x] = {x} \cup UNION {Within[p] : p \in Children(x)}
      BY WithinRight, MeaningfulShapes
    <3> QED BY <3>2, <3>3
  <2> QED BY <2>1
<1>3. Nat \subseteq K
  <2> HIDE DEF K
  <2> QED BY <1>1, <1>2, Induction
<1>4. Within[e] \subseteq Meaningful
  <2>1. height[e] \in Nat /\ height[e] + 1 \in K
    BY <1>3, MeaningfulShapes
  <2> QED BY <2>1
<1>5. Within[e] = {e} \cup UNION {Within[p] : p \in Children(e)}
  BY WithinRight, MeaningfulShapes
<1> QED BY <1>4, <1>5 DEF NamesOf

(* The operands of a binary operator have been added, in either order.     *)
Operands(tt, e, I, N, B, U, O) ==
    Holds(tt, (I \cup Indices(Within[e.rhs])) \cup Indices(Within[e.lhs]),
          (N \cup NamesOf(Within[e.rhs])) \cup NamesOf(Within[e.lhs]),
          (B \cup BNames(Within[e.rhs])) \cup BNames(Within[e.lhs]),
          (U \cup UNames(Within[e.rhs])) \cup UNames(Within[e.lhs]), O)

(* All that is in e has been added.                                        *)
Node(tt, e, I, N, B, U, O) ==
    Holds(tt, I \cup Indices(Within[e]), N \cup NamesOf(Within[e]),
          B \cup BNames(Within[e]), U \cup UNames(Within[e]), O)

(* After its two operands, a binary operator adds itself.                  *)
LEMMA BinaryHolds ==
    ASSUME NEW e \in Meaningful, e.class = "BinaryOperator", NEW u \in BOOLEAN, NEW tt \in Theory,
           NEW I, NEW N, NEW B, NEW U, NEW O, Operands(tt, e, I, N, B, U, O),
           NEW l, Plain(l), l.name = NameOf[e.lhs], NEW r, Plain(r), r.name = NameOf[e.rhs]
    PROVE  \A bOp : bOp = BinaryOperation(l, r, e.op, u) =>
               /\ AddBOp(tt, l, r, bOp) \in Theory
               /\ Node(AddBOp(tt, l, r, bOp), e, I, N, B, U, O)
               /\ Plain(bOp) /\ bOp.name = NameOf[e]
<1> TAKE bOp
<1> HAVE bOp = BinaryOperation(l, r, e.op, u)
<1> DEFINE after == AddBOp(tt, l, r, bOp)
           V == Within[e]
           X == Within[e.rhs]
           Y == Within[e.lhs]
           W == X \cup Y
           m == NameOf[e.rhs]
           n == NameOf[e.lhs]
           I2 == (I \cup Indices(X)) \cup Indices(Y)
           N2 == (N \cup NamesOf(X)) \cup NamesOf(Y)
           B2 == (B \cup BNames(X)) \cup BNames(Y)
           U2 == (U \cup UNames(X)) \cup UNames(Y)
<1>1. /\ e.rhs \in Meaningful /\ e.lhs \in Meaningful /\ Children(e) = {e.lhs, e.rhs}
      /\ e.op \in Word
  BY MeaningfulShapes, Shapes
<1>2. NameOf[e] = Joined(n, m, e.op)
  BY NameRight DEF NameBody, Joined
<1>3. m \in NamesOf(X) /\ n \in NamesOf(Y)
  BY <1>1, WithinMeaningful
<1>4. With(V, e, W)
  BY <1>1, WithinMeaningful DEF With
<1>5. Holds(tt, I2, N2, B2, U2, O)
  BY DEF Operands
<1> HIDE DEF V, W, X, Y, m, n, I2, N2, B2, U2
<1>6. /\ Indices(V) = Indices(W) /\ NamesOf(V) = {NameOf[e]} \cup NamesOf(W)
      /\ BNames(V) = {NameOf[e]} \cup BNames(W) /\ UNames(V) = UNames(W)
  BY <1>4, ReadWith
<1>7. /\ Indices(W) = Indices(X) \cup Indices(Y) /\ NamesOf(W) = NamesOf(X) \cup NamesOf(Y)
      /\ BNames(W) = BNames(X) \cup BNames(Y) /\ UNames(W) = UNames(X) \cup UNames(Y)
  BY ReadOfEach DEF W
<1>8. Plain(bOp) /\ bOp.name = NameOf[e]
  <2>1. l \in VariableRecord /\ r \in VariableRecord /\ l.name = n /\ r.name = m
    BY DEF Plain, m, n
  <2>2. /\ bOp \in VariableRecord /\ bOp.name = Joined(l.name, r.name, e.op)
        /\ bOp.type = "unknown"
    BY <1>1, <2>1, BinaryTyped
  <2> QED BY <1>2, <2>1, <2>2 DEF Plain
<1>9. l.name = n /\ r.name = m
  BY DEF m, n
<1>10. /\ after \in Theory
       /\ Holds(after, I2, N2 \cup {n, m, NameOf[e]}, B2 \cup {NameOf[e]}, U2, O)
  <2>1. /\ after \in Theory
        /\ Holds(after, I2, N2 \cup {l.name, r.name, bOp.name}, B2 \cup {bOp.name}, U2, O)
    BY <1>5, <1>8, AddOpHolds
  <2> QED BY <1>8, <1>9, <2>1
<1>11. /\ I2 = I \cup Indices(V) /\ N2 \cup {n, m, NameOf[e]} = N \cup NamesOf(V)
       /\ B2 \cup {NameOf[e]} = B \cup BNames(V) /\ U2 = U \cup UNames(V)
  BY <1>3, <1>6, <1>7 DEF I2, N2, B2, U2
<1>12. Holds(after, I \cup Indices(V), N \cup NamesOf(V), B \cup BNames(V), U \cup UNames(V), O)
  BY <1>10, <1>11
<1> QED BY <1>8, <1>10, <1>12 DEF Node, V

LEMMA BodyGathers ==
    ASSUME NEW e \in Meaningful,
           \A p \in Children(e) : Gathers(HandleOperand[p], Within[p], NameOf[p])
    PROVE  Gathers(HandleOperand[e], Within[e], NameOf[e])
<1> SUFFICES ASSUME NEW u \in BOOLEAN, NEW tt \in Theory,
                    NEW I \in SUBSET Name, NEW N \in SUBSET Name, NEW B \in SUBSET Name,
                    NEW U \in SUBSET Name, NEW O \in SUBSET Name, Holds(tt, I, N, B, U, O)
             PROVE  LET r == HandleOperand[e][u][tt]
                        V == Within[e]
                    IN  /\ r.tt \in Theory
                        /\ Holds(r.tt, I \cup Indices(V), N \cup NamesOf(V), B \cup BNames(V), U \cup UNames(V), O)
                        /\ Plain(r.var) /\ r.var.name = NameOf[e]
  BY DEF Gathers
<1> DEFINE r == HandleOperand[e][u][tt]
           V == Within[e]
           Goal == /\ r.tt \in Theory
                   /\ Holds(r.tt, I \cup Indices(V), N \cup NamesOf(V), B \cup BNames(V), U \cup UNames(V), O)
                   /\ Plain(r.var) /\ r.var.name = NameOf[e]
<1>1. r = OperandBody(HandleOperand, e, u, tt)
  <2>1. \A p \in Children(e) : HandleOperand[p] \in Handler
    BY HandleRight, MeaningfulShapes
  <2> QED BY <2>1, HandleRight, HandlerBodyRight
<1>2. NameOf[e] = NameBody(NameOf, e)
  BY NameRight
<1>3. V = {e} \cup UNION {Within[p] : p \in Children(e)}
  BY WithinMeaningful
<1>4. \A p \in Children(e) : /\ p \in Meaningful /\ NameOf[p] \in Name
                          /\ Within[p] \in SUBSET Meaningful
                          /\ NameOf[p] \in NamesOf(Within[p])
                          /\ Indices(Within[p]) \in SUBSET Name /\ NamesOf(Within[p]) \in SUBSET Name
                          /\ BNames(Within[p]) \in SUBSET Name /\ UNames(Within[p]) \in SUBSET Name
  BY MeaningfulShapes, NameRight, WithinMeaningful, NamesAreNames
<1>5. CASE e.class = "ImplicitCastExpr"
  <2>1. e.sub \in Children(e) /\ Children(e) = {e.sub}
    BY <1>5, MeaningfulShapes, Shapes
  <2>2. r = HandleOperand[e.sub][u][tt] /\ NameOf[e] = NameOf[e.sub]
    BY <1>1, <1>2, <1>5 DEF OperandBody, NameBody
  <2>3. V = {e} \cup Within[e.sub]
    BY <1>3, <2>1
  <2>4. /\ Indices(V) = Indices(Within[e.sub]) /\ NamesOf(V) = NamesOf(Within[e.sub])
        /\ BNames(V) = BNames(Within[e.sub]) /\ UNames(V) = UNames(Within[e.sub])
    <3>1. NamesOf(V) = {NameOf[e.sub]} \cup NamesOf(Within[e.sub])
      BY <2>2, <2>3, ReadWith DEF With
    <3>2. /\ Indices(V) = Indices(Within[e.sub])
          /\ BNames(V) = BNames(Within[e.sub]) /\ UNames(V) = UNames(Within[e.sub])
      <4> DEFINE W == Within[e.sub]
      <4> HIDE DEF V, W
      <4>1. With(V, e, W)
        BY <2>3 DEF W, With
      <4>2. Indices(V) = Indices(W) /\ BNames(V) = BNames(W) /\ UNames(V) = UNames(W)
        BY <1>5, <4>1, ReadWith
      <4> QED BY <4>2 DEF W
    <3> QED BY <1>4, <2>1, <3>1, <3>2
  <2>5. Gathers(HandleOperand[e.sub], Within[e.sub], NameOf[e.sub])
    BY <2>1
  <2> HIDE DEF V, r
  <2>6. Goal
    BY <2>2, <2>4, <2>5 DEF Gathers
  <2> QED BY <2>6 DEF V, r
<1>6. CASE e.class \in {"Literal", "DeclRefExpr"}
  <2> DEFINE leaf == Variable(e.name, e.type, u)
  <2>1. e.name \in Name /\ e.type \in CType /\ Children(e) = {}
    BY <1>6, MeaningfulShapes, Shapes
  <2>2. Plain(leaf) /\ leaf.name = e.name
    <3>1. e.type \in Word /\ e.type # "ArrayIndex" /\ e.type # "ArrayBound"
      BY <2>1 DEF CType
    <3> QED BY <2>1, <3>1, VariableTyped DEF Plain
  <2>3. r = [tt |-> AddVariable(tt, leaf), var |-> leaf]
    BY <1>1, <1>6 DEF OperandBody
  <2>4. NameOf[e] = e.name
    BY <1>2, <1>6 DEF NameBody
  <2>5. V = {e}
    BY <1>3, <2>1
  <2>6. Indices(V) = {} /\ NamesOf(V) = {e.name} /\ BNames(V) = {} /\ UNames(V) = {}
    BY <1>6, <2>4, <2>5, ReadOfEach
  <2> HIDE DEF V, r, leaf
  <2>7. /\ AddVariable(tt, leaf) \in Theory
        /\ Holds(AddVariable(tt, leaf), I, N \cup {e.name}, B, U, O)
    BY <2>2, AddHolds
  <2>8. /\ I \cup Indices(V) = I /\ N \cup NamesOf(V) = N \cup {e.name}
        /\ B \cup BNames(V) = B /\ U \cup UNames(V) = U
    BY <2>6
  <2>9. r.tt = AddVariable(tt, leaf) /\ r.var = leaf
    BY <2>3
  <2>10. Goal
    BY <2>2, <2>4, <2>7, <2>8, <2>9
  <2> QED BY <2>10 DEF V, r
<1>7. CASE e.class = "ArraySubscriptExpr"
  <2> DEFINE index  == HandleOperand[e.index][u][tt]
             mid    == UpdateToIndex(index.tt, index.var)
             base   == HandleOperand[e.base][u][mid]
             access == BinaryOperation(index.var, base.var, "[]", u)
             after  == AddBOp(base.tt, index.var, base.var, access)
             X == Within[e.index]
             Y == Within[e.base]
             m == NameOf[e.index]
             n == NameOf[e.base]
  <2>1. e.index \in Children(e) /\ e.base \in Children(e) /\ Children(e) = {e.index, e.base}
    BY <1>7, MeaningfulShapes, Shapes
  <2>2. Gathers(HandleOperand[e.index], X, m) /\ Gathers(HandleOperand[e.base], Y, n)
    BY <2>1
  <2>3. r = [tt |-> after, var |-> access]
    BY <1>1, <1>7 DEF OperandBody
  <2>4. NameOf[e] = Joined(m, n, "[]")
    BY <1>2, <1>7 DEF NameBody, Joined
  <2>5. /\ m \in Name /\ m \in NamesOf(X) /\ n \in Name /\ n \in NamesOf(Y)
        /\ Indices(X) \in SUBSET Name /\ NamesOf(X) \in SUBSET Name
        /\ BNames(X) \in SUBSET Name /\ UNames(X) \in SUBSET Name
    BY <1>4, <2>1
  <2>6. V = {e} \cup (X \cup Y)
    BY <1>3, <2>1
  <2>7. /\ Indices(V) = {m} \cup (Indices(X) \cup Indices(Y))
        /\ NamesOf(V) = {NameOf[e]} \cup (NamesOf(X) \cup NamesOf(Y))
        /\ BNames(V) = {NameOf[e]} \cup (BNames(X) \cup BNames(Y))
        /\ UNames(V) = UNames(X) \cup UNames(Y)
    <3>1. /\ Indices(X \cup Y) = Indices(X) \cup Indices(Y)
          /\ NamesOf(X \cup Y) = NamesOf(X) \cup NamesOf(Y)
          /\ BNames(X \cup Y) = BNames(X) \cup BNames(Y)
          /\ UNames(X \cup Y) = UNames(X) \cup UNames(Y)
      BY ReadOfEach
    <3> DEFINE W == X \cup Y
    <3> HIDE DEF V, X, Y, W
    <3>2. With(V, e, W)
      BY <2>6 DEF W, With
    <3>3. Indices(V) = {m} \cup Indices(W) /\ NamesOf(V) = {NameOf[e]} \cup NamesOf(W)
          /\ BNames(V) = {NameOf[e]} \cup BNames(W) /\ UNames(V) = UNames(W)
      BY <1>7, <3>2, ReadWith
    <3> QED BY <3>1, <3>3 DEF W
  <2> HIDE DEF V, r, X, Y
  <2>8. /\ index.tt \in Theory
        /\ Holds(index.tt, I \cup Indices(X), N \cup NamesOf(X), B \cup BNames(X), U \cup UNames(X), O)
        /\ Plain(index.var) /\ index.var.name = m
    BY <2>2 DEF Gathers
  <2> HIDE DEF index
  <2>9. /\ mid \in Theory
        /\ Holds(mid, (I \cup Indices(X)) \cup {m}, (N \cup NamesOf(X)) \cup {m}, B \cup BNames(X),
                 U \cup UNames(X), O)
    BY <2>8, IndexHolds
  <2> HIDE DEF mid
  <2>10. /\ base.tt \in Theory
         /\ Holds(base.tt, ((I \cup Indices(X)) \cup {m}) \cup Indices(Y),
                  ((N \cup NamesOf(X)) \cup {m}) \cup NamesOf(Y),
                  (B \cup BNames(X)) \cup BNames(Y), (U \cup UNames(X)) \cup UNames(Y), O)
         /\ Plain(base.var) /\ base.var.name = n
    <3> DEFINE I2 == (I \cup Indices(X)) \cup {m}
               N2 == (N \cup NamesOf(X)) \cup {m}
               B2 == B \cup BNames(X)
               U2 == U \cup UNames(X)
    <3>1. /\ I2 \in SUBSET Name /\ N2 \in SUBSET Name
          /\ B2 \in SUBSET Name /\ U2 \in SUBSET Name
      BY <2>5
    <3>2. Holds(mid, I2, N2, B2, U2, O)
      BY <2>9
    <3> HIDE DEF I2, N2, B2, U2, m, n
    <3>3. /\ base.tt \in Theory
          /\ Holds(base.tt, I2 \cup Indices(Y), N2 \cup NamesOf(Y), B2 \cup BNames(Y), U2 \cup UNames(Y), O)
          /\ Plain(base.var) /\ base.var.name = n
      BY <2>2, <2>9, <3>1, <3>2 DEF Gathers
    <3> QED BY <3>3 DEF I2, N2, B2, U2
  <2> HIDE DEF base
  <2>11. Plain(access) /\ access.name = Joined(m, n, "[]")
    <3> HIDE DEF m, n
    <3>1. index.var \in VariableRecord /\ base.var \in VariableRecord /\ "[]" \in Word
      BY <2>8, <2>10, NamesJoin DEF Plain
    <3>2. /\ access \in VariableRecord
          /\ access.name = Joined(index.var.name, base.var.name, "[]")
          /\ access.type = "unknown"
      BY <3>1, BinaryTyped
    <3>3. access.name = Joined(m, n, "[]")
      BY <2>8, <2>10, <3>2
    <3> QED BY <3>2, <3>3 DEF Plain
  <2> HIDE DEF access
  <2>12. access.name = NameOf[e]
    BY <2>4, <2>11
  <2>13. /\ after \in Theory
         /\ Holds(after, ((I \cup Indices(X)) \cup {m}) \cup Indices(Y),
                  (((N \cup NamesOf(X)) \cup {m}) \cup NamesOf(Y)) \cup {m, n, NameOf[e]},
                  ((B \cup BNames(X)) \cup BNames(Y)) \cup {NameOf[e]}, (U \cup UNames(X)) \cup UNames(Y), O)
    <3> DEFINE I2 == ((I \cup Indices(X)) \cup {m}) \cup Indices(Y)
               N2 == ((N \cup NamesOf(X)) \cup {m}) \cup NamesOf(Y)
               B2 == (B \cup BNames(X)) \cup BNames(Y)
               U2 == (U \cup UNames(X)) \cup UNames(Y)
    <3>1. base.tt \in Theory /\ Holds(base.tt, I2, N2, B2, U2, O)
      BY <2>10
    <3> HIDE DEF I2, N2, B2, U2, m, n
    <3>2. /\ after \in Theory
          /\ Holds(after, I2, N2 \cup {index.var.name, base.var.name, access.name},
                   B2 \cup {access.name}, U2, O)
      BY <2>8, <2>10, <2>11, <3>1, AddOpHolds
    <3>3. Holds(after, I2, N2 \cup {m, n, NameOf[e]}, B2 \cup {NameOf[e]}, U2, O)
      BY <2>8, <2>10, <2>12, <3>2
    <3> QED BY <3>2, <3>3 DEF I2, N2, B2, U2
  <2> HIDE DEF after
  <2>14. /\ ((I \cup Indices(X)) \cup {m}) \cup Indices(Y) = I \cup Indices(V)
         /\ (((N \cup NamesOf(X)) \cup {m}) \cup NamesOf(Y)) \cup {m, n, NameOf[e]} = N \cup NamesOf(V)
         /\ ((B \cup BNames(X)) \cup BNames(Y)) \cup {NameOf[e]} = B \cup BNames(V)
         /\ (U \cup UNames(X)) \cup UNames(Y) = U \cup UNames(V)
    <3> HIDE DEF m, n
    <3> QED BY <2>5, <2>7
  <2>15. r.tt = after /\ r.var = access
    BY <2>3
  <2>16. Goal
    BY <2>11, <2>12, <2>13, <2>14, <2>15
  <2> QED BY <2>16 DEF V, r
<1>8. CASE e.class = "BinaryOperator"
  <2> DEFINE rhs   == HandleOperand[e.rhs][u][tt]
             lhs   == HandleOperand[e.lhs][u][rhs.tt]
             bOp   == BinaryOperation(lhs.var, rhs.var, e.op, u)
             after == AddBOp(Bound(lhs.tt, e.op, lhs.var, rhs.var), lhs.var, rhs.var, bOp)
             X == Within[e.rhs]
             Y == Within[e.lhs]
             I2 == I \cup Indices(X)
             N2 == N \cup NamesOf(X)
             B2 == B \cup BNames(X)
             U2 == U \cup UNames(X)
  <2>1. e.rhs \in Children(e) /\ e.lhs \in Children(e)
    BY <1>8, MeaningfulShapes
  <2>2. Gathers(HandleOperand[e.rhs], X, NameOf[e.rhs]) /\ Gathers(HandleOperand[e.lhs], Y, NameOf[e.lhs])
    BY <2>1
  <2>3. r = [tt |-> after, var |-> bOp]
    BY <1>1, <1>8 DEF OperandBody
  <2>4. I2 \in SUBSET Name /\ N2 \in SUBSET Name /\ B2 \in SUBSET Name /\ U2 \in SUBSET Name
    BY <1>4, <2>1
  <2> HIDE DEF X, Y
  <2>5. rhs.tt \in Theory /\ Holds(rhs.tt, I2, N2, B2, U2, O) /\ Plain(rhs.var) /\ rhs.var.name = NameOf[e.rhs]
    BY <2>2 DEF Gathers
  <2> HIDE DEF rhs, I2, N2, B2, U2
  <2>6. /\ lhs.tt \in Theory
        /\ Holds(lhs.tt, I2 \cup Indices(Y), N2 \cup NamesOf(Y), B2 \cup BNames(Y), U2 \cup UNames(Y), O)
        /\ Plain(lhs.var) /\ lhs.var.name = NameOf[e.lhs]
    BY <2>2, <2>4, <2>5 DEF Gathers
  <2> HIDE DEF lhs
  <2>7. after = AddBOp(lhs.tt, lhs.var, rhs.var, bOp)
    BY <2>5, <2>6, BoundNothing
  <2> HIDE DEF bOp, after
  <2>8. Operands(lhs.tt, e, I, N, B, U, O)
    BY <2>6 DEF Operands, I2, N2, B2, U2, X, Y
  <2>9. Goal
    <3>1. /\ AddBOp(lhs.tt, lhs.var, rhs.var, bOp) \in Theory
          /\ Node(AddBOp(lhs.tt, lhs.var, rhs.var, bOp), e, I, N, B, U, O)
          /\ Plain(bOp) /\ bOp.name = NameOf[e]
      <4>1. bOp = BinaryOperation(lhs.var, rhs.var, e.op, u)
        BY DEF bOp
      <4> QED BY <1>8, <2>5, <2>6, <2>8, <4>1, BinaryHolds
    <3>2. r.tt = after /\ r.var = bOp
      BY <2>3
    <3> HIDE DEF r
    <3> QED BY <2>7, <3>1, <3>2 DEF Node
  <2> QED BY <2>9
<1>9. CASE e.class = "UnaryOperator"
  <2> DEFINE sub   == HandleOperand[e.sub][u][tt]
             uOp   == UnaryOperation(sub.var, e.op, e.prefix, u)
             after == AddUOp(sub.tt, sub.var, uOp)
             X == Within[e.sub]
             m == NameOf[e.sub]
  <2>1. e.sub \in Children(e) /\ Children(e) = {e.sub} /\ e.op \in Word /\ e.prefix \in BOOLEAN
    BY <1>9, MeaningfulShapes, Shapes
  <2>2. Gathers(HandleOperand[e.sub], X, m)
    BY <2>1
  <2>3. r = [tt |-> after, var |-> uOp]
    BY <1>1, <1>9 DEF OperandBody
  <2>4. NameOf[e] = IF e.prefix THEN <<e.op>> \o m ELSE Append(m, e.op)
    BY <1>2, <1>9 DEF NameBody
  <2>5. m \in Name /\ m \in NamesOf(X)
    BY <1>4, <2>1
  <2>6. V = {e} \cup X
    BY <1>3, <2>1
  <2>7. /\ Indices(V) = Indices(X)
        /\ NamesOf(V) = {NameOf[e]} \cup NamesOf(X)
        /\ BNames(V) = BNames(X)
        /\ UNames(V) = {NameOf[e]} \cup UNames(X)
    <3> HIDE DEF V, X
    <3>1. With(V, e, X)
      BY <2>6 DEF With
    <3> QED BY <1>9, <3>1, ReadWith
  <2> HIDE DEF V, r, X
  <2>8. /\ sub.tt \in Theory
        /\ Holds(sub.tt, I \cup Indices(X), N \cup NamesOf(X), B \cup BNames(X), U \cup UNames(X), O)
        /\ Plain(sub.var) /\ sub.var.name = m
    BY <2>2 DEF Gathers
  <2> HIDE DEF sub
  <2>9. Plain(uOp) /\ uOp.name = NameOf[e]
    <3> HIDE DEF m
    <3>1. sub.var \in VariableRecord
      BY <2>8 DEF Plain
    <3>2. /\ uOp \in VariableRecord
          /\ uOp.name = IF e.prefix THEN <<e.op>> \o sub.var.name ELSE Append(sub.var.name, e.op)
          /\ uOp.type = "unknown"
      BY <2>1, <3>1, UnaryTyped
    <3> QED BY <2>4, <2>8, <3>2 DEF Plain
  <2> HIDE DEF uOp
  <2>10. /\ after \in Theory
         /\ Holds(after, I \cup Indices(X), (N \cup NamesOf(X)) \cup {m, NameOf[e]}, B \cup BNames(X),
                  (U \cup UNames(X)) \cup {NameOf[e]}, O)
    BY <2>8, <2>9, AddOpHolds
  <2> HIDE DEF after
  <2>11. /\ I \cup Indices(X) = I \cup Indices(V)
         /\ (N \cup NamesOf(X)) \cup {m, NameOf[e]} = N \cup NamesOf(V)
         /\ B \cup BNames(X) = B \cup BNames(V)
         /\ (U \cup UNames(X)) \cup {NameOf[e]} = U \cup UNames(V)
    <3> HIDE DEF m
    <3> QED BY <2>5, <2>7
  <2>12. r.tt = after /\ r.var = uOp
    BY <2>3
  <2>13. Goal
    BY <2>9, <2>10, <2>11, <2>12
  <2> QED BY <2>13 DEF V, r
<1>10. Goal
  BY <1>5, <1>6, <1>7, <1>8, <1>9, MeaningfulShapes
<1> QED BY <1>10

(* HandleOperand adds what there is in an expression, and nothing else.    *)
LEMMA HandleGathers ==
    ASSUME NEW e \in Meaningful
    PROVE  Gathers(HandleOperand[e], Within[e], NameOf[e])
<1> DEFINE Right(x) == Gathers(HandleOperand[x], Within[x], NameOf[x])
           K == {k \in Nat : \A x \in Meaningful : height[x] < k => Right(x)}
<1>1. 0 \in K
  BY MeaningfulShapes
<1>2. ASSUME NEW k \in Nat, k \in K
      PROVE  k + 1 \in K
  <2>1. ASSUME NEW x \in Meaningful, height[x] < k + 1
        PROVE  Right(x)
    <3>1. \A p \in Children(x) : p \in Meaningful /\ height[p] < k
      BY <2>1, MeaningfulShapes
    <3>2. \A p \in Children(x) : Right(p)
      BY <1>2, <3>1
    <3> QED BY <3>2, BodyGathers
  <2> HIDE DEF Right
  <2> QED BY <2>1
<1>3. Nat \subseteq K
  <2> HIDE DEF K
  <2> QED BY <1>1, <1>2, Induction
<1>4. height[e] \in Nat /\ height[e] + 1 \in K
  BY <1>3, MeaningfulShapes
<1> QED BY <1>4

-----------------------------------------------------------------------------
AddedBody(tt, params, f, k) == IF k = 0 THEN tt ELSE AddVariable(f[k - 1], Input(params[k]))

(* The parameters are added one after the other.                           *)
LEMMA InputsHold ==
    ASSUME NEW tt \in Theory, Holds(tt, {}, {}, {}, {}, {}), NEW params \in Seq(Declaration)
    PROVE  /\ WithInputs(tt, params) \in Theory
           /\ Holds(WithInputs(tt, params), {}, {}, {}, {}, {})
<1> DEFINE D == 0 .. Len(params)
           h == [k \in D |-> k]
           step == [z \in D \X [D -> Theory] |-> AddedBody(tt, params, z[2], z[1])]
           Eq(f) == f = [k \in D |-> AddedBody(tt, params, f, k)]
           added == CHOOSE f : Eq(f)
<1>0. Len(params) \in Nat /\ \A k \in 1 .. Len(params) : params[k] \in Declaration
  OBVIOUS
<1>1. \A p \in Declaration : Plain(Input(p))
  <2> TAKE p \in Declaration
  <2>1. /\ p.name \in Name /\ p.type \in Word /\ p.type # "ArrayIndex" /\ p.type # "ArrayBound"
    BY DEF Declaration, CType
  <2> QED BY <2>1 DEF Input, Variable, Plain, VariableRecord
<1>2. ASSUME NEW k \in D, k # 0
      PROVE  k - 1 \in D /\ k - 1 < k /\ Plain(Input(params[k]))
  BY <1>0, <1>1, <1>2
<1>3. ASSUME NEW k \in D, NEW f, k # 0 => f[k - 1] \in Theory
      PROVE  AddedBody(tt, params, f, k) \in Theory
  BY <1>2, <1>3, AddTyped DEF AddedBody, Plain
<1>4. ASSUME NEW k \in D, NEW f \in [D -> Theory]
      PROVE  step[<<k, f>>] = AddedBody(tt, params, f, k) /\ AddedBody(tt, params, f, k) \in Theory
  <2>1. k # 0 => f[k - 1] \in Theory
    BY <1>2
  <2> QED BY <1>3, <2>1
<1>5. step \in [D \X [D -> Theory] -> Theory]
  <2> HIDE DEF D
  <2> QED BY <1>4
<1>6. ASSUME NEW k \in D, NEW f \in [D -> Theory], NEW g \in [D -> Theory],
             \A y \in D : h[y] < h[k] => f[y] = g[y]
      PROVE  step[<<k, f>>] = step[<<k, g>>]
  <2>1. k # 0 => f[k - 1] = g[k - 1]
    BY <1>2, <1>6
  <2>2. AddedBody(tt, params, f, k) = AddedBody(tt, params, g, k)
    BY <2>1 DEF AddedBody
  <2> HIDE DEF step, D
  <2> QED BY <1>4, <2>2
<1>7. PICK f \in [D -> Theory] : \A k \in D : f[k] = step[<<k, f>>]
  <2>1. h \in [D -> Nat] /\ Theory # {}
    OBVIOUS
  <2> HIDE DEF step, D, h
  <2>2. LooksDown(D, h, Theory, step)
    BY <1>5, <1>6, <2>1 DEF LooksDown
  <2> QED BY <2>2, Recursion
<1>8. Eq(f)
  <2>1. \A k \in D : f[k] = AddedBody(tt, params, f, k)
    <3> HIDE DEF step, D
    <3> QED BY <1>4, <1>7
  <2> HIDE DEF step, D
  <2> QED BY <2>1
<1>9. Eq(added)
  <2> HIDE DEF Eq
  <2> QED BY <1>8
<1>10. WithInputs(tt, params) = added[Len(params)]
  BY DEF WithInputs, AddedBody
<1> HIDE DEF added
<1>11. \A k \in D : added[k] = AddedBody(tt, params, added, k)
  <2>1. added = [k \in D |-> AddedBody(tt, params, added, k)]
    BY <1>9
  <2> HIDE DEF D
  <2> QED BY <2>1
<1> DEFINE Right(k) == added[k] \in Theory /\ Holds(added[k], {}, {}, {}, {}, {})
           K == {k \in Nat : k \in D => Right(k)}
<1>12. 0 \in K
  BY <1>0, <1>11 DEF AddedBody
<1>13. ASSUME NEW k \in Nat, k \in K
       PROVE  k + 1 \in K
  <2>1. ASSUME k + 1 \in D
        PROVE  Right(k + 1)
    <3>1. k \in D /\ Right(k)
      BY <1>13, <2>1
    <3>2. added[k + 1] = AddVariable(added[k], Input(params[k + 1]))
      BY <1>11, <2>1 DEF AddedBody
    <3>3. Plain(Input(params[k + 1]))
      BY <1>2, <2>1
    <3>4. /\ added[k + 1] \in Theory
          /\ Holds(added[k + 1], {}, {} \cup {Input(params[k + 1]).name}, {}, {}, {})
      BY <3>1, <3>2, <3>3, AddHolds
    <3> QED BY <3>4 DEF Holds
  <2> HIDE DEF Right, D
  <2> QED BY <2>1
<1>14. Nat \subseteq K
  <2> HIDE DEF K
  <2> QED BY <1>12, <1>13, Induction
<1>15. Len(params) \in D
  BY <1>0
<1> QED BY <1>0, <1>10, <1>14, <1>15

-----------------------------------------------------------------------------
(* The expressions in a node, and in the first m nodes of a body.          *)
Expressed(node) ==
    IF node.visit = "BinaryOperator" THEN Within[node.expr]
    ELSE IF node.visit = "ReturnStmt" THEN Within[node.value[1]]
    ELSE {}

Taken(body, m) == UNION {Expressed(SubSeq(body, 1, m)[k]) : k \in DOMAIN SubSeq(body, 1, m)}

LEMMA VisitedTaken == Visited = Taken(functionDecl[1].body, Len(functionDecl[1].body) - Len(visits))
BY DEF Visited, Taken, Expressed

LEMMA TakenGrows ==
    ASSUME NEW body \in Seq(NodeVisit), NEW m \in Nat
    PROVE  /\ Taken(body, 0) = {}
           /\ m < Len(body) => Taken(body, m + 1) = Taken(body, m) \cup Expressed(body[m + 1])
<1>1. ASSUME NEW n \in Nat, n <= Len(body)
      PROVE  Taken(body, n) = UNION {Expressed(body[k]) : k \in 1 .. n}
  <2>1. DOMAIN SubSeq(body, 1, n) = 1 .. n /\ \A k \in 1 .. n : SubSeq(body, 1, n)[k] = body[k]
    BY <1>1
  <2> QED BY <2>1 DEF Taken
<1>2. Taken(body, 0) = {}
  <2>1. Len(body) \in Nat /\ 1 .. 0 = {}
    OBVIOUS
  <2> QED BY <1>1, <2>1
<1>3. ASSUME m < Len(body)
      PROVE  Taken(body, m + 1) = Taken(body, m) \cup Expressed(body[m + 1])
  <2>1. 1 .. m + 1 = (1 .. m) \cup {m + 1}
    OBVIOUS
  <2>2. Len(body) \in Nat /\ m <= Len(body) /\ m + 1 <= Len(body) /\ m + 1 \in Nat
    BY <1>3
  <2> QED BY <1>1, <2>1, <2>2
<1> QED BY <1>2, <1>3

(* What is left to visit is the end of the body.                           *)
Ending(body) ==
    /\ visits \in Seq(NodeVisit) /\ Len(visits) <= Len(body)
    /\ \A k \in 1 .. Len(visits) : visits[k] = body[Len(body) - Len(visits) + k]

Gathered ==
    /\ TT \in Theory
    /\ ReturnedVariables \in Seq(Name)
    /\ Visited \in SUBSET Meaningful
    /\ Holds(TT, Indices(Visited), NamesOf(Visited), BNames(Visited), UNames(Visited),
             SeqRange(ReturnedVariables))

ExtractionInv ==
    /\ unit \in Seq(FunctionDecl)
    /\ functionDecl \in {<<>>} \cup {<<d>> : d \in FunctionDecl}
    /\ status = "first visit" =>
          VariablesByName = {} /\ BOperations = <<>> /\ UOperations = <<>> /\ ReturnedVariables = <<>>
    /\ status = "visiting" \/ status = "done" =>
          functionDecl # <<>> /\ Ending(functionDecl[1].body) /\ Gathered

LEMMA ExtractionInvSuffices == ExtractionInv => ExtractionExact
<1> SUFFICES ASSUME ExtractionInv, status = "visiting" \/ status = "done"
             PROVE  /\ {v.name : v \in {w \in VariablesByName : w.type = "ArrayIndex"}} = Indices(Visited)
                    /\ \A v \in VariablesByName : v.type # "ArrayBound"
                    /\ \A n \in NamesOf(Visited) : Known(TT, n)
                    /\ BNames(Visited) = SeqRange(BOperations)
                    /\ UNames(Visited) = SeqRange(UOperations)
                    /\ \A v \in VariablesByName : v.name \in SeqRange(ReturnedVariables) => v.isOutput
  BY DEF ExtractionExact, BNames, UNames
<1>1. Holds(TT, Indices(Visited), NamesOf(Visited), BNames(Visited), UNames(Visited),
            SeqRange(ReturnedVariables))
  BY DEF ExtractionInv, Gathered
<1>2. TT.byName = VariablesByName /\ TT.bOps = BOperations /\ TT.uOps = UOperations
  BY DEF TT
<1> QED BY <1>1, <1>2 DEF Holds

LEMMA ExtractionInitially == TTInit => ExtractionInv
BY UnitsAssumption DEF TTInit, ExtractionInv

LEMMA FoundFunction ==
    ASSUME ExtractionInv, functionDecl # <<>>
    PROVE  functionDecl[1].params \in Seq(Declaration) /\ functionDecl[1].body \in Seq(NodeVisit)
<1>1. PICK d \in FunctionDecl : functionDecl = <<d>>
  BY DEF ExtractionInv
<1>2. functionDecl[1] = d
  BY <1>1
<1>3. d.params \in Seq(Declaration) /\ d.body \in Seq(NodeVisit)
  BY DEF FunctionDecl
<1> QED BY <1>2, <1>3

(* One node has been visited.                                              *)
LEMMA NodeVisited ==
    ASSUME ExtractionInv, NEW method, Visit(method)
    PROVE  /\ Head(visits) \in NodeVisit /\ functionDecl' # <<>>
           /\ Ending(functionDecl[1].body)'
           /\ Visited' = Visited \cup Expressed(Head(visits))
           /\ Gathered
           /\ unit' \in Seq(FunctionDecl) /\ functionDecl' \in {<<>>} \cup {<<d>> : d \in FunctionDecl}
<1> DEFINE body == functionDecl[1].body
           m == Len(body) - Len(visits)
<1>1. /\ status = "visiting" /\ visits # <<>> /\ visits' = Tail(visits)
      /\ unit' = unit /\ functionDecl' = functionDecl
  BY DEF Visit
<1>2. functionDecl # <<>> /\ Ending(body) /\ Gathered
  BY <1>1 DEF ExtractionInv
<1>3. body \in Seq(NodeVisit)
  BY <1>2, FoundFunction
<1> HIDE DEF body
<1>4. /\ visits \in Seq(NodeVisit) /\ Len(visits) \in Nat /\ Len(visits) >= 1
      /\ Len(body) \in Nat /\ Len(visits) <= Len(body)
      /\ \A k \in 1 .. Len(visits) : visits[k] = body[m + k]
  BY <1>1, <1>2, <1>3 DEF Ending
<1>5. /\ Tail(visits) \in Seq(NodeVisit) /\ Len(Tail(visits)) = Len(visits) - 1
      /\ \A k \in 1 .. Len(visits) - 1 : Tail(visits)[k] = visits[k + 1]
      /\ Head(visits) = visits[1] /\ Head(visits) \in NodeVisit
  BY <1>1, <1>4
<1>6. m \in Nat /\ m < Len(body) /\ Head(visits) = body[m + 1]
  BY <1>4, <1>5
<1>7. Len(body) - (Len(visits) - 1) = m + 1
  BY <1>4
<1>8. body' = body
  BY <1>1 DEF body
<1>9. Visited = Taken(body, m)
  BY VisitedTaken DEF body
<1>10. Visited' = Taken(body, m + 1)
  <2>1. Visited' = Taken(functionDecl'[1].body, Len(functionDecl'[1].body) - Len(visits'))
    BY DEF Visited, Taken, Expressed
  <2> QED BY <1>1, <1>5, <1>7, <2>1 DEF body
<1>11. Visited' = Visited \cup Expressed(Head(visits))
  BY <1>3, <1>6, <1>9, <1>10, TakenGrows
<1>12. Ending(body)'
  <2>1. \A k \in 1 .. Len(visits) - 1 : Tail(visits)[k] = body[(Len(body) - (Len(visits) - 1)) + k]
    <3> TAKE k \in 1 .. Len(visits) - 1
    <3>1. k + 1 \in 1 .. Len(visits)
      BY <1>4
    <3>2. visits[k + 1] = body[m + (k + 1)] /\ m + (k + 1) = (Len(body) - (Len(visits) - 1)) + k
      BY <1>4, <3>1
    <3> QED BY <1>5, <3>2
  <2>2. Len(visits) - 1 <= Len(body)
    BY <1>4
  <2> QED BY <1>1, <1>5, <1>8, <2>1, <2>2 DEF Ending
<1>13. unit' \in Seq(FunctionDecl) /\ functionDecl' \in {<<>>} \cup {<<d>> : d \in FunctionDecl}
  BY <1>1 DEF ExtractionInv
<1> QED BY <1>1, <1>2, <1>5, <1>11, <1>12, <1>13 DEF body

LEMMA RangeEmpty == SeqRange(<<>>) = {}
BY DEF SeqRange

LEMMA ReadOfNone ==
    Indices({}) = {} /\ NamesOf({}) = {} /\ BNames({}) = {} /\ UNames({}) = {}
BY DEF Indices, NamesOf, BNames, UNames, OfClass

LEMMA BecomesTheory ==
    ASSUME NEW t \in Theory, Becomes(t)
    PROVE  TT' = t
<1>1. t = [byName |-> t.byName, bOps |-> t.bOps, uOps |-> t.uOps]
  BY DEF Theory
<1> QED BY <1>1 DEF Becomes, TT

LEMMA VarDeclStep == ExtractionInv /\ VisitVarDecl => ExtractionInv'
<1> SUFFICES ASSUME ExtractionInv, VisitVarDecl PROVE ExtractionInv'
  OBVIOUS
<1> DEFINE node == Head(visits)
<1>1. Visit("VarDecl") /\ ReturnedVariables' = ReturnedVariables /\ status' = status
  BY DEF VisitVarDecl
<1>2. status = "visiting" /\ node.visit = "VarDecl"
  BY <1>1 DEF Visit
<1>3. node \in NodeVisit /\ Visited' = Visited \cup Expressed(node) /\ Gathered
  BY <1>1, NodeVisited
<1>4. PICK u \in BOOLEAN : Becomes(AddVariable(TT, Variable(node.name, node.type, u)))
  BY DEF VisitVarDecl
<1> DEFINE var == Variable(node.name, node.type, u)
<1>5. node.name \in Name /\ node.type \in CType
  BY <1>2, <1>3 DEF NodeVisit
<1>6. Plain(var)
  <2>1. node.type \in Word /\ node.type # "ArrayIndex" /\ node.type # "ArrayBound"
    BY <1>5 DEF CType
  <2> QED BY <1>5, <2>1, VariableTyped DEF Plain
<1>7. Visited' = Visited
  BY <1>2, <1>3 DEF Expressed
<1> HIDE DEF var
<1>8. /\ AddVariable(TT, var) \in Theory
      /\ Holds(AddVariable(TT, var), Indices(Visited), NamesOf(Visited) \cup {var.name}, BNames(Visited),
               UNames(Visited), SeqRange(ReturnedVariables))
  BY <1>3, <1>6, AddHolds DEF Gathered
<1>9. TT' = AddVariable(TT, var)
  BY <1>4, <1>8, BecomesTheory DEF var
<1>10. Holds(TT', Indices(Visited), NamesOf(Visited), BNames(Visited), UNames(Visited),
             SeqRange(ReturnedVariables))
  BY <1>8, <1>9 DEF Holds
<1>11. Gathered'
  BY <1>1, <1>3, <1>7, <1>8, <1>9, <1>10 DEF Gathered
<1> QED BY <1>1, <1>2, <1>11, NodeVisited DEF ExtractionInv

LEMMA BinaryStep == ExtractionInv /\ VisitBinaryOperator => ExtractionInv'
<1> SUFFICES ASSUME ExtractionInv, VisitBinaryOperator PROVE ExtractionInv'
  OBVIOUS
<1> DEFINE node == Head(visits)
           e == node.expr
           I == Indices(Visited)
           N == NamesOf(Visited)
           B == BNames(Visited)
           U == UNames(Visited)
           O == SeqRange(ReturnedVariables)
<1>1. Visit("BinaryOperator") /\ status = "visiting" /\ node.visit = "BinaryOperator"
  BY DEF VisitBinaryOperator, Visit
<1>2. node \in NodeVisit /\ Visited' = Visited \cup Within[e] /\ Gathered
  BY <1>1, NodeVisited DEF Expressed
<1>3. e \in Expressions /\ e.class = "BinaryOperator"
  BY <1>1, <1>2 DEF NodeVisit
<1>4. CASE e \notin Meaningful
  <2>1. status' = "undefined"
    BY <1>4 DEF VisitBinaryOperator, Stop
  <2> QED BY <1>1, <2>1, NodeVisited DEF ExtractionInv
<1>5. CASE e \in Meaningful
  <2>1. status' = status /\ ReturnedVariables' = ReturnedVariables
    BY <1>5 DEF VisitBinaryOperator
  <2>2. PICK u \in BOOLEAN :
           LET first == HandleOperand[e.lhs][u][TT]
               second == HandleOperand[e.rhs][u][first.tt]
               Second == HandleOperand[e.rhs][u][TT]
               First == HandleOperand[e.lhs][u][Second.tt]
               bOp == BinaryOperation(first.var, second.var, e.op, u)
           IN  \/ Becomes(AddBOp(second.tt, first.var, second.var, bOp))
               \/ Becomes(AddBOp(First.tt, First.var, Second.var, bOp))
    BY <1>5 DEF VisitBinaryOperator
  <2> DEFINE first == HandleOperand[e.lhs][u][TT]
             second == HandleOperand[e.rhs][u][first.tt]
             Second == HandleOperand[e.rhs][u][TT]
             First == HandleOperand[e.lhs][u][Second.tt]
             bOp == BinaryOperation(first.var, second.var, e.op, u)
  <2>3. e.lhs \in Meaningful /\ e.rhs \in Meaningful
    BY <1>3, <1>5, MeaningfulShapes
  <2>4. /\ Gathers(HandleOperand[e.lhs], Within[e.lhs], NameOf[e.lhs])
        /\ Gathers(HandleOperand[e.rhs], Within[e.rhs], NameOf[e.rhs])
    BY <2>3, HandleGathers
  <2>5. /\ TT \in Theory /\ Holds(TT, I, N, B, U, O)
        /\ I \in SUBSET Name /\ N \in SUBSET Name /\ B \in SUBSET Name /\ U \in SUBSET Name
        /\ O \in SUBSET Name
    BY <1>2, NamesAreNames DEF Gathered, SeqRange
  <2>6. \A p \in {e.lhs, e.rhs} :
           /\ Indices(Within[p]) \in SUBSET Name /\ NamesOf(Within[p]) \in SUBSET Name
           /\ BNames(Within[p]) \in SUBSET Name /\ UNames(Within[p]) \in SUBSET Name
    BY <2>3, WithinMeaningful, NamesAreNames
  <2> HIDE DEF I, N, B, U, O
  <2>7. /\ first.tt \in Theory /\ Plain(first.var) /\ first.var.name = NameOf[e.lhs]
        /\ Holds(first.tt, I \cup Indices(Within[e.lhs]), N \cup NamesOf(Within[e.lhs]),
                 B \cup BNames(Within[e.lhs]), U \cup UNames(Within[e.lhs]), O)
    BY <2>4, <2>5 DEF Gathers
  <2>8. /\ Second.tt \in Theory /\ Plain(Second.var) /\ Second.var.name = NameOf[e.rhs]
        /\ Holds(Second.tt, I \cup Indices(Within[e.rhs]), N \cup NamesOf(Within[e.rhs]),
                 B \cup BNames(Within[e.rhs]), U \cup UNames(Within[e.rhs]), O)
    BY <2>4, <2>5 DEF Gathers
  <2> HIDE DEF first, Second
  <2>9. /\ second.tt \in Theory /\ Plain(second.var) /\ second.var.name = NameOf[e.rhs]
        /\ Operands(second.tt, e, I, N, B, U, O)
    <3> DEFINE I2 == I \cup Indices(Within[e.lhs])
               N2 == N \cup NamesOf(Within[e.lhs])
               B2 == B \cup BNames(Within[e.lhs])
               U2 == U \cup UNames(Within[e.lhs])
    <3>1. I2 \in SUBSET Name /\ N2 \in SUBSET Name /\ B2 \in SUBSET Name /\ U2 \in SUBSET Name
      BY <2>5, <2>6
    <3>2. Holds(first.tt, I2, N2, B2, U2, O)
      BY <2>7
    <3> HIDE DEF I2, N2, B2, U2
    <3>3. /\ second.tt \in Theory /\ Plain(second.var) /\ second.var.name = NameOf[e.rhs]
          /\ Holds(second.tt, I2 \cup Indices(Within[e.rhs]), N2 \cup NamesOf(Within[e.rhs]),
                   B2 \cup BNames(Within[e.rhs]), U2 \cup UNames(Within[e.rhs]), O)
      BY <2>4, <2>5, <2>7, <3>1, <3>2 DEF Gathers
    <3>4. /\ I2 \cup Indices(Within[e.rhs]) = (I \cup Indices(Within[e.rhs])) \cup Indices(Within[e.lhs])
          /\ N2 \cup NamesOf(Within[e.rhs]) = (N \cup NamesOf(Within[e.rhs])) \cup NamesOf(Within[e.lhs])
          /\ B2 \cup BNames(Within[e.rhs]) = (B \cup BNames(Within[e.rhs])) \cup BNames(Within[e.lhs])
          /\ U2 \cup UNames(Within[e.rhs]) = (U \cup UNames(Within[e.rhs])) \cup UNames(Within[e.lhs])
      BY DEF I2, N2, B2, U2
    <3> QED BY <3>3, <3>4 DEF Operands
  <2>10. /\ First.tt \in Theory /\ Plain(First.var) /\ First.var.name = NameOf[e.lhs]
         /\ Operands(First.tt, e, I, N, B, U, O)
    <3> DEFINE I2 == I \cup Indices(Within[e.rhs])
               N2 == N \cup NamesOf(Within[e.rhs])
               B2 == B \cup BNames(Within[e.rhs])
               U2 == U \cup UNames(Within[e.rhs])
    <3>1. I2 \in SUBSET Name /\ N2 \in SUBSET Name /\ B2 \in SUBSET Name /\ U2 \in SUBSET Name
      BY <2>5, <2>6
    <3>2. Holds(Second.tt, I2, N2, B2, U2, O)
      BY <2>8
    <3> HIDE DEF I2, N2, B2, U2
    <3>3. /\ First.tt \in Theory /\ Plain(First.var) /\ First.var.name = NameOf[e.lhs]
          /\ Holds(First.tt, I2 \cup Indices(Within[e.lhs]), N2 \cup NamesOf(Within[e.lhs]),
                   B2 \cup BNames(Within[e.lhs]), U2 \cup UNames(Within[e.lhs]), O)
      BY <2>4, <2>5, <2>8, <3>1, <3>2 DEF Gathers
    <3> QED BY <3>3 DEF Operands, I2, N2, B2, U2
  <2> HIDE DEF second, First
  <2>11. bOp = BinaryOperation(First.var, Second.var, e.op, u)
    <3>1. first.var \in VariableRecord /\ second.var \in VariableRecord
          /\ First.var \in VariableRecord /\ Second.var \in VariableRecord
      BY <2>7, <2>8, <2>9, <2>10 DEF Plain
    <3> QED BY <2>7, <2>8, <2>9, <2>10, <3>1 DEF BinaryOperation
  <2>12. PICK t \in Theory : Becomes(t) /\ Node(t, e, I, N, B, U, O)
    <3>1. CASE Becomes(AddBOp(second.tt, first.var, second.var, bOp))
      <4>1. /\ AddBOp(second.tt, first.var, second.var, bOp) \in Theory
            /\ Node(AddBOp(second.tt, first.var, second.var, bOp), e, I, N, B, U, O)
        <5>1. bOp = BinaryOperation(first.var, second.var, e.op, u)
          OBVIOUS
        <5> HIDE DEF bOp
        <5> QED BY <1>3, <1>5, <2>7, <2>9, <5>1, BinaryHolds
      <4> QED BY <3>1, <4>1
    <3>2. CASE Becomes(AddBOp(First.tt, First.var, Second.var, bOp))
      <4>1. /\ AddBOp(First.tt, First.var, Second.var, bOp) \in Theory
            /\ Node(AddBOp(First.tt, First.var, Second.var, bOp), e, I, N, B, U, O)
        <5> HIDE DEF bOp
        <5> QED BY <1>3, <1>5, <2>8, <2>10, <2>11, BinaryHolds
      <4> QED BY <3>2, <4>1
    <3> QED BY <2>2, <3>1, <3>2 DEF first, second, First, Second
  <2>13. TT' = t
    BY <2>12, BecomesTheory
  <2>14. /\ Indices(Visited') = I \cup Indices(Within[e]) /\ NamesOf(Visited') = N \cup NamesOf(Within[e])
         /\ BNames(Visited') = B \cup BNames(Within[e]) /\ UNames(Visited') = U \cup UNames(Within[e])
    BY <1>2, ReadOfEach DEF I, N, B, U
  <2>15. Visited' \in SUBSET Meaningful
    BY <1>2, <1>5, WithinMeaningful DEF Gathered
  <2>16. Holds(TT', Indices(Visited'), NamesOf(Visited'), BNames(Visited'), UNames(Visited'), O)
    BY <2>12, <2>13, <2>14 DEF Node
  <2>17. Gathered'
    BY <1>2, <2>1, <2>12, <2>13, <2>15, <2>16 DEF Gathered, O
  <2> QED BY <1>1, <2>1, <2>17, NodeVisited DEF ExtractionInv
<1> QED BY <1>4, <1>5

LEMMA ReturnStmtStep == ExtractionInv /\ VisitReturnStmt => ExtractionInv'
<1> SUFFICES ASSUME ExtractionInv, VisitReturnStmt PROVE ExtractionInv'
  OBVIOUS
<1> DEFINE node == Head(visits)
           e == node.value[1]
           I == Indices(Visited)
           N == NamesOf(Visited)
           B == BNames(Visited)
           U == UNames(Visited)
           O == SeqRange(ReturnedVariables)
<1>1. Visit("ReturnStmt") /\ status = "visiting" /\ node.visit = "ReturnStmt"
  BY DEF VisitReturnStmt, Visit
<1>2. node \in NodeVisit /\ Visited' = Visited \cup Within[e] /\ Gathered
  BY <1>1, NodeVisited DEF Expressed
<1>3. CASE node.value = <<>>
  <2>1. status' = "crashed"
    BY <1>3 DEF VisitReturnStmt, Stop
  <2> QED BY <1>1, <2>1, NodeVisited DEF ExtractionInv
<1>4. CASE node.value # <<>> /\ e \notin Meaningful
  <2>1. status' = "undefined"
    BY <1>4 DEF VisitReturnStmt, Stop
  <2> QED BY <1>1, <2>1, NodeVisited DEF ExtractionInv
<1>5. CASE node.value # <<>> /\ e \in Meaningful
  <2>1. PICK u \in BOOLEAN :
           LET ret == HandleOperand[e][u][TT]
           IN  /\ Becomes(UpdateToOutput(ret.tt, ret.var))
               /\ ReturnedVariables' = Append(ReturnedVariables, ret.var.name)
               /\ status' = status
    BY <1>5 DEF VisitReturnStmt
  <2> DEFINE ret == HandleOperand[e][u][TT]
             t == UpdateToOutput(ret.tt, ret.var)
  <2>2. Gathers(HandleOperand[e], Within[e], NameOf[e])
    BY <1>5, HandleGathers
  <2>3. /\ TT \in Theory /\ Holds(TT, I, N, B, U, O)
        /\ I \in SUBSET Name /\ N \in SUBSET Name /\ B \in SUBSET Name /\ U \in SUBSET Name
        /\ O \in SUBSET Name
    BY <1>2, NamesAreNames DEF Gathered, SeqRange
  <2> HIDE DEF I, N, B, U, O
  <2>4. /\ ret.tt \in Theory /\ Plain(ret.var)
        /\ Node(ret.tt, e, I, N, B, U, O)
    BY <2>2, <2>3 DEF Gathers, Node
  <2> HIDE DEF ret
  <2>5. t \in Theory /\ Node(t, e, I, N, B, U, O \cup {ret.var.name})
    BY <2>4, OutputHolds DEF Node
  <2>6. /\ Becomes(t) /\ status' = status
        /\ ReturnedVariables' = Append(ReturnedVariables, ret.var.name)
    BY <2>1 DEF ret
  <2> HIDE DEF t
  <2>7. TT' = t
    BY <2>5, <2>6, BecomesTheory
  <2>8. /\ Indices(Visited') = I \cup Indices(Within[e]) /\ NamesOf(Visited') = N \cup NamesOf(Within[e])
        /\ BNames(Visited') = B \cup BNames(Within[e]) /\ UNames(Visited') = U \cup UNames(Within[e])
    BY <1>2, ReadOfEach DEF I, N, B, U
  <2>9. Visited' \in SUBSET Meaningful
    BY <1>2, <1>5, WithinMeaningful DEF Gathered
  <2>10. /\ ReturnedVariables' \in Seq(Name)
         /\ SeqRange(ReturnedVariables') = O \cup {ret.var.name}
    <3>1. ret.var.name \in Name /\ ReturnedVariables \in Seq(Name)
      BY <1>2, <2>4 DEF Gathered, Plain, VariableRecord
    <3> QED BY <2>6, <3>1, RangeAppend DEF O
  <2>11. Holds(TT', Indices(Visited'), NamesOf(Visited'), BNames(Visited'), UNames(Visited'),
               SeqRange(ReturnedVariables'))
    BY <2>5, <2>7, <2>8, <2>10 DEF Node
  <2>12. Gathered'
    BY <2>5, <2>7, <2>9, <2>10, <2>11 DEF Gathered
  <2> QED BY <1>1, <2>6, <2>12, NodeVisited DEF ExtractionInv
<1> QED BY <1>3, <1>4, <1>5

LEMMA FunctionStep == ExtractionInv /\ VisitFunctionDecl => ExtractionInv'
<1> SUFFICES ASSUME ExtractionInv, VisitFunctionDecl PROVE ExtractionInv'
  OBVIOUS
<1> DEFINE body == functionDecl[1].body
           params == functionDecl[1].params
           t == WithInputs(TT, params)
<1>1. /\ status = "first visit" /\ functionDecl # <<>> /\ Becomes(t)
      /\ visits' = body /\ status' = "visiting"
      /\ unit' = unit /\ functionDecl' = functionDecl /\ ReturnedVariables' = ReturnedVariables
  BY DEF VisitFunctionDecl
<1>2. params \in Seq(Declaration) /\ body \in Seq(NodeVisit)
  BY <1>1, FoundFunction
<1>3. /\ VariablesByName = {} /\ BOperations = <<>> /\ UOperations = <<>>
      /\ ReturnedVariables = <<>>
  BY <1>1 DEF ExtractionInv
<1>4. TT \in Theory /\ Holds(TT, {}, {}, {}, {}, {})
  BY <1>3, RangeEmpty DEF TT, Theory, Holds
<1>5. t \in Theory /\ Holds(t, {}, {}, {}, {}, {})
  BY <1>2, <1>4, InputsHold
<1>6. TT' = t
  BY <1>1, <1>5, BecomesTheory
<1>7. Visited' = {}
  <2>1. Visited' = Taken(functionDecl'[1].body, Len(functionDecl'[1].body) - Len(visits'))
    BY DEF Visited, Taken, Expressed
  <2>2. Len(body) - Len(body) = 0
    BY <1>2
  <2>3. Taken(body, 0) = {}
    BY <1>2, TakenGrows
  <2> QED BY <1>1, <2>1, <2>2, <2>3
<1>8. Gathered'
  <2>1. ReturnedVariables' = <<>> /\ <<>> \in Seq(Name)
    <3>1. <<>> \in Seq(Name)
      OBVIOUS
    <3>2. ReturnedVariables' = <<>>
      <4> HIDE DEF t, body
      <4> QED BY <1>1, <1>3
    <3> QED BY <3>1, <3>2
  <2>2. Holds(TT', Indices(Visited'), NamesOf(Visited'), BNames(Visited'), UNames(Visited'),
              SeqRange(ReturnedVariables'))
    <3> HIDE DEF t
    <3> QED BY <1>5, <1>6, <1>7, <2>1, ReadOfNone, RangeEmpty
  <2>3. TT' \in Theory
    BY <1>5, <1>6
  <2> QED BY <1>7, <2>1, <2>2, <2>3 DEF Gathered
<1>9. Ending(functionDecl[1].body)'
  <2>1. /\ body \in Seq(NodeVisit) /\ Len(body) <= Len(body)
        /\ \A k \in 1 .. Len(body) : body[k] = body[(Len(body) - Len(body)) + k]
    BY <1>2
  <2>2. functionDecl'[1].body = body
    BY <1>1
  <2> HIDE DEF body
  <2> QED BY <1>1, <2>1, <2>2 DEF Ending
<1> QED BY <1>1, <1>8, <1>9 DEF ExtractionInv

LEMMA ExtractionKept == ExtractionInv /\ [TTNext]_ttVars => ExtractionInv'
<1> SUFFICES ASSUME ExtractionInv, [TTNext]_ttVars PROVE ExtractionInv'
  OBVIOUS
<1>1. CASE find_function
  <2>1. Tail(unit) \in Seq(FunctionDecl) /\ Head(unit) \in FunctionDecl
    <3>1. unit \in Seq(FunctionDecl) /\ unit # <<>>
      BY <1>1 DEF ExtractionInv, find_function
    <3> QED BY <3>1
  <2> QED BY <1>1, <2>1 DEF ExtractionInv, find_function, extraction
<1>2. CASE no_such_function
  BY <1>2 DEF ExtractionInv, no_such_function, Stop, extraction
<1>3. CASE DumpToOutput
  <2>1. /\ status = "visiting" /\ status' = "done" /\ UNCHANGED <<unit, functionDecl, visits, extraction>>
    BY <1>3 DEF DumpToOutput, Stop
  <2>2. Ending(functionDecl[1].body) /\ Gathered /\ functionDecl # <<>>
    BY <2>1 DEF ExtractionInv
  <2>3. Visited' = Visited /\ TT' = TT
    BY <2>1 DEF Visited, TT, extraction
  <2>4. Gathered' /\ Ending(functionDecl[1].body)'
    BY <2>1, <2>2, <2>3 DEF Gathered, Ending, extraction
  <2> QED BY <2>1, <2>2, <2>4 DEF ExtractionInv, extraction
<1>4. CASE UNCHANGED ttVars
  <2>1. Visited' = Visited /\ TT' = TT /\ UNCHANGED <<unit, functionDecl, visits, extraction, status>>
    BY <1>4 DEF ttVars, Visited, TT, extraction
  <2>2. UNCHANGED <<Gathered, Ending(functionDecl[1].body)>>
    BY <2>1 DEF Gathered, Ending, extraction
  <2> QED BY <2>1, <2>2 DEF ExtractionInv, extraction
<1> QED BY <1>1, <1>2, <1>3, <1>4, FunctionStep, VarDeclStep, BinaryStep, ReturnStmtStep DEF TTNext

(* What HandleOperand and the tables behind it have recorded of the        *)
(* function under test is what the expressions visited say: its indices    *)
(* are the subscripts, no variable is a bound, no operation is missing or  *)
(* made up, and what is returned is an output.                             *)
THEOREM ExtractionIsExact == TTSpec => []ExtractionExact
<1>1. TTInit => ExtractionInv
  BY ExtractionInitially
<1>2. ExtractionInv /\ [TTNext]_ttVars => ExtractionInv'
  BY ExtractionKept
<1>3. ExtractionInv => ExtractionExact
  BY ExtractionInvSuffices
<1> QED BY <1>1, <1>2, <1>3, PTL DEF TTSpec
=============================================================================
