-------------------------- MODULE TheoryReader_proofs --------------------------
(***************************************************************************)
(* Proofs about the reader: for every set of theory files, well-formed or  *)
(* not, the node table and the maps that name its nodes stay in step, an   *)
(* id keeps its meaning, the index terms are collected on their sides, the *)
(* flags point at variables, and every field keeps its type.               *)
(***************************************************************************)
EXTENDS TheoryReader, WellFoundedInduction, TLAPS

Maps == UNION {[S -> Nat] : S \in SUBSET Seq(Word)}

(* The fields that name nodes are typed, the others may hold anything.     *)
IsTheory(th) ==
    th \in [nodes : Seq(Node), var2idMap : Maps, varIds : Seq(Nat), constantIds : Seq(Nat),
            rulemap : {th.rulemap}, vocabIds : {th.vocabIds},
            generatedVocabIds : {th.generatedVocabIds}, quantFreeVocIds : {th.quantFreeVocIds},
            uvars : {th.uvars}, uterms : {th.uterms}, readIndexTerms : {th.readIndexTerms},
            boundTerms : {th.boundTerms}, trueId : {th.trueId}, falseId : {th.falseId},
            numClauseOperationBound : {th.numClauseOperationBound},
            numQuantifierBound : {th.numQuantifierBound}]

(* The three parts of TableSound, of a table N (the node of id is          *)
(* N[id + 1]), the map V and the lists vs and cs.                          *)
AcyclicIn(N) ==
    \A k \in 1 .. Len(N) : \A i \in DOMAIN N[k].operandIds : N[k].operandIds[i] \in 0 .. k - 2

NamedIn(N, V, vs) ==
    /\ \A n \in DOMAIN V : V[n] \in 0 .. Len(N) - 1 /\ N[V[n] + 1].isVar /\ N[V[n] + 1].name = n
    /\ \A k \in 1 .. Len(N) : N[k].isVar =>
          /\ N[k].name \in DOMAIN V /\ V[N[k].name] = k - 1
          /\ \E i \in 1 .. Len(vs) : vs[i] = k - 1
    /\ \A i \in 1 .. Len(vs) : vs[i] \in 0 .. Len(N) - 1 /\ N[vs[i] + 1].isVar

LiteralsIn(N, cs) ==
    /\ \A i \in 1 .. Len(cs) : cs[i] \in 0 .. Len(N) - 1 /\ N[cs[i] + 1].type = "literal"
    /\ \A i, j \in 1 .. Len(cs) : N[cs[i] + 1].value = N[cs[j] + 1].value => i = j

Sound(N, V, vs, cs) == AcyclicIn(N) /\ NamedIn(N, V, vs) /\ LiteralsIn(N, cs)

(* The fields a step must keep right.                                      *)
Good(th) ==
    /\ IsTheory(th)
    /\ Sound(th.nodes, th.var2idMap, th.varIds, th.constantIds)
    /\ th.trueId \in Ids(th) \cup {NoId}
    /\ th.falseId \in Ids(th) \cup {NoId}

Grows(N, M) ==
    /\ Len(N) <= Len(M)
    /\ \A k \in 1 .. Len(N) : SameNode(N[k], M[k])

-----------------------------------------------------------------------------
(* What may happen to a table                                              *)

LEMMA SameNodeIs ==
    ASSUME NEW a \in Node, NEW b \in Node
    PROVE  SameNode(a, b) <=>
              /\ a.op = b.op /\ a.name = b.name /\ a.type = b.type /\ a.isVar = b.isVar
              /\ a.const = b.const /\ a.value = b.value /\ a.operandIds = b.operandIds
              /\ a.leftVars = b.leftVars /\ a.rightVars = b.rightVars
              /\ a.global => b.global
              /\ a.element => b.element
BY ZenonT(60) DEF SameNode, Node

LEMMA GrowsReflexive == \A N \in Seq(Node) : Grows(N, N)
BY SameNodeIs DEF Grows

LEMMA GrowsTransitive ==
    ASSUME NEW N \in Seq(Node), NEW M \in Seq(Node), NEW K \in Seq(Node),
           Grows(N, M), Grows(M, K)
    PROVE  Grows(N, K)
<1>1. ASSUME NEW k \in 1 .. Len(N)
      PROVE  SameNode(N[k], K[k])
  <2>1. N[k] \in Node /\ M[k] \in Node /\ K[k] \in Node
    BY DEF Grows
  <2>2. SameNode(N[k], M[k]) /\ SameNode(M[k], K[k])
    BY DEF Grows
  <2> QED BY <2>1, <2>2, SameNodeIs
<1> QED BY <1>1 DEF Grows

LEMMA GrowsByAppend ==
    ASSUME NEW N \in Seq(Node), NEW n \in Node
    PROVE  Append(N, n) \in Seq(Node) /\ Grows(N, Append(N, n))
BY SameNodeIs DEF Grows

(* A node that is no variable and is made of nodes of the table.           *)
LEMMA SoundByAppend ==
    ASSUME NEW N \in Seq(Node), NEW V \in Maps, NEW vs \in Seq(Nat), NEW cs \in Seq(Nat),
           Sound(N, V, vs, cs),
           NEW n \in Node, ~ n.isVar,
           \A i \in DOMAIN n.operandIds : n.operandIds[i] \in 0 .. Len(N) - 1
    PROVE  Sound(Append(N, n), V, vs, cs)
<1> DEFINE M == Append(N, n)
<1>0. Len(N) \in Nat
  OBVIOUS
<1>1. M \in Seq(Node) /\ Len(M) = Len(N) + 1 /\ M[Len(N) + 1] = n
      /\ \A k \in 1 .. Len(N) : M[k] = N[k]
  OBVIOUS
<1>9. ASSUME NEW x \in 0 .. Len(N) - 1
      PROVE  x \in 0 .. Len(M) - 1 /\ M[x + 1] = N[x + 1]
  BY <1>0, <1>1, x + 1 \in 1 .. Len(N)
<1> HIDE DEF M
<1>2. AcyclicIn(M)
  <2>1. ASSUME NEW k \in 1 .. Len(M), NEW i \in DOMAIN M[k].operandIds
        PROVE  M[k].operandIds[i] \in 0 .. k - 2
    <3>1. CASE k \in 1 .. Len(N)
      BY <1>1, <3>1, <2>1 DEF Sound, AcyclicIn
    <3>2. CASE k = Len(N) + 1
      BY <1>0, <1>1, <3>2, <2>1
    <3> QED BY <1>0, <1>1, <3>1, <3>2
  <2> QED BY <2>1 DEF AcyclicIn
<1>3. NamedIn(M, V, vs)
  <2>1. \A k \in 1 .. Len(M) : M[k].isVar => k \in 1 .. Len(N)
    BY <1>0, <1>1
  <2>2. \A m \in DOMAIN V : V[m] \in 0 .. Len(M) - 1 /\ M[V[m] + 1] = N[V[m] + 1]
    BY <1>9 DEF Sound, NamedIn
  <2>3. \A i \in 1 .. Len(vs) : vs[i] \in 0 .. Len(M) - 1 /\ M[vs[i] + 1] = N[vs[i] + 1]
    BY <1>9 DEF Sound, NamedIn
  <2> QED BY <1>1, <2>1, <2>2, <2>3 DEF Sound, NamedIn
<1>4. LiteralsIn(M, cs)
  <2>1. \A i \in 1 .. Len(cs) : cs[i] \in 0 .. Len(M) - 1 /\ M[cs[i] + 1] = N[cs[i] + 1]
    BY <1>9 DEF Sound, LiteralsIn
  <2> QED BY <2>1 DEF Sound, LiteralsIn
<1> QED BY <1>2, <1>3, <1>4 DEF Sound, M

(* A variable whose name is new.                                           *)
LEMMA SoundByVariable ==
    ASSUME NEW N \in Seq(Node), NEW V \in Maps, NEW vs \in Seq(Nat), NEW cs \in Seq(Nat),
           Sound(N, V, vs, cs),
           NEW n \in Node, n.isVar, n.operandIds = <<>>, n.name \notin DOMAIN V
    PROVE  LET W == [m \in DOMAIN V \cup {n.name} |-> IF m = n.name THEN Len(N) ELSE V[m]]
           IN  W \in Maps /\ Sound(Append(N, n), W, Append(vs, Len(N)), cs)
<1> DEFINE M == Append(N, n)
           W == [m \in DOMAIN V \cup {n.name} |-> IF m = n.name THEN Len(N) ELSE V[m]]
           ws == Append(vs, Len(N))
<1>0. Len(N) \in Nat /\ n.name \in Seq(Word)
  BY DEF Node
<1>1. M \in Seq(Node) /\ Len(M) = Len(N) + 1 /\ M[Len(N) + 1] = n
      /\ \A k \in 1 .. Len(N) : M[k] = N[k]
  OBVIOUS
<1>9. ASSUME NEW x \in 0 .. Len(N) - 1
      PROVE  x \in 0 .. Len(M) - 1 /\ M[x + 1] = N[x + 1]
  BY <1>0, <1>1, x + 1 \in 1 .. Len(N)
<1>2. ws \in Seq(Nat) /\ Len(ws) = Len(vs) + 1 /\ ws[Len(vs) + 1] = Len(N)
      /\ \A i \in 1 .. Len(vs) : ws[i] = vs[i]
  BY <1>0
<1>3. /\ DOMAIN W = DOMAIN V \cup {n.name}
      /\ W[n.name] = Len(N)
      /\ \A m \in DOMAIN V : W[m] = V[m]
  OBVIOUS
<1>4. W \in Maps
  <2>1. PICK S \in SUBSET Seq(Word) : V \in [S -> Nat]
    BY DEF Maps
  <2>2. W \in [S \cup {n.name} -> Nat]
    BY <1>0, <2>1
  <2> QED BY ZenonT(60), <1>0, <2>2 DEF Maps
<1> HIDE DEF M, W, ws
<1>5. AcyclicIn(M)
  <2>1. ASSUME NEW k \in 1 .. Len(M), NEW i \in DOMAIN M[k].operandIds
        PROVE  M[k].operandIds[i] \in 0 .. k - 2
    <3>1. CASE k \in 1 .. Len(N)
      BY <1>1, <3>1, <2>1 DEF Sound, AcyclicIn
    <3>2. CASE k = Len(N) + 1
      BY <1>0, <1>1, <3>2, <2>1
    <3> QED BY <1>0, <1>1, <3>1, <3>2
  <2> QED BY <2>1 DEF AcyclicIn
<1>6. NamedIn(M, W, ws)
  <2>1. ASSUME NEW m \in DOMAIN W
        PROVE  W[m] \in 0 .. Len(M) - 1 /\ M[W[m] + 1].isVar /\ M[W[m] + 1].name = m
    <3>1. CASE m = n.name
      BY <1>0, <1>1, <1>3, <3>1
    <3>2. CASE m \in DOMAIN V
      <4>1. V[m] \in 0 .. Len(N) - 1 /\ N[V[m] + 1].isVar /\ N[V[m] + 1].name = m
        BY <3>2 DEF Sound, NamedIn
      <4>2. W[m] = V[m] /\ M[V[m] + 1] = N[V[m] + 1]
        BY <1>9, <1>3, <3>2, <4>1
      <4> QED BY <1>0, <1>1, <4>1, <4>2
    <3> QED BY <1>3, <3>1, <3>2
  <2>2. ASSUME NEW k \in 1 .. Len(M), M[k].isVar
        PROVE  /\ M[k].name \in DOMAIN W /\ W[M[k].name] = k - 1
               /\ \E i \in 1 .. Len(ws) : ws[i] = k - 1
    <3>1. CASE k = Len(N) + 1
      <4>1. M[k] = n /\ k - 1 = Len(N) /\ Len(vs) + 1 \in 1 .. Len(ws)
        BY <1>0, <1>1, <1>2, <3>1
      <4> QED BY <1>2, <1>3, <4>1
    <3>2. CASE k \in 1 .. Len(N)
      <4>1. N[k].isVar /\ M[k] = N[k]
        BY <1>1, <2>2, <3>2
      <4>2. N[k].name \in DOMAIN V /\ V[N[k].name] = k - 1
            /\ \E i \in 1 .. Len(vs) : vs[i] = k - 1
        BY <3>2, <4>1 DEF Sound, NamedIn
      <4>3. M[k].name \in DOMAIN W /\ W[M[k].name] = k - 1
        BY <1>3, <4>1, <4>2
      <4>4. PICK i \in 1 .. Len(vs) : vs[i] = k - 1
        BY <4>2
      <4>5. i \in 1 .. Len(ws) /\ ws[i] = k - 1
        BY <1>2, <4>4
      <4> QED BY <4>3, <4>5
    <3> QED BY <1>0, <1>1, <3>1, <3>2
  <2>3. ASSUME NEW i \in 1 .. Len(ws)
        PROVE  ws[i] \in 0 .. Len(M) - 1 /\ M[ws[i] + 1].isVar
    <3>1. CASE i = Len(vs) + 1
      BY <1>0, <1>1, <1>2, <3>1
    <3>2. CASE i \in 1 .. Len(vs)
      <4>1. vs[i] \in 0 .. Len(N) - 1 /\ N[vs[i] + 1].isVar
        BY <3>2 DEF Sound, NamedIn
      <4>2. vs[i] \in 0 .. Len(M) - 1 /\ M[vs[i] + 1] = N[vs[i] + 1]
        BY <1>9, <4>1
      <4> QED BY <1>2, <3>2, <4>1, <4>2
    <3> QED BY <1>2, <3>1, <3>2
  <2> QED BY <2>1, <2>2, <2>3 DEF NamedIn
<1>7. LiteralsIn(M, cs)
  <2>1. \A i \in 1 .. Len(cs) : cs[i] \in 0 .. Len(M) - 1 /\ M[cs[i] + 1] = N[cs[i] + 1]
    BY <1>9 DEF Sound, LiteralsIn
  <2> QED BY <2>1 DEF Sound, LiteralsIn
<1> QED BY <1>4, <1>5, <1>6, <1>7 DEF Sound, M, W, ws

(* A literal whose value is new.                                           *)
LEMMA SoundByLiteral ==
    ASSUME NEW N \in Seq(Node), NEW V \in Maps, NEW vs \in Seq(Nat), NEW cs \in Seq(Nat),
           Sound(N, V, vs, cs),
           NEW n \in Node, ~ n.isVar, n.operandIds = <<>>, n.type = "literal",
           \A i \in 1 .. Len(cs) : N[cs[i] + 1].value # n.value
    PROVE  Sound(Append(N, n), V, vs, Append(cs, Len(N)))
<1> DEFINE M == Append(N, n)
           ds == Append(cs, Len(N))
<1>0. Len(N) \in Nat
  OBVIOUS
<1>1. M \in Seq(Node) /\ Len(M) = Len(N) + 1 /\ M[Len(N) + 1] = n
      /\ \A k \in 1 .. Len(N) : M[k] = N[k]
  OBVIOUS
<1>9. ASSUME NEW x \in 0 .. Len(N) - 1
      PROVE  x \in 0 .. Len(M) - 1 /\ M[x + 1] = N[x + 1]
  BY <1>0, <1>1, x + 1 \in 1 .. Len(N)
<1>2. ds \in Seq(Nat) /\ Len(ds) = Len(cs) + 1 /\ ds[Len(cs) + 1] = Len(N)
      /\ \A i \in 1 .. Len(cs) : ds[i] = cs[i]
  BY <1>0
<1>3. Sound(M, V, vs, cs)
  BY SoundByAppend
<1> HIDE DEF M, ds
<1>4. LiteralsIn(M, ds)
  <2>1. \A i \in 1 .. Len(cs) : cs[i] \in 0 .. Len(M) - 1 /\ M[cs[i] + 1] = N[cs[i] + 1]
    BY <1>9 DEF Sound, LiteralsIn
  <2>2. \A i \in 1 .. Len(ds) : i \in 1 .. Len(cs) \/ i = Len(cs) + 1
    BY <1>2
  <2>8. \A i \in 1 .. Len(cs) : M[ds[i] + 1] = N[cs[i] + 1]
    BY <1>2, <2>1
  <2>3. \A i \in 1 .. Len(cs) : M[ds[i] + 1].type = "literal" /\ M[ds[i] + 1].value # n.value
    BY <2>8 DEF Sound, LiteralsIn
  <2>4. M[ds[Len(cs) + 1] + 1] = n /\ ds[Len(cs) + 1] \in 0 .. Len(M) - 1
    BY <1>0, <1>1, <1>2
  <2>5. \A i, j \in 1 .. Len(cs) : M[ds[i] + 1].value = M[ds[j] + 1].value => i = j
    BY <2>8 DEF Sound, LiteralsIn
  <2>6. \A i \in 1 .. Len(ds) : ds[i] \in 0 .. Len(M) - 1 /\ M[ds[i] + 1].type = "literal"
    BY <1>2, <2>1, <2>2, <2>3, <2>4
  <2>7. \A i, j \in 1 .. Len(ds) : M[ds[i] + 1].value = M[ds[j] + 1].value => i = j
    BY <2>2, <2>3, <2>4, <2>5
  <2> QED BY <2>6, <2>7 DEF LiteralsIn
<1> QED BY <1>3, <1>4 DEF Sound, M, ds

(* New flags and bounds.                                                   *)
LEMMA SoundByFlags ==
    ASSUME NEW N \in Seq(Node), NEW M \in Seq(Node), Len(M) = Len(N), Grows(N, M),
           NEW V, NEW vs \in Seq(Nat), NEW cs \in Seq(Nat), Sound(N, V, vs, cs)
    PROVE  Sound(M, V, vs, cs)
<1>1. \A k \in 1 .. Len(N) :
         /\ M[k].operandIds = N[k].operandIds /\ M[k].isVar = N[k].isVar
         /\ M[k].name = N[k].name /\ M[k].type = N[k].type /\ M[k].value = N[k].value
  BY SameNodeIs DEF Grows
<1>2. AcyclicIn(M)
  BY <1>1 DEF Sound, AcyclicIn
<1>3. NamedIn(M, V, vs)
  <2>1. \A m \in DOMAIN V : V[m] + 1 \in 1 .. Len(N)
    BY DEF Sound, NamedIn
  <2>2. \A i \in 1 .. Len(vs) : vs[i] + 1 \in 1 .. Len(N)
    BY DEF Sound, NamedIn
  <2> QED BY <1>1, <2>1, <2>2 DEF Sound, NamedIn
<1>4. LiteralsIn(M, cs)
  <2>1. \A i \in 1 .. Len(cs) : cs[i] + 1 \in 1 .. Len(N)
    BY DEF Sound, LiteralsIn
  <2> QED BY <1>1, <2>1 DEF Sound, LiteralsIn
<1> QED BY <1>2, <1>3, <1>4 DEF Sound

-----------------------------------------------------------------------------
(* The handlers                                                            *)

(* What each of them does to a theory.                                     *)
Extends(th, new) == Good(new) /\ Grows(th.nodes, new.nodes)

LEMMA ExtendsTransitive ==
    ASSUME NEW th, NEW new, NEW more, Good(th), Extends(th, new), Extends(new, more)
    PROVE  Extends(th, more)
BY GrowsTransitive DEF Extends, Good, IsTheory

LEMMA ExtendsReflexive ==
    ASSUME NEW th, Good(th)
    PROVE  Extends(th, th)
BY GrowsReflexive DEF Extends, Good, IsTheory

LEMMA NodesOf ==
    ASSUME NEW th, Good(th)
    PROVE  /\ th.nodes \in Seq(Node) /\ Len(th.nodes) \in Nat
           /\ \A id \in Ids(th) : id \in Nat /\ getNode(th, id) \in Node
BY DEF Good, IsTheory, Ids, getNode

(* Ids are kept.                                                           *)
LEMMA IdsKept ==
    ASSUME NEW th, NEW new, Good(th), Extends(th, new)
    PROVE  Ids(th) \subseteq Ids(new)
BY DEF Extends, Good, IsTheory, Grows, Ids

(* Fields other than those that name nodes.                                *)
LEMMA ExtendsByField ==
    ASSUME NEW th, NEW new, Good(th), IsTheory(new),
           new.nodes = th.nodes, new.var2idMap = th.var2idMap, new.varIds = th.varIds,
           new.constantIds = th.constantIds,
           {new.trueId, new.falseId} \subseteq Ids(th) \cup {NoId}
    PROVE  Extends(th, new)
<1>1. Grows(th.nodes, new.nodes)
  BY NodesOf, GrowsReflexive
<1> QED BY <1>1 DEF Extends, Good, Ids

LEMMA ExtendsByNode ==
    ASSUME NEW th, Good(th), NEW n \in Node, ~ n.isVar,
           \A i \in DOMAIN n.operandIds : n.operandIds[i] \in Ids(th)
    PROVE  /\ Extends(th, makeNode(th, n))
           /\ NextId(th) \in Ids(makeNode(th, n))
           /\ makeNode(th, n).nodes = Append(th.nodes, n)
<1> DEFINE new == makeNode(th, n)
<1>1. IsTheory(new) /\ new.nodes = Append(th.nodes, n)
      /\ new.var2idMap = th.var2idMap /\ new.varIds = th.varIds
      /\ new.constantIds = th.constantIds
      /\ new.trueId = th.trueId /\ new.falseId = th.falseId
  <2>1. Append(th.nodes, n) \in Seq(Node) /\ th.nodes \in Seq(Node) /\ IsTheory(th)
    BY DEF Good, IsTheory
  <2> QED BY <2>1 DEF IsTheory, makeNode
<1>2. th.nodes \in Seq(Node) /\ th.var2idMap \in Maps /\ th.varIds \in Seq(Nat)
      /\ th.constantIds \in Seq(Nat) /\ Len(th.nodes) \in Nat
  BY DEF Good, IsTheory
<1> HIDE DEF new
<1>3. Sound(new.nodes, new.var2idMap, new.varIds, new.constantIds)
  BY <1>1, <1>2, SoundByAppend DEF Good, Ids
<1>4. Grows(th.nodes, new.nodes)
  BY <1>1, <1>2, GrowsByAppend
<1>5. Len(new.nodes) = Len(th.nodes) + 1
  BY <1>1, <1>2
<1>6. Ids(th) \subseteq Ids(new) /\ NextId(th) \in Ids(new)
  BY <1>2, <1>5 DEF Ids, NextId
<1> QED BY <1>1, <1>3, <1>4, <1>6 DEF Good, Extends, new

(* New flags or bounds of one node.                                        *)
LEMMA ExtendsByFlag ==
    ASSUME NEW th, Good(th), NEW id \in Ids(th), NEW m \in Node, SameNode(getNode(th, id), m),
           NEW new, new = [th EXCEPT !.nodes[id + 1] = m]
    PROVE  Extends(th, new)
<1> DEFINE N == th.nodes
           M == [N EXCEPT ![id + 1] = m]
<1>1. IsTheory(th) /\ N \in Seq(Node) /\ Len(N) \in Nat /\ id + 1 \in 1 .. Len(N)
      /\ th.var2idMap \in Maps /\ th.varIds \in Seq(Nat) /\ th.constantIds \in Seq(Nat)
  BY DEF Good, IsTheory, Ids
<1>2. M \in Seq(Node) /\ Len(M) = Len(N)
      /\ \A k \in 1 .. Len(N) : M[k] = IF k = id + 1 THEN m ELSE N[k]
  BY <1>1
<1>3. \A k \in 1 .. Len(N) : SameNode(N[k], M[k])
  BY <1>1, <1>2, SameNodeIs DEF getNode
<1>4. new = [th EXCEPT !.nodes = M]
  BY <1>1 DEF IsTheory
<1> HIDE DEF M
<1>5. IsTheory(new) /\ new.nodes = M
      /\ new.var2idMap = th.var2idMap /\ new.varIds = th.varIds
      /\ new.constantIds = th.constantIds
      /\ new.trueId = th.trueId /\ new.falseId = th.falseId
  BY <1>1, <1>2, <1>4 DEF IsTheory
<1>6. Grows(N, M)
  BY <1>2, <1>3 DEF Grows
<1>7. Sound(M, new.var2idMap, new.varIds, new.constantIds)
  BY <1>1, <1>2, <1>5, <1>6, SoundByFlags DEF Good
<1>8. Ids(new) = Ids(th)
  BY <1>2, <1>5 DEF Ids
<1> QED BY <1>5, <1>6, <1>7, <1>8 DEF Good, Extends

LEMMA NodeWords ==
    /\ {"", "lit", "true", "false", "[]", "not", "-", "forall", "exists"} \subseteq NodeOps
    /\ DeclaredTypes \subseteq NodeTypes
    /\ {"int", "literal", "bliteral", "access", "unary-arithmetic", "binary-arithmetic",
        "binary-relational", "unary-boolean", "binary-boolean", "quantifier"} \subseteq NodeTypes
BY DEF NodeOps, NodeTypes, DeclaredTypes, ArithOps

LEMMA VocabNodeIsNode ==
    ASSUME NEW op \in NodeOps, NEW type \in NodeTypes
    PROVE  /\ VocabNode(op, type) \in Node
           /\ ~ VocabNode(op, type).isVar
           /\ VocabNode(op, type).operandIds = <<>>
           /\ VocabNode(op, type).name = <<>>
BY DEF VocabNode, Node

(* The ids a handler of a term or formula gives.                           *)
Yields(th, result) == Extends(th, result.th) /\ result.id \in Ids(result.th)

LEMMA TrueYields ==
    ASSUME NEW th, Good(th)
    PROVE  Yields(th, handleTrue(th)) /\ Yields(th, handleFalse(th))
<1>1. th.trueId # NoId => Yields(th, handleTrue(th))
  BY ExtendsReflexive DEF Yields, handleTrue, Good
<1>2. th.falseId # NoId => Yields(th, handleFalse(th))
  BY ExtendsReflexive DEF Yields, handleFalse, Good
<1>3. \A v \in Node, x \in Int :
         LET n == [v EXCEPT !.const = TRUE, !.value = x]
         IN  n \in Node /\ n.isVar = v.isVar /\ n.operandIds = v.operandIds
  BY DEF Node
<1>4. ASSUME NEW n \in Node, ~ n.isVar, n.operandIds = <<>>
      PROVE  /\ Yields(th, [th |-> [makeNode(th, n) EXCEPT !.trueId = NextId(th)], id |-> NextId(th)])
             /\ Yields(th, [th |-> [makeNode(th, n) EXCEPT !.falseId = NextId(th)], id |-> NextId(th)])
  <2> DEFINE mid == makeNode(th, n)
  <2>1. Extends(th, mid) /\ NextId(th) \in Ids(mid)
    BY <1>4, ExtendsByNode
  <2>2. Good(mid) /\ IsTheory(mid)
    BY <2>1 DEF Extends, Good
  <2> HIDE DEF mid
  <2>3. ASSUME NEW new, IsTheory(new), new.nodes = mid.nodes, new.var2idMap = mid.var2idMap,
               new.varIds = mid.varIds, new.constantIds = mid.constantIds,
               {new.trueId, new.falseId} \subseteq Ids(mid) \cup {NoId}
        PROVE  Yields(th, [th |-> new, id |-> NextId(th)])
    <3>1. Extends(mid, new)
      BY <2>2, <2>3, ExtendsByField
    <3>2. Ids(new) = Ids(mid)
      BY <2>3 DEF Ids
    <3> QED BY <2>1, <2>2, <3>1, <3>2, ExtendsTransitive DEF Yields
  <2>4. {mid.trueId, mid.falseId} \subseteq Ids(mid) \cup {NoId}
    BY <2>2 DEF Good
  <2>5. LET new == [mid EXCEPT !.trueId = NextId(th)]
        IN  Yields(th, [th |-> new, id |-> NextId(th)])
    <3> DEFINE new == [mid EXCEPT !.trueId = NextId(th)]
    <3>1. IsTheory(new) /\ new.nodes = mid.nodes /\ new.var2idMap = mid.var2idMap
          /\ new.varIds = mid.varIds /\ new.constantIds = mid.constantIds
          /\ new.trueId = NextId(th) /\ new.falseId = mid.falseId
      BY <2>2 DEF IsTheory
    <3> HIDE DEF new
    <3> QED BY <2>1, <2>3, <2>4, <3>1 DEF new
  <2>6. LET new == [mid EXCEPT !.falseId = NextId(th)]
        IN  Yields(th, [th |-> new, id |-> NextId(th)])
    <3> DEFINE new == [mid EXCEPT !.falseId = NextId(th)]
    <3>1. IsTheory(new) /\ new.nodes = mid.nodes /\ new.var2idMap = mid.var2idMap
          /\ new.varIds = mid.varIds /\ new.constantIds = mid.constantIds
          /\ new.falseId = NextId(th) /\ new.trueId = mid.trueId
      BY <2>2 DEF IsTheory
    <3> HIDE DEF new
    <3> QED BY <2>1, <2>3, <2>4, <3>1 DEF new
  <2> QED BY <2>5, <2>6 DEF mid
<1>5. th.trueId = NoId => Yields(th, handleTrue(th))
  <2> DEFINE v == VocabNode("true", "bliteral")
             n == [v EXCEPT !.const = TRUE, !.value = 1]
  <2>1. n \in Node /\ ~ n.isVar /\ n.operandIds = <<>>
    <3>1. v \in Node /\ ~ v.isVar /\ v.operandIds = <<>>
      BY VocabNodeIsNode, NodeWords
    <3> HIDE DEF v
    <3>2. 1 \in Int
      BY 1 \in 0 .. 1
    <3> QED BY <1>3, <3>1, <3>2
  <2>2. th.trueId = NoId =>
           handleTrue(th) = [th |-> [makeNode(th, n) EXCEPT !.trueId = NextId(th)], id |-> NextId(th)]
    BY DEF handleTrue
  <2> HIDE DEF n
  <2> QED BY <1>4, <2>1, <2>2
<1>6. th.falseId = NoId => Yields(th, handleFalse(th))
  <2> DEFINE v == VocabNode("false", "bliteral")
             n == [v EXCEPT !.const = TRUE, !.value = 1]
  <2>1. n \in Node /\ ~ n.isVar /\ n.operandIds = <<>>
    <3>1. v \in Node /\ ~ v.isVar /\ v.operandIds = <<>>
      BY VocabNodeIsNode, NodeWords
    <3> HIDE DEF v
    <3>2. 1 \in Int
      BY 1 \in 0 .. 1
    <3> QED BY <1>3, <3>1, <3>2
  <2>2. th.falseId = NoId =>
           handleFalse(th) = [th |-> [makeNode(th, n) EXCEPT !.falseId = NextId(th)], id |-> NextId(th)]
    BY DEF handleFalse
  <2> HIDE DEF n
  <2> QED BY <1>4, <2>1, <2>2
<1> QED BY <1>1, <1>2, <1>5, <1>6

(* A node as the handlers make it: its global flag is computed from terms. *)
LEMMA ComposedNode ==
    ASSUME NEW th, Good(th), NEW n \in Node, NEW ids
    PROVE  LET m == propagateIsGlobal(th, n, ids)
           IN  m \in Node /\ m.isVar = n.isVar /\ m.operandIds = n.operandIds
BY DEF propagateIsGlobal, Node

(* What is made of the terms ids.                                          *)
LEMMA YieldsNode ==
    ASSUME NEW th, Good(th), NEW n \in Node, ~ n.isVar, NEW ids,
           \A i \in DOMAIN n.operandIds : n.operandIds[i] \in Ids(th)
    PROVE  LET new == makeNode(th, propagateIsGlobal(th, n, ids))
           IN  /\ Yields(th, [th |-> new, id |-> NextId(th)])
               /\ Good(new)
<1> DEFINE m == propagateIsGlobal(th, n, ids)
<1>1. m \in Node /\ ~ m.isVar /\ m.operandIds = n.operandIds
  BY ComposedNode
<1> HIDE DEF m
<1>2. Extends(th, makeNode(th, m)) /\ NextId(th) \in Ids(makeNode(th, m))
  BY <1>1, ExtendsByNode
<1> QED BY <1>2 DEF Yields, Extends, m

(* The composed nodes, typed.                                              *)
LEMMA BinaryNode ==
    ASSUME NEW op \in NodeOps, NEW type \in NodeTypes, NEW t1 \in Nat, NEW t2 \in Nat, NEW c
    PROVE  LET n == [VocabNode(op, type) EXCEPT !.operandIds = Ordered(c, t1, t2)]
           IN  /\ n \in Node /\ ~ n.isVar
               /\ \A i \in DOMAIN n.operandIds : n.operandIds[i] \in {t1, t2}
<1>1. Ordered(c, t1, t2) \in Seq(Nat)
      /\ \A i \in DOMAIN Ordered(c, t1, t2) : Ordered(c, t1, t2)[i] \in {t1, t2}
  BY DEF Ordered
<1>2. ASSUME NEW v \in Node, NEW s \in Seq(Nat)
      PROVE  LET n == [v EXCEPT !.operandIds = s]
             IN  n \in Node /\ n.isVar = v.isVar /\ n.operandIds = s
  BY DEF Node
<1> QED BY <1>1, <1>2, VocabNodeIsNode

(* A flag of one node.                                                     *)
LEMMA SetFlag ==
    ASSUME NEW th, Good(th), NEW id \in Ids(th)
    PROVE  /\ Extends(th, setElement(th, id))
           /\ Extends(th, [th EXCEPT !.nodes[id + 1].global = TRUE])
           /\ Extends(th, [th EXCEPT !.nodes[id + 1].local = TRUE])
<1> DEFINE n == getNode(th, id)
<1>1. n \in Node /\ n = th.nodes[id + 1] /\ IsTheory(th)
  BY NodesOf DEF getNode, Good
<1>2. ASSUME NEW m \in Node, SameNode(n, m)
      PROVE  Extends(th, [th EXCEPT !.nodes[id + 1] = m])
  BY <1>2, ExtendsByFlag
<1>3. /\ [n EXCEPT !.element = TRUE] \in Node /\ SameNode(n, [n EXCEPT !.element = TRUE])
      /\ [n EXCEPT !.global = TRUE] \in Node /\ SameNode(n, [n EXCEPT !.global = TRUE])
      /\ [n EXCEPT !.local = TRUE] \in Node /\ SameNode(n, [n EXCEPT !.local = TRUE])
  <2>1. \A x \in Node : /\ [x EXCEPT !.element = TRUE] \in Node
                         /\ [x EXCEPT !.global = TRUE] \in Node
                         /\ [x EXCEPT !.local = TRUE] \in Node
    BY DEF Node
  <2>2. ASSUME NEW x \in Node
        PROVE  /\ SameNode(x, [x EXCEPT !.element = TRUE])
               /\ SameNode(x, [x EXCEPT !.global = TRUE])
               /\ SameNode(x, [x EXCEPT !.local = TRUE])
    <3>1. SameNode(x, [x EXCEPT !.element = TRUE])
      BY DEF SameNode, Node
    <3>2. SameNode(x, [x EXCEPT !.global = TRUE])
      BY DEF SameNode, Node
    <3>3. SameNode(x, [x EXCEPT !.local = TRUE])
      BY DEF SameNode, Node
    <3> QED BY <3>1, <3>2, <3>3
  <2> QED BY <1>1, <2>1, <2>2
<1>4. /\ setElement(th, id) = [th EXCEPT !.nodes[id + 1] = [n EXCEPT !.element = TRUE]]
      /\ [th EXCEPT !.nodes[id + 1].global = TRUE]
            = [th EXCEPT !.nodes[id + 1] = [n EXCEPT !.global = TRUE]]
      /\ [th EXCEPT !.nodes[id + 1].local = TRUE]
            = [th EXCEPT !.nodes[id + 1] = [n EXCEPT !.local = TRUE]]
  BY <1>1 DEF setElement, IsTheory
<1> HIDE DEF n
<1> QED BY <1>2, <1>3, <1>4

LEMMA YieldsMore ==
    ASSUME NEW th, Good(th), NEW new, NEW id, Yields(th, [th |-> new, id |-> id]),
           NEW more, Extends(new, more)
    PROVE  Yields(th, [th |-> more, id |-> id])
<1>1. Extends(th, new) /\ Good(new) /\ id \in Ids(new)
  BY DEF Yields, Extends
<1>2. id \in Ids(more)
  BY <1>1, IdsKept
<1> QED BY <1>1, <1>2, ExtendsTransitive DEF Yields

LEMMA RelationalYields ==
    ASSUME NEW th, Good(th), NEW op \in NodeOps, NEW t1 \in Ids(th), NEW t2 \in Ids(th)
    PROVE  Yields(th, handleTermRelationalTerm(th, op, t1, t2))
<1> DEFINE node == VocabNode(op, "binary-relational")
           full == [node EXCEPT !.operandIds = Ordered(op = "=", t1, t2)]
           mid == makeNode(th, propagateIsGlobal(th, full, {t1, t2}))
<1>0. t1 \in Nat /\ t2 \in Nat /\ "binary-relational" \in NodeTypes
  BY NodesOf, NodeWords
<1>1. node \in Node /\ ~ node.isVar /\ node.operandIds = <<>>
  BY <1>0, VocabNodeIsNode
<1>2. full \in Node /\ ~ full.isVar /\ \A i \in DOMAIN full.operandIds : full.operandIds[i] \in {t1, t2}
  BY <1>0, BinaryNode
<1> HIDE DEF node, full
<1>3. CASE op \in {"=", "<="} /\ t1 = t2
  <2> DEFINE left == makeNode(th, node)
  <2>1. Extends(th, left)
    BY <1>1, ExtendsByNode
  <2> HIDE DEF left
  <2>2. Good(left)
    BY <2>1 DEF Extends
  <2>3. Extends(left, handleTrue(left).th) /\ handleTrue(left).id \in Ids(handleTrue(left).th)
    BY <2>2, TrueYields DEF Yields
  <2>4. Extends(th, handleTrue(left).th)
    BY <2>1, <2>2, <2>3, ExtendsTransitive
  <2> QED BY <1>3, <2>3, <2>4 DEF handleTermRelationalTerm, Yields, node, left
<1>4. CASE ~ (op \in {"=", "<="} /\ t1 = t2)
  <2>1. Yields(th, [th |-> mid, id |-> NextId(th)]) /\ Good(mid)
    BY <1>2, YieldsNode
  <2>2. t1 \in Ids(mid) /\ t2 \in Ids(mid)
    BY <2>1, IdsKept DEF Yields
  <2> HIDE DEF mid
  <2>3. Extends(mid, ShareElement(mid, t1, t2))
    BY <2>1, <2>2, SetFlag, ExtendsReflexive DEF ShareElement
  <2>4. Yields(th, [th |-> ShareElement(mid, t1, t2), id |-> NextId(th)])
    BY <2>1, <2>3, YieldsMore
  <2> QED BY <1>4, <2>4 DEF handleTermRelationalTerm, mid, node, full
<1> QED BY <1>3, <1>4

LEMMA UnaryNode ==
    ASSUME NEW op \in NodeOps, NEW type \in NodeTypes, NEW t \in Nat
    PROVE  LET n == [VocabNode(op, type) EXCEPT !.operandIds = <<t>>]
           IN  n \in Node /\ ~ n.isVar /\ \A i \in DOMAIN n.operandIds : n.operandIds[i] \in {t}
<1>1. \A v \in Node, s \in Seq(Nat) :
         LET n == [v EXCEPT !.operandIds = s]
         IN  n \in Node /\ n.isVar = v.isVar /\ n.operandIds = s
  BY DEF Node
<1>2. <<t>> \in Seq(Nat)
  OBVIOUS
<1>3. \A i \in DOMAIN <<t>> : <<t>>[i] \in {t}
  OBVIOUS
<1> QED BY ZenonT(60), <1>1, <1>2, <1>3, VocabNodeIsNode

LEMMA PairNode ==
    ASSUME NEW op \in NodeOps, NEW type \in NodeTypes, NEW t1 \in Nat, NEW t2 \in Nat
    PROVE  LET n == [VocabNode(op, type) EXCEPT !.operandIds = <<t1, t2>>]
           IN  n \in Node /\ ~ n.isVar /\ \A i \in DOMAIN n.operandIds : n.operandIds[i] \in {t1, t2}
<1>1. \A v \in Node, s \in Seq(Nat) :
         LET n == [v EXCEPT !.operandIds = s]
         IN  n \in Node /\ n.isVar = v.isVar /\ n.operandIds = s
  BY DEF Node
<1>2. <<t1, t2>> \in Seq(Nat)
  OBVIOUS
<1>3. \A i \in DOMAIN <<t1, t2>> : <<t1, t2>>[i] \in {t1, t2}
  OBVIOUS
<1> QED BY ZenonT(60), <1>1, <1>2, <1>3, VocabNodeIsNode

LEMMA ArithYields ==
    ASSUME NEW th, Good(th), NEW op \in NodeOps, NEW t1 \in Ids(th), NEW t2 \in Ids(th)
    PROVE  Yields(th, handleTermArithTerm(th, op, t1, t2))
<1>0. t1 \in Nat /\ t2 \in Nat /\ getNode(th, t1) \in Node /\ getNode(th, t2) \in Node
  BY NodesOf
<1>1. \A m \in Node : m.leftVars \in Seq(Nat) /\ m.rightVars \in Seq(Nat)
  BY DEF Node
<1> DEFINE v == VocabNode(op, "binary-arithmetic")
           s == Ordered(op \in {"+", "*"}, t1, t2)
           l == getNode(th, t1).leftVars
           r == getNode(th, t2).rightVars
           n == [v EXCEPT !.operandIds = s, !.leftVars = l, !.rightVars = r]
<1>2. v \in Node /\ ~ v.isVar
  BY VocabNodeIsNode, NodeWords
<1>3. /\ s \in Seq(Nat) /\ l \in Seq(Nat) /\ r \in Seq(Nat)
      /\ \A i \in DOMAIN s : s[i] \in {t1, t2}
  BY <1>0, <1>1 DEF Ordered
<1> HIDE DEF v, s, l, r
<1>5. n \in Node /\ ~ n.isVar /\ n.operandIds = s
  BY <1>2, <1>3 DEF Node
<1> HIDE DEF n
<1>6. \A i \in DOMAIN n.operandIds : n.operandIds[i] \in Ids(th)
  BY <1>3, <1>5
<1> QED BY <1>5, <1>6, YieldsNode DEF handleTermArithTerm, n, v, s, l, r

LEMMA BooleanYields ==
    ASSUME NEW th, Good(th), NEW op \in NodeOps, NEW t1 \in Ids(th), NEW t2 \in Ids(th)
    PROVE  /\ Yields(th, handleBEBoolBE(th, op, t1, t2))
           /\ Yields(th, handleNot(th, t1))
           /\ Yields(th, handleUnaryMinus(th, t1))
<1>0. t1 \in Nat /\ t2 \in Nat
      /\ {"not", "-"} \subseteq NodeOps
      /\ {"binary-boolean", "unary-boolean", "unary-arithmetic"} \subseteq NodeTypes
  BY NodesOf, NodeWords
<1>1. Yields(th, handleBEBoolBE(th, op, t1, t2))
  <2> DEFINE n == [VocabNode(op, "binary-boolean") EXCEPT !.operandIds = <<t1, t2>>]
  <2>1. n \in Node /\ ~ n.isVar /\ \A i \in DOMAIN n.operandIds : n.operandIds[i] \in {t1, t2}
    BY <1>0, PairNode
  <2> HIDE DEF n
  <2>2. \A i \in DOMAIN n.operandIds : n.operandIds[i] \in Ids(th)
    BY <2>1
  <2> QED BY <2>1, <2>2, YieldsNode DEF handleBEBoolBE, n
<1>2. Yields(th, handleNot(th, t1))
  <2> DEFINE n == [VocabNode("not", "unary-boolean") EXCEPT !.operandIds = <<t1>>]
  <2>1. n \in Node /\ ~ n.isVar /\ \A i \in DOMAIN n.operandIds : n.operandIds[i] \in {t1}
    BY <1>0, UnaryNode
  <2> HIDE DEF n
  <2>2. \A i \in DOMAIN n.operandIds : n.operandIds[i] \in Ids(th)
    BY <2>1
  <2> QED BY <2>1, <2>2, YieldsNode DEF handleNot, n
<1>3. Yields(th, handleUnaryMinus(th, t1))
  <2> DEFINE n == [VocabNode("-", "unary-arithmetic") EXCEPT !.operandIds = <<t1>>]
  <2>1. n \in Node /\ ~ n.isVar /\ \A i \in DOMAIN n.operandIds : n.operandIds[i] \in {t1}
    BY <1>0, UnaryNode
  <2> HIDE DEF n
  <2>2. \A i \in DOMAIN n.operandIds : n.operandIds[i] \in Ids(th)
    BY <2>1
  <2> QED BY <2>1, <2>2, YieldsNode DEF handleUnaryMinus, n
<1> QED BY <1>1, <1>2, <1>3

LEMMA QuantifierYields ==
    ASSUME NEW th, Good(th), NEW v \in Ids(th), NEW be \in Ids(th)
    PROVE  /\ Yields(th, handleForall(th, v, be))
           /\ Yields(th, handleExists(th, v, be))
<1>0. v \in Nat /\ be \in Nat /\ {"forall", "exists"} \subseteq NodeOps /\ "quantifier" \in NodeTypes
  BY NodesOf, NodeWords
<1>1. ASSUME NEW op \in NodeOps
      PROVE  LET mid == makeNode(th, [VocabNode(op, "quantifier") EXCEPT !.operandIds = <<v, be>>])
             IN  /\ Yields(th, [th |-> [mid EXCEPT !.nodes[v + 1].global = TRUE], id |-> NextId(th)])
                 /\ Yields(th, [th |-> [mid EXCEPT !.nodes[v + 1].local = TRUE], id |-> NextId(th)])
  <2> DEFINE n == [VocabNode(op, "quantifier") EXCEPT !.operandIds = <<v, be>>]
             mid == makeNode(th, n)
  <2>1. n \in Node /\ ~ n.isVar /\ \A i \in DOMAIN n.operandIds : n.operandIds[i] \in Ids(th)
    BY <1>0, PairNode
  <2> HIDE DEF n
  <2>2. Extends(th, mid) /\ NextId(th) \in Ids(mid)
    BY <2>1, ExtendsByNode
  <2>3. Good(mid) /\ v \in Ids(mid) /\ Yields(th, [th |-> mid, id |-> NextId(th)])
    BY <2>2, IdsKept DEF Extends, Yields
  <2> HIDE DEF mid
  <2>4. /\ Yields(th, [th |-> [mid EXCEPT !.nodes[v + 1].global = TRUE], id |-> NextId(th)])
        /\ Yields(th, [th |-> [mid EXCEPT !.nodes[v + 1].local = TRUE], id |-> NextId(th)])
    BY <2>3, SetFlag, YieldsMore
  <2> QED BY <2>4 DEF mid, n
<1> QED BY <1>0, <1>1 DEF handleForall, handleExists

(* The index is entered in a collection; no node depends on it.            *)
LEMMA AccessYields ==
    ASSUME NEW th, Good(th), NEW a \in Ids(th), NEW t \in Ids(th)
    PROVE  Yields(th, handleArrayAccess(th, a, t))
<1> DEFINE v == VocabNode("[]", "access")
           n == [v EXCEPT !.element = TRUE, !.operandIds = <<a, t>>,
                          !.leftVars = <<a>>, !.rightVars = <<a>>]
           mid == makeNode(th, propagateIsGlobal(th, n, {t}))
           uvars == getUVars(th, t)
           universal == [mid EXCEPT !.uterms = @ \cup {t},
                                    !.uvars = @ \cup {uvars[i] : i \in DOMAIN uvars}]
           other == [mid EXCEPT !.readIndexTerms = @ \cup {t}]
<1>0. a \in Nat /\ t \in Nat /\ "[]" \in NodeOps /\ "access" \in NodeTypes
  BY NodesOf, NodeWords
<1>1. v \in Node /\ ~ v.isVar
  BY <1>0, VocabNodeIsNode
<1>2. <<a, t>> \in Seq(Nat) /\ <<a>> \in Seq(Nat) /\ \A i \in DOMAIN <<a, t>> : <<a, t>>[i] \in {a, t}
  BY <1>0
<1> HIDE DEF v
<1>3. n \in Node /\ ~ n.isVar /\ n.operandIds = <<a, t>>
  BY <1>1, <1>2 DEF Node
<1> HIDE DEF n
<1>4. Yields(th, [th |-> mid, id |-> NextId(th)]) /\ Good(mid)
  BY <1>2, <1>3, YieldsNode
<1> HIDE DEF mid, uvars
<1>5. IsTheory(mid) /\ {mid.trueId, mid.falseId} \subseteq Ids(mid) \cup {NoId}
  BY <1>4 DEF Good
<1>6. Extends(mid, universal)
  <2>1. IsTheory(universal) /\ universal.nodes = mid.nodes
        /\ universal.var2idMap = mid.var2idMap /\ universal.varIds = mid.varIds
        /\ universal.constantIds = mid.constantIds
        /\ universal.trueId = mid.trueId /\ universal.falseId = mid.falseId
    BY <1>5 DEF IsTheory
  <2> HIDE DEF universal
  <2> QED BY <1>4, <1>5, <2>1, ExtendsByField
<1>7. Extends(mid, other)
  <2>1. IsTheory(other) /\ other.nodes = mid.nodes
        /\ other.var2idMap = mid.var2idMap /\ other.varIds = mid.varIds
        /\ other.constantIds = mid.constantIds
        /\ other.trueId = mid.trueId /\ other.falseId = mid.falseId
    BY <1>5 DEF IsTheory
  <2> HIDE DEF other
  <2> QED BY <1>4, <1>5, <2>1, ExtendsByField
<1> HIDE DEF universal, other
<1>8. /\ Yields(th, [th |-> universal, id |-> NextId(th)])
      /\ Yields(th, [th |-> other, id |-> NextId(th)])
  BY <1>4, <1>6, <1>7, YieldsMore
<1>9. handleArrayAccess(th, a, t) = [th |-> IF getNode(th, t).global THEN universal ELSE other,
                                     id |-> NextId(th)]
  BY DEF handleArrayAccess, universal, other, mid, uvars, n, v
<1> QED BY <1>8, <1>9

(* What a rule enters.                                                     *)
LEMMA RulesExtend ==
    ASSUME NEW th, Good(th), NEW S
    PROVE  Extends(th, [th EXCEPT !.rulemap = @ \cup S])
<1> DEFINE new == [th EXCEPT !.rulemap = @ \cup S]
<1>1. IsTheory(th) /\ {th.trueId, th.falseId} \subseteq Ids(th) \cup {NoId}
  BY DEF Good
<1>2. IsTheory(new) /\ new.nodes = th.nodes
      /\ new.var2idMap = th.var2idMap /\ new.varIds = th.varIds
      /\ new.constantIds = th.constantIds
      /\ new.trueId = th.trueId /\ new.falseId = th.falseId
  BY <1>1 DEF IsTheory
<1> HIDE DEF new
<1>3. Extends(th, new)
  BY <1>1, <1>2, ExtendsByField
<1> QED BY <1>3 DEF new

LEMMA BoundExtends ==
    ASSUME NEW th, Good(th), NEW a \in Ids(th), NEW id \in Nat
    PROVE  Extends(th, AddBound(th, a, id))
<1> DEFINE S == BoundRules(th, a, id)
           mid == [th EXCEPT !.rulemap = @ \cup S]
           n == getNode(th, a)
           b == Append(n.boundIds, id)
           m == [n EXCEPT !.boundIds = b]
<1>1. n \in Node /\ n = th.nodes[a + 1] /\ IsTheory(th) /\ a + 1 \in DOMAIN th.nodes
  BY NodesOf DEF getNode, Good, IsTheory, Ids
<1>2. b \in Seq(Nat)
  BY <1>1 DEF Node
<1> HIDE DEF S, n, b
<1>3. m \in Node /\ SameNode(n, m)
  BY <1>1, <1>2 DEF Node, SameNode
<1>4. Extends(th, mid)
  BY RulesExtend
<1>5. IsTheory(mid) /\ Good(mid) /\ mid.nodes = th.nodes /\ Ids(mid) = Ids(th)
  BY <1>1, <1>4 DEF IsTheory, Extends, Good, Ids
<1>6. getNode(mid, a) = n
  BY <1>1, <1>5 DEF getNode
<1>8. AddBound(th, a, id) = [mid EXCEPT !.nodes[a + 1] = m]
  BY <1>1 DEF AddBound, IsTheory, S, b
<1> HIDE DEF mid, m
<1>7. Extends(mid, [mid EXCEPT !.nodes[a + 1] = m])
  BY <1>3, <1>5, <1>6, ExtendsByFlag
<1> QED BY <1>4, <1>7, <1>8, ExtendsTransitive

LEMMA RuleExtends ==
    ASSUME NEW th, Good(th), NEW a \in Ids(th), NEW id \in Nat, NEW ops
    PROVE  Extends(th, handleGrammarRule(th, a, id, ops))
<1> DEFINE plain == {<<a, id, op>> : op \in UNION {Expanded(o) : o \in ops}}
           ruled == [th EXCEPT !.rulemap = @ \cup plain]
           once == AddBound(ruled, a, id)
           none == ops \cap {"bound", "index"} = {}
           both == {"bound", "index"} \subseteq ops
<1>1. Extends(th, ruled)
  BY RulesExtend
<1>2. handleGrammarRule(th, a, id, ops)
         = IF none THEN ruled ELSE IF both THEN AddBound(once, a, id) ELSE once
  BY DEF handleGrammarRule
<1> HIDE DEF ruled, none, both
<1>3. Good(ruled) /\ a \in Ids(ruled)
  BY <1>1, IdsKept DEF Extends
<1>4. Extends(ruled, once)
  BY <1>3, BoundExtends
<1> HIDE DEF once
<1>5. Good(once) /\ a \in Ids(once) /\ Extends(th, once)
  BY <1>1, <1>3, <1>4, IdsKept, ExtendsTransitive DEF Extends
<1>6. Extends(once, AddBound(once, a, id))
  BY <1>5, BoundExtends
<1>7. Extends(th, AddBound(once, a, id))
  BY <1>5, <1>6, ExtendsTransitive
<1> QED BY <1>1, <1>2, <1>5, <1>7

-----------------------------------------------------------------------------
(* Declarations                                                            *)

(* A node made with the id it will have as its own variables.              *)
LEMMA DeclareVarExtends ==
    ASSUME NEW th, Good(th), NEW name \in Seq(Word), name \notin DOMAIN th.var2idMap,
           NEW type \in NodeTypes, NEW mode
    PROVE  LET new == DeclareVar(th, name, type, mode)
           IN  /\ Extends(th, new)
               /\ NextId(th) \in Ids(new)
               /\ DOMAIN new.var2idMap = DOMAIN th.var2idMap \cup {name}
<1> DEFINE id == NextId(th)
           v == VocabNode("", type)
           c == mode = "const"
           g == mode = "global"
           l == mode = "local"
           n == [v EXCEPT !.name = name, !.isVar = TRUE, !.const = c, !.global = g, !.local = l]
           m == [n EXCEPT !.leftVars = <<id>>, !.rightVars = <<id>>]
           V == [k \in DOMAIN th.var2idMap \cup {name} |-> IF k = name THEN id ELSE th.var2idMap[k]]
           vs == Append(th.varIds, id)
           N == Append(th.nodes, m)
           new == [th EXCEPT !.nodes = N, !.var2idMap = V, !.varIds = vs]
<1>1. IsTheory(th) /\ th.nodes \in Seq(Node) /\ th.var2idMap \in Maps /\ th.varIds \in Seq(Nat)
      /\ th.constantIds \in Seq(Nat)
      /\ Sound(th.nodes, th.var2idMap, th.varIds, th.constantIds)
  BY DEF Good, IsTheory
<1>2. id \in Nat /\ id = Len(th.nodes)
  BY <1>1 DEF NextId
<1>3. v \in Node /\ v.operandIds = <<>>
  BY VocabNodeIsNode, NodeWords
<1>4. c \in BOOLEAN /\ g \in BOOLEAN /\ l \in BOOLEAN
  OBVIOUS
<1>5. DeclareVar(th, name, type, mode) = new
  BY <1>1 DEF DeclareVar, VarNode, makeNode, IsTheory
<1> HIDE DEF v, c, g, l, id
<1>6. m \in Node /\ m.isVar /\ m.operandIds = <<>> /\ m.name = name
  <2>1. n \in Node /\ n.isVar /\ n.operandIds = <<>> /\ n.name = name
    BY <1>3, <1>4 DEF Node
  <2> HIDE DEF n
  <2>2. <<id>> \in Seq(Nat)
    BY <1>2
  <2> QED BY <2>1, <2>2 DEF Node
<1> HIDE DEF m
<1>7. V \in Maps /\ Sound(N, V, vs, th.constantIds)
  BY <1>1, <1>2, <1>6, SoundByVariable
<1>8. N \in Seq(Node) /\ Grows(th.nodes, N) /\ vs \in Seq(Nat) /\ Len(N) = Len(th.nodes) + 1
  BY <1>1, <1>2, <1>6, GrowsByAppend
<1>9. DOMAIN V = DOMAIN th.var2idMap \cup {name}
  OBVIOUS
<1> HIDE DEF V, N, vs
<1>10. /\ IsTheory(new) /\ new.nodes = N /\ new.var2idMap = V /\ new.varIds = vs
       /\ new.constantIds = th.constantIds
       /\ new.trueId = th.trueId /\ new.falseId = th.falseId
  BY <1>1, <1>7, <1>8 DEF IsTheory
<1> HIDE DEF new
<1>11. Ids(th) \subseteq Ids(new) /\ id \in Ids(new)
  BY <1>2, <1>8, <1>10 DEF Ids
<1>12. Extends(th, new)
  BY <1>7, <1>8, <1>10, <1>11 DEF Extends, Good
<1> QED BY <1>5, <1>9, <1>10, <1>11, <1>12 DEF id

(* The size of an array is declared once and kept with the array.          *)
LEMMA DeclareSizeExtends ==
    ASSUME NEW th, Good(th), NEW id \in Ids(th), NEW name \in Seq(Word)
    PROVE  Extends(th, DeclareSize(th, id, name))
<1> DEFINE szname == SizeName(name)
           sized == IF szname \in DOMAIN th.var2idMap THEN th
                    ELSE DeclareVar(th, szname, "int", "none")
           n == getNode(sized, id)
           x == sized.var2idMap[szname]
           m == [n EXCEPT !.arrSizeMinusOneId = x]
<1>1. szname \in Seq(Word) /\ "int" \in NodeTypes
  <2>1. "size_minus_1" \in Word /\ "int" \in NodeTypes
    BY NodeWords DEF Word
  <2> QED BY <2>1 DEF SizeName
<1> HIDE DEF szname
<1>2. Extends(th, sized) /\ szname \in DOMAIN sized.var2idMap
  <2>1. CASE szname \in DOMAIN th.var2idMap
    BY <2>1, ExtendsReflexive
  <2>2. CASE szname \notin DOMAIN th.var2idMap
    BY <1>1, <2>2, DeclareVarExtends
  <2> QED BY <2>1, <2>2
<1>7. DeclareSize(th, id, name) = [sized EXCEPT !.nodes[id + 1].arrSizeMinusOneId = sized.var2idMap[szname]]
  BY DEF DeclareSize, szname
<1> HIDE DEF sized
<1>3. Good(sized) /\ IsTheory(sized) /\ id \in Ids(sized)
  BY <1>2, IdsKept DEF Extends, Good
<1>4. n \in Node /\ n = sized.nodes[id + 1] /\ id + 1 \in DOMAIN sized.nodes
  BY <1>3, NodesOf DEF getNode, IsTheory, Ids
<1>5. x \in Nat
  <2>1. PICK S \in SUBSET Seq(Word) : sized.var2idMap \in [S -> Nat]
    BY <1>3 DEF IsTheory, Maps
  <2> QED BY <1>2, <2>1
<1>8. DeclareSize(th, id, name) = [sized EXCEPT !.nodes[id + 1] = m]
  BY <1>3, <1>4, <1>7 DEF IsTheory
<1> HIDE DEF n, x
<1>6. m \in Node /\ SameNode(n, m)
  BY <1>4, <1>5 DEF Node, SameNode
<1> HIDE DEF m
<1>9. Extends(sized, DeclareSize(th, id, name))
  BY <1>3, <1>6, <1>8, ExtendsByFlag DEF n
<1> QED BY <1>2, <1>9, ExtendsTransitive

LEMMA DeclarationExtends ==
    ASSUME NEW th, Good(th), NEW name \in Seq(Word), NEW type \in NodeTypes, NEW mode
    PROVE  LET new == handleDeclaration(th, name, type, mode).th
           IN  Extends(th, new) /\ Ids(new) # {}
<1> DEFINE declared == DeclareVar(th, name, type, mode)
<1>1. CASE name \in DOMAIN th.var2idMap
  <2>1. th.var2idMap[name] \in Ids(th)
    BY <1>1 DEF Good, Sound, NamedIn, Ids
  <2> QED BY <1>1, <2>1, ExtendsReflexive DEF handleDeclaration
<1>2. CASE name \notin DOMAIN th.var2idMap
  <2>1. Extends(th, declared) /\ NextId(th) \in Ids(declared)
    BY <1>2, DeclareVarExtends
  <2>2. handleDeclaration(th, name, type, mode).th
          = IF type \in ArrayTypes THEN DeclareSize(declared, NextId(th), name) ELSE declared
    BY <1>2 DEF handleDeclaration
  <2> HIDE DEF declared
  <2>3. Good(declared)
    BY <2>1 DEF Extends
  <2>4. Extends(declared, DeclareSize(declared, NextId(th), name))
    BY <2>1, <2>3, DeclareSizeExtends
  <2>5. Ids(declared) \subseteq Ids(DeclareSize(declared, NextId(th), name))
    BY <2>3, <2>4, IdsKept
  <2> QED BY <2>1, <2>2, <2>4, <2>5, ExtendsTransitive
<1> QED BY <1>1, <1>2

LEMMA ConstantExtends ==
    ASSUME NEW th, Good(th), NEW value \in Int
    PROVE  /\ Extends(th, handleConstantDeclaration(th, value))
           /\ LiteralsOf(handleConstantDeclaration(th, value), value) # {}
<1> DEFINE id == NextId(th)
           v == VocabNode("lit", "literal")
           m == [v EXCEPT !.const = TRUE, !.value = value, !.leftVars = <<id>>, !.rightVars = <<id>>]
           N == Append(th.nodes, m)
           cs == Append(th.constantIds, id)
           new == [th EXCEPT !.nodes = N, !.constantIds = cs]
<1>1. IsTheory(th) /\ th.nodes \in Seq(Node) /\ th.var2idMap \in Maps /\ th.varIds \in Seq(Nat)
      /\ th.constantIds \in Seq(Nat)
      /\ Sound(th.nodes, th.var2idMap, th.varIds, th.constantIds)
  BY DEF Good, IsTheory
<1>2. id \in Nat /\ id = Len(th.nodes)
  BY <1>1 DEF NextId
<1>0. CASE LiteralsOf(th, value) # {}
  BY <1>0, ExtendsReflexive DEF handleConstantDeclaration
<1>3. CASE LiteralsOf(th, value) = {}
  <2>1. handleConstantDeclaration(th, value) = new
    BY <1>1, <1>3 DEF handleConstantDeclaration, makeNode, IsTheory
  <2>2. v \in Node /\ v.operandIds = <<>> /\ ~ v.isVar /\ v.type = "literal"
    <3>1. "lit" \in NodeOps /\ "literal" \in NodeTypes
      BY NodeWords
    <3> QED BY <3>1, VocabNodeIsNode DEF VocabNode
  <2> HIDE DEF v, id
  <2>3. m \in Node /\ m.operandIds = <<>> /\ ~ m.isVar /\ m.type = "literal" /\ m.value = value
    <3>1. <<id>> \in Seq(Nat) /\ value \in Int
      BY <1>2
    <3> QED BY <2>2, <3>1 DEF Node
  <2> HIDE DEF m
  <2>4. \A i \in 1 .. Len(th.constantIds) : th.nodes[th.constantIds[i] + 1].value # m.value
    <3>1. SUFFICES ASSUME NEW i \in 1 .. Len(th.constantIds), th.nodes[th.constantIds[i] + 1].value = value
                   PROVE  FALSE
      BY <2>3
    <3>2. LiteralsIn(th.nodes, th.constantIds) /\ DOMAIN th.constantIds = 1 .. Len(th.constantIds)
      BY <1>1 DEF Sound
    <3>3. getNode(th, th.constantIds[i]).type = "literal"
      BY <3>2 DEF LiteralsIn, getNode
    <3>4. getNode(th, th.constantIds[i]).value = value
      BY <3>1 DEF getNode
    <3>5. i \in LiteralsOf(th, value)
      BY <3>2, <3>3, <3>4 DEF LiteralsOf
    <3> QED BY <1>3, <3>5
  <2>5. Sound(N, th.var2idMap, th.varIds, cs)
    BY <1>1, <1>2, <2>3, <2>4, SoundByLiteral
  <2>6. N \in Seq(Node) /\ Grows(th.nodes, N) /\ cs \in Seq(Nat) /\ Len(N) = Len(th.nodes) + 1
        /\ N[Len(th.nodes) + 1] = m /\ cs[Len(th.constantIds) + 1] = id
        /\ Len(th.constantIds) + 1 \in DOMAIN cs
    BY <1>1, <1>2, <2>3, GrowsByAppend
  <2> HIDE DEF N, cs
  <2>7. /\ IsTheory(new) /\ new.nodes = N /\ new.var2idMap = th.var2idMap
        /\ new.varIds = th.varIds /\ new.constantIds = cs
        /\ new.trueId = th.trueId /\ new.falseId = th.falseId
    BY <1>1, <2>6 DEF IsTheory
  <2> HIDE DEF new
  <2>8. Ids(th) \subseteq Ids(new)
    <3>1. Len(th.nodes) \in Nat /\ Len(N) = Len(th.nodes) + 1
      BY <1>1, <2>6
    <3>2. 0 .. Len(th.nodes) - 1 \subseteq 0 .. Len(N) - 1
      BY <3>1
    <3>3. Ids(th) = 0 .. Len(th.nodes) - 1 /\ Ids(new) = 0 .. Len(N) - 1
      BY <2>7 DEF Ids
    <3> QED BY <3>2, <3>3
  <2>9. Extends(th, new)
    BY <2>5, <2>6, <2>7, <2>8 DEF Extends, Good
  <2>10. LiteralsOf(new, value) # {}
    BY <1>2, <2>3, <2>6, <2>7 DEF LiteralsOf, getNode
  <2> QED BY <2>1, <2>9, <2>10
<1> QED BY <1>0, <1>3

(* What a value is known by.                                               *)
LEMMA ConstantId ==
    ASSUME NEW th, Good(th), NEW value
    PROVE  /\ getIdOfUsedConstant(th, value) \in Ids(th) \cup {NoId}
           /\ LiteralsOf(th, value) # {} => getIdOfUsedConstant(th, value) \in Ids(th)
<1> DEFINE found == LiteralsOf(th, value)
<1>1. LiteralsIn(th.nodes, th.constantIds) /\ th.constantIds \in Seq(Nat)
  BY DEF Good, IsTheory, Sound
<1>2. \A i \in found : i \in 1 .. Len(th.constantIds) /\ th.constantIds[i] \in Ids(th)
  BY <1>1 DEF LiteralsOf, LiteralsIn, Ids
<1>3. \A i, j \in found : i = j
  <2>1. \A i \in found : i \in 1 .. Len(th.constantIds) /\ th.nodes[th.constantIds[i] + 1].value = value
    BY <1>1 DEF LiteralsOf, getNode
  <2> HIDE DEF found
  <2> QED BY <1>1, <2>1 DEF LiteralsIn
<1>4. found # {} => \E i \in found : \A j \in found : i <= j
  BY <1>1, <1>2, <1>3
<1>5. getIdOfUsedConstant(th, value)
        = IF found = {} THEN NoId ELSE th.constantIds[CHOOSE i \in found : \A j \in found : i <= j]
  BY DEF getIdOfUsedConstant
<1> HIDE DEF found
<1> QED BY <1>2, <1>4, <1>5 DEF found

(* What a name is known by.                                                *)
LEMMA VariableId ==
    ASSUME NEW th, Good(th), NEW name
    PROVE  getIdOfUsedVarible(th, name) \in Ids(th) \cup {NoId}
BY DEF getIdOfUsedVarible, Good, IsTheory, Sound, NamedIn, Ids

-----------------------------------------------------------------------------
(* The reader                                                              *)

(* What the proofs use of a production.                                    *)
LEMMA ProductionFields ==
    ASSUME NEW p \in Productions
    PROVE  /\ p.rule = "declaration" =>
                p.name \in Seq(Word) /\ p.type \in DeclaredTypes /\ p.type \in NodeTypes
           /\ p.rule = "wrong_declaration" => p.type \in DeclaredTypes /\ p.type \in NodeTypes
           /\ p.rule \in {"constant", "atom_literal"} => p.value \in Int
           /\ p.rule \in {"arithmetic", "relational", "boolean"} => p.op \in NodeOps
           /\ p.rule = "wrong_expression" => p.kind \in {"term", "be"}
<1>1. STRING \subseteq Word
  BY DEF Word
<1>2. Names \subseteq Seq(Word)
  <2>1. ASSUME NEW S, NEW T, S \subseteq T, NEW s \in Seq(S)
        PROVE  s \in Seq(T)
    BY <2>1
  <2> QED BY <1>1, <2>1 DEF Names
<1>3. p.rule = "declaration" => p.name \in Names /\ p.type \in DeclaredTypes
  BY DEF Productions
<1>4. p.rule = "wrong_declaration" => p.type \in DeclaredTypes
  BY DEF Productions
<1>5. p.rule \in {"constant", "atom_literal"} => p.value \in Int
  BY DEF Productions
<1>6. p.rule \in {"arithmetic", "relational", "boolean"} => p.op \in NodeOps
  BY DEF Productions, NodeOps
<1>7. p.rule = "wrong_expression" => p.kind \in {"term", "be"}
  BY DEF Productions
<1> QED BY <1>1, <1>2, <1>3, <1>4, <1>5, <1>6, <1>7, NodeWords

(* Nothing but a declaration is completed first, so that an id 0 made up   *)
(* by the recovery from an error names a node.                             *)
ReaderInv ==
    /\ Good(theory)
    /\ text \in Seq(Productions)
    /\ vals \in Seq(Pending)
    /\ \A i \in 1 .. Len(vals) : vals[i].id \in Ids(theory)
    /\ status = "reading" /\ Ids(theory) = {} => text \in Files

(* The production completed, when it is not one of those.                  *)
LEMMA Completed ==
    ASSUME ReaderInv, NEW rule, Completes(rule)
    PROVE  /\ current \in Productions /\ current.rule = rule
           /\ text' \in Seq(Productions)
           /\ rule \notin Opening => Ids(theory) # {}
BY FilesAssumption DEF ReaderInv, Completes, current

(* A theory without a pending term more or less.                           *)
LEMMA BecomesKeeps ==
    ASSUME ReaderInv, text' \in Seq(Productions), NEW th, Extends(theory, th), Ids(th) # {}, Becomes(th)
    PROVE  ReaderInv' /\ Grows(theory.nodes, theory'.nodes)
<1>1. theory' = th /\ vals' = vals /\ Good(theory)
  BY DEF Becomes, ReaderInv
<1>2. Ids(theory) \subseteq Ids(th)
  BY <1>1, IdsKept
<1>3. Ids(theory') = Ids(th) /\ Good(theory') /\ Grows(theory.nodes, theory'.nodes)
  BY <1>1 DEF Extends
<1> QED BY <1>1, <1>2, <1>3 DEF ReaderInv, Good, Ids

LEMMA StopKeeps ==
    ASSUME ReaderInv, text' \in Seq(Productions), NEW outcome, outcome # "reading", Stop(outcome)
    PROVE  ReaderInv' /\ Grows(theory.nodes, theory'.nodes)
<1>1. theory' = theory /\ vals' = vals /\ status' # "reading" /\ Good(theory)
  BY DEF Stop, ReaderInv
<1>2. Grows(theory.nodes, theory'.nodes)
  BY <1>1, ExtendsReflexive DEF Extends
<1> QED BY <1>1, <1>2 DEF ReaderInv, Good, Ids

(* The last n pending ids give way to one.                                 *)
LEMMA ReduceKeeps ==
    ASSUME ReaderInv, text' \in Seq(Productions), NEW n \in 0 .. Len(vals),
           NEW kind \in {"term", "be"}, NEW result, Yields(theory, result), Reduce(n, kind, result)
    PROVE  ReaderInv' /\ Grows(theory.nodes, theory'.nodes)
<1> DEFINE top == [kind |-> kind, id |-> result.id]
           rest == SubSeq(vals, 1, Len(vals) - n)
           th == result.th
<1>1. theory' = th /\ vals' = Append(rest, top) /\ Good(theory) /\ vals \in Seq(Pending)
      /\ \A i \in 1 .. Len(vals) : vals[i].id \in Ids(theory)
  BY DEF Reduce, ReaderInv
<1>2. Extends(theory, th) /\ Good(th) /\ result.id \in Ids(th) /\ Ids(th) \subseteq Nat
  BY DEF Yields, Extends, Ids
<1>3. Ids(theory) \subseteq Ids(th)
  BY <1>1, <1>2, IdsKept
<1>4. top \in Pending /\ top.id \in Ids(th)
  BY <1>2 DEF Pending
<1>5. rest \in Seq(Pending) /\ Len(rest) = Len(vals) - n
      /\ \A i \in 1 .. Len(rest) : rest[i] = vals[i]
  BY <1>1
<1> HIDE DEF top, rest, th
<1>6. vals' \in Seq(Pending) /\ Len(vals') = Len(rest) + 1
      /\ \A i \in 1 .. Len(vals') : vals'[i].id \in Ids(th)
  <2>1. Len(rest) \in Nat /\ \A i \in 1 .. Len(rest) : rest[i].id \in Ids(th)
    BY <1>1, <1>3, <1>5
  <2> DEFINE more == Append(rest, top)
  <2>2. more \in Seq(Pending) /\ Len(more) = Len(rest) + 1 /\ more[Len(rest) + 1] = top
        /\ \A i \in 1 .. Len(rest) : more[i] = rest[i]
    BY <1>4, <1>5
  <2> HIDE DEF more
  <2>3. \A i \in 1 .. Len(more) : i \in 1 .. Len(rest) \/ i = Len(rest) + 1
    BY <2>1, <2>2
  <2>4. \A i \in 1 .. Len(more) : more[i].id \in Ids(th)
    BY <1>4, <2>1, <2>2, <2>3
  <2> QED BY <1>1, <2>2, <2>4 DEF more
<1>7. Ids(theory') = Ids(th) /\ Good(theory') /\ Grows(theory.nodes, theory'.nodes) /\ Ids(th) # {}
  BY <1>1, <1>2 DEF Extends, th
<1> QED BY <1>6, <1>7 DEF ReaderInv, Good, Ids

(* The operands of a handler are nodes.                                    *)
LEMMA OperandsAreIds ==
    ASSUME ReaderInv
    PROVE  /\ \A a : Top(<<a>>) => Operand(1, 1) \in Ids(theory) /\ 1 \in 0 .. Len(vals)
           /\ \A a, b : Top(<<a, b>>) => /\ Operand(1, 2) \in Ids(theory)
                                         /\ Operand(2, 2) \in Ids(theory)
                                         /\ 2 \in 0 .. Len(vals)
           /\ 0 \in 0 .. Len(vals)
<1>1. Len(vals) \in Nat /\ \A i \in 1 .. Len(vals) : vals[i].id \in Ids(theory)
  BY DEF ReaderInv
<1>2. \A a : Len(<<a>>) = 1
  OBVIOUS
<1>3. \A a, b : Len(<<a, b>>) = 2
  OBVIOUS
<1>4. ASSUME NEW a, Top(<<a>>)
      PROVE  Operand(1, 1) \in Ids(theory) /\ 1 \in 0 .. Len(vals)
  BY <1>1, <1>2, <1>4 DEF Top, Operand
<1>5. ASSUME NEW a, NEW b, Top(<<a, b>>)
      PROVE  Operand(1, 2) \in Ids(theory) /\ Operand(2, 2) \in Ids(theory) /\ 2 \in 0 .. Len(vals)
  BY <1>1, <1>3, <1>5 DEF Top, Operand
<1> QED BY <1>1, <1>4, <1>5

LEMMA UsedIsId ==
    ASSUME ReaderInv, NEW name, NEW id \in UsedVariable(name), id # NoId
    PROVE  id \in Ids(theory)
BY VariableId DEF ReaderInv, UsedVariable, Used

LEMMA ItemKeeps ==
    ASSUME ReaderInv, declaration \/ constant \/ operations_bound \/ quantifiers_bound \/ wrong_item
    PROVE  ReaderInv' /\ Grows(theory.nodes, theory'.nodes)
<1>0. Good(theory) /\ Missing \in Seq(Word) /\ 0 \in Int
  <2>1. "<missing IDENTIFIER>" \in Word
    BY DEF Word
  <2>2. \A w \in Word : <<w>> \in Seq(Word)
    OBVIOUS
  <2>3. Missing \in Seq(Word)
    BY <2>1, <2>2 DEF Missing
  <2>4. 0 \in Int
    OBVIOUS
  <2> QED BY <2>3, <2>4 DEF ReaderInv
<1>1. CASE declaration
  <2>1. Completes("declaration") /\ Becomes(handleDeclaration(theory, current.name, current.type, current.mode).th)
    BY <1>1 DEF declaration
  <2>2. current.name \in Seq(Word) /\ current.type \in NodeTypes /\ text' \in Seq(Productions)
    BY <2>1, Completed, ProductionFields
  <2> QED BY <1>0, <2>1, <2>2, DeclarationExtends, BecomesKeeps
<1>2. ASSUME NEW value \in Int, text' \in Seq(Productions), Ids(theory) # {},
             Becomes(handleConstantDeclaration(theory, value))
      PROVE  ReaderInv' /\ Grows(theory.nodes, theory'.nodes)
  <2> DEFINE th == handleConstantDeclaration(theory, value)
  <2>1. Extends(theory, th)
    BY <1>0, ConstantExtends
  <2> HIDE DEF th
  <2>2. Ids(th) # {}
    BY <1>0, <1>2, <2>1, IdsKept
  <2> QED BY <1>2, <2>1, <2>2, BecomesKeeps DEF th
<1>3. CASE constant
  <2>1. Completes("constant") /\ Becomes(handleConstantDeclaration(theory, current.value))
    BY <1>3 DEF constant
  <2>2. current.value \in Int /\ text' \in Seq(Productions) /\ Ids(theory) # {}
    BY <2>1, Completed, ProductionFields DEF Opening
  <2> QED BY <1>2, <2>1, <2>2
<1>4. CASE operations_bound \/ quantifiers_bound
  <2>1. PICK th \in {[theory EXCEPT !.numClauseOperationBound = current.value],
                     [theory EXCEPT !.numQuantifierBound = current.value]} : Becomes(th)
    BY <1>4 DEF operations_bound, quantifiers_bound
  <2>2. text' \in Seq(Productions) /\ Ids(theory) # {}
    BY <1>4, Completed DEF operations_bound, quantifiers_bound, Opening
  <2>3. /\ IsTheory(th) /\ th.nodes = theory.nodes /\ th.var2idMap = theory.var2idMap
        /\ th.varIds = theory.varIds /\ th.constantIds = theory.constantIds
        /\ th.trueId = theory.trueId /\ th.falseId = theory.falseId
    BY <1>0, <2>1 DEF Good, IsTheory
  <2>4. {th.trueId, th.falseId} \subseteq Ids(theory) \cup {NoId}
    BY <1>0, <2>3 DEF Good
  <2>5. Extends(theory, th)
    BY <1>0, <2>3, <2>4, ExtendsByField
  <2>6. Ids(th) # {}
    BY <2>2, <2>3 DEF Ids
  <2> QED BY <2>1, <2>2, <2>5, <2>6, BecomesKeeps
<1>5. CASE wrong_item
  <2>1. CASE /\ Completes("wrong_declaration")
             /\ Becomes(handleDeclaration(theory, Missing, current.type, current.mode).th)
    <3>1. current.type \in NodeTypes /\ text' \in Seq(Productions)
      BY <2>1, Completed, ProductionFields
    <3> QED BY <1>0, <2>1, <3>1, DeclarationExtends, BecomesKeeps
  <2>2. CASE Completes("wrong_constant") /\ Becomes(handleConstantDeclaration(theory, 0))
    <3>1. text' \in Seq(Productions) /\ Ids(theory) # {}
      BY <2>2, Completed DEF Opening
    <3> QED BY <1>0, <1>2, <2>2, <3>1
  <2>3. CASE Completes("wrong_rule") /\ Becomes(theory)
    <3>1. text' \in Seq(Productions) /\ Ids(theory) # {}
      BY <2>3, Completed DEF Opening
    <3> QED BY <1>0, <2>3, <3>1, ExtendsReflexive, BecomesKeeps
  <2> QED BY <1>5, <2>1, <2>2, <2>3 DEF wrong_item
<1> QED BY <1>1, <1>3, <1>4, <1>5

LEMMA RuleKeeps ==
    ASSUME ReaderInv, grammar_rule
    PROVE  ReaderInv' /\ Grows(theory.nodes, theory'.nodes)
<1>1. Good(theory) /\ text' \in Seq(Productions) /\ Ids(theory) # {}
  BY Completed DEF ReaderInv, grammar_rule, Opening
<1>2. PICK id1, id2, ops : /\ id1 \in Ids(theory) \cup {NoId}
                           /\ id2 \in Ids(theory) \cup {NoId}
                           /\ Ruled(id1, id2, ops)
  BY <1>1, UsedIsId, ConstantId DEF grammar_rule
<1>3. CASE NoId \in {id1, id2}
  BY <1>1, <1>2, <1>3, ExtendsReflexive, BecomesKeeps DEF Ruled
<1>4. CASE NoId \notin {id1, id2} /\ GrammarRuleExits(theory, id1, ops)
  BY <1>1, <1>2, <1>4, StopKeeps DEF Ruled
<1>5. CASE NoId \notin {id1, id2} /\ ~ GrammarRuleExits(theory, id1, ops)
  <2> DEFINE th == handleGrammarRule(theory, id1, id2, ops)
  <2>1. id1 \in Ids(theory) /\ id2 \in Nat /\ Becomes(th)
    BY <1>2, <1>5 DEF Ruled, Ids
  <2>2. Extends(theory, th)
    BY <1>1, <2>1, RuleExtends
  <2> HIDE DEF th
  <2>3. Ids(th) # {}
    BY <1>1, <2>2, IdsKept
  <2> QED BY <1>1, <2>1, <2>2, <2>3, BecomesKeeps
<1> QED BY <1>3, <1>4, <1>5

(* Terms and formulae: a handler is applied to pending ids.                *)
LEMMA TermKeeps ==
    ASSUME ReaderInv,
           atom_literal \/ atom_variable \/ atom_access \/ unaryop \/ additionop_productop
    PROVE  ReaderInv' /\ Grows(theory.nodes, theory'.nodes)
<1>0. Good(theory)
  BY DEF ReaderInv
<1>1. CASE atom_literal
  <2> DEFINE declared == handleConstantDeclaration(theory, current.value)
             result == [th |-> declared, id |-> getIdOfUsedConstant(declared, current.value)]
  <2>1. Completes("atom_literal") /\ Reduce(0, "term", result)
    BY <1>1 DEF atom_literal
  <2>2. current.value \in Int /\ text' \in Seq(Productions)
    BY <2>1, Completed, ProductionFields
  <2>3. Extends(theory, declared) /\ LiteralsOf(declared, current.value) # {}
    BY <1>0, <2>2, ConstantExtends
  <2> HIDE DEF declared
  <2>4. Yields(theory, result)
    BY <2>3, ConstantId DEF Yields, Extends
  <2> HIDE DEF result
  <2> QED BY <2>1, <2>2, <2>4, OperandsAreIds, ReduceKeeps
<1>2. CASE atom_variable
  <2>1. text' \in Seq(Productions)
    BY <1>2, Completed DEF atom_variable
  <2>2. PICK id \in UsedVariable(current.name) :
           \/ Undeclared(id)
           \/ id # NoId /\ Reduce(0, "term", [th |-> theory, id |-> id])
    BY <1>2 DEF atom_variable
  <2>3. CASE Undeclared(id)
    BY <2>1, <2>3, StopKeeps DEF Undeclared
  <2>4. CASE id # NoId /\ Reduce(0, "term", [th |-> theory, id |-> id])
    <3>1. Yields(theory, [th |-> theory, id |-> id])
      BY <1>0, <2>4, UsedIsId, ExtendsReflexive DEF Yields
    <3> QED BY <2>1, <2>4, <3>1, OperandsAreIds, ReduceKeeps
  <2> QED BY <2>2, <2>3, <2>4
<1>3. CASE atom_access
  <2>1. text' \in Seq(Productions) /\ Operand(1, 1) \in Ids(theory) /\ 1 \in 0 .. Len(vals)
    BY <1>3, Completed, OperandsAreIds DEF atom_access
  <2>2. PICK id \in UsedVariable(current.name) :
           \/ Undeclared(id)
           \/ id # NoId /\ Reduce(1, "term", handleArrayAccess(theory, id, Operand(1, 1)))
    BY <1>3 DEF atom_access
  <2>3. CASE Undeclared(id)
    BY <2>1, <2>3, StopKeeps DEF Undeclared
  <2>4. CASE id # NoId /\ Reduce(1, "term", handleArrayAccess(theory, id, Operand(1, 1)))
    <3>1. Yields(theory, handleArrayAccess(theory, id, Operand(1, 1)))
      BY <1>0, <2>1, <2>4, UsedIsId, AccessYields
    <3> QED BY <2>1, <2>4, <3>1, ReduceKeeps
  <2> QED BY <2>2, <2>3, <2>4
<1>4. CASE unaryop
  <2>1. text' \in Seq(Productions) /\ Operand(1, 1) \in Ids(theory) /\ 1 \in 0 .. Len(vals)
    BY <1>4, Completed, OperandsAreIds DEF unaryop
  <2>2. Yields(theory, handleUnaryMinus(theory, Operand(1, 1)))
    BY <1>0, <2>1, BooleanYields, NodeWords
  <2> QED BY <1>4, <2>1, <2>2, ReduceKeeps DEF unaryop
<1>5. CASE additionop_productop
  <2>1. /\ text' \in Seq(Productions) /\ current.op \in NodeOps /\ 2 \in 0 .. Len(vals)
        /\ Operand(1, 2) \in Ids(theory) /\ Operand(2, 2) \in Ids(theory)
    BY <1>5, Completed, ProductionFields, OperandsAreIds DEF additionop_productop
  <2>2. Yields(theory, handleTermArithTerm(theory, current.op, Operand(1, 2), Operand(2, 2)))
    BY <1>0, <2>1, ArithYields
  <2> QED BY <1>5, <2>1, <2>2, ReduceKeeps DEF additionop_productop
<1> QED BY <1>1, <1>2, <1>3, <1>4, <1>5

LEMMA FormulaKeeps ==
    ASSUME ReaderInv, be_literal \/ be_relational \/ be_boolean \/ be_not
    PROVE  ReaderInv' /\ Grows(theory.nodes, theory'.nodes)
<1>0. Good(theory)
  BY DEF ReaderInv
<1>1. CASE be_literal
  <2>1. text' \in Seq(Productions)
    BY <1>1, Completed DEF be_literal
  <2>2. PICK result \in {handleTrue(theory), handleFalse(theory)} : Reduce(0, "be", result)
    BY <1>1 DEF be_literal
  <2>3. Yields(theory, result)
    BY <1>0, <2>2, TrueYields
  <2> QED BY <2>1, <2>2, <2>3, OperandsAreIds, ReduceKeeps
<1>2. CASE be_relational
  <2>1. /\ text' \in Seq(Productions) /\ current.op \in NodeOps /\ 2 \in 0 .. Len(vals)
        /\ Operand(1, 2) \in Ids(theory) /\ Operand(2, 2) \in Ids(theory)
    BY <1>2, Completed, ProductionFields, OperandsAreIds DEF be_relational
  <2>2. Yields(theory, handleTermRelationalTerm(theory, current.op, Operand(1, 2), Operand(2, 2)))
    BY <1>0, <2>1, RelationalYields
  <2> QED BY <1>2, <2>1, <2>2, ReduceKeeps DEF be_relational
<1>3. CASE be_boolean
  <2>1. /\ text' \in Seq(Productions) /\ current.op \in NodeOps /\ 2 \in 0 .. Len(vals)
        /\ Operand(1, 2) \in Ids(theory) /\ Operand(2, 2) \in Ids(theory)
    BY <1>3, Completed, ProductionFields, OperandsAreIds DEF be_boolean
  <2>2. Yields(theory, handleBEBoolBE(theory, current.op, Operand(1, 2), Operand(2, 2)))
    BY <1>0, <2>1, BooleanYields
  <2> QED BY <1>3, <2>1, <2>2, ReduceKeeps DEF be_boolean
<1>4. CASE be_not
  <2>1. text' \in Seq(Productions) /\ Operand(1, 1) \in Ids(theory) /\ 1 \in 0 .. Len(vals)
    BY <1>4, Completed, OperandsAreIds DEF be_not
  <2>2. Yields(theory, handleNot(theory, Operand(1, 1)))
    BY <1>0, <2>1, BooleanYields, NodeWords
  <2> QED BY <1>4, <2>1, <2>2, ReduceKeeps DEF be_not
<1> QED BY <1>1, <1>2, <1>3, <1>4

LEMMA VariableFormulaKeeps ==
    ASSUME ReaderInv, be_variable \/ be_quantified
    PROVE  ReaderInv' /\ Grows(theory.nodes, theory'.nodes)
<1>0. Good(theory)
  BY DEF ReaderInv
<1>1. text' \in Seq(Productions)
  BY Completed DEF be_variable, be_quantified
<1>2. CASE be_variable
  <2>1. PICK id \in UsedVariable(current.name) :
           \/ Undeclared(id)
           \/ Stop("aborted")
           \/ id # NoId /\ Reduce(0, "be", [th |-> theory, id |-> id])
    BY <1>2 DEF be_variable
  <2>2. CASE Undeclared(id) \/ Stop("aborted")
    BY <1>1, <2>2, StopKeeps DEF Undeclared
  <2>3. CASE id # NoId /\ Reduce(0, "be", [th |-> theory, id |-> id])
    <3>1. Yields(theory, [th |-> theory, id |-> id])
      BY <1>0, <2>3, UsedIsId, ExtendsReflexive DEF Yields
    <3> QED BY <1>1, <2>3, <3>1, OperandsAreIds, ReduceKeeps
  <2> QED BY <2>1, <2>2, <2>3
<1>3. CASE be_quantified
  <2>1. Operand(1, 1) \in Ids(theory) /\ 1 \in 0 .. Len(vals)
    BY <1>3, OperandsAreIds DEF be_quantified
  <2>2. PICK id \in UsedVariable(current.name) :
           \/ Undeclared(id)
           \/ id # NoId /\ Reduce(1, "be", handleForall(theory, id, Operand(1, 1)))
           \/ id # NoId /\ Reduce(1, "be", handleExists(theory, id, Operand(1, 1)))
    BY <1>3 DEF be_quantified
  <2>3. CASE Undeclared(id)
    BY <1>1, <2>3, StopKeeps DEF Undeclared
  <2>4. CASE id # NoId
    <3>1. /\ Yields(theory, handleForall(theory, id, Operand(1, 1)))
          /\ Yields(theory, handleExists(theory, id, Operand(1, 1)))
      BY <1>0, <2>1, <2>4, UsedIsId, QuantifierYields
    <3> QED BY <1>1, <2>1, <2>2, <2>3, <3>1, ReduceKeeps
  <2> QED BY <2>2, <2>3, <2>4
<1> QED BY <1>2, <1>3

(* What remains changes the pending ids only, or nothing of the theory.    *)
LEMMA RestKeeps ==
    ASSUME ReaderInv,
           clause \/ translation_unit \/ wrong_expression \/ wrong_clause \/ wrong_unit
    PROVE  ReaderInv' /\ Grows(theory.nodes, theory'.nodes)
<1>0. /\ Good(theory) /\ IsTheory(theory) /\ text \in Seq(Productions) /\ vals \in Seq(Pending)
      /\ \A i \in 1 .. Len(vals) : vals[i].id \in Ids(theory)
      /\ Extends(theory, theory)
  BY ExtendsReflexive DEF ReaderInv, Good
<1>1. CASE clause
  <2> DEFINE th == [theory EXCEPT !.vocabIds = Append(@, Operand(1, 1))]
  <2>1. Completes("clause") /\ theory' = th /\ vals' = <<>>
    BY <1>1 DEF clause
  <2>2. /\ IsTheory(th) /\ th.nodes = theory.nodes /\ th.var2idMap = theory.var2idMap
        /\ th.varIds = theory.varIds /\ th.constantIds = theory.constantIds
        /\ th.trueId = theory.trueId /\ th.falseId = theory.falseId
    BY <1>0 DEF IsTheory
  <2> HIDE DEF th
  <2>3. {th.trueId, th.falseId} \subseteq Ids(theory) \cup {NoId}
    BY <1>0, <2>2 DEF Good
  <2>4. Extends(theory, th)
    BY <1>0, <2>2, <2>3, ExtendsByField
  <2>5. text' \in Seq(Productions) /\ Ids(theory) # {}
    BY <2>1, Completed DEF Opening
  <2>6. Ids(theory') = Ids(theory) /\ Good(theory') /\ Grows(theory.nodes, theory'.nodes)
    BY <2>1, <2>2, <2>4 DEF Extends, Ids
  <2>7. vals' \in Seq(Pending) /\ \A i \in 1 .. Len(vals') : vals'[i].id \in Ids(theory')
    BY <2>1
  <2> QED BY <2>5, <2>6, <2>7 DEF ReaderInv, Good, Ids
<1>2. CASE translation_unit
  <2>1. theory' = theory /\ text' = text /\ vals' = vals /\ status' = "read"
    BY <1>2 DEF translation_unit
  <2> QED BY <1>0, <2>1 DEF ReaderInv, Extends, Good, Ids
<1>3. CASE wrong_expression
  <2> DEFINE top == [kind |-> current.kind, id |-> 0]
  <2>1. /\ Completes("wrong_expression") /\ theory' = theory /\ status' = status
        /\ vals' = Append(vals, top)
    BY <1>3 DEF wrong_expression
  <2>2. text' \in Seq(Productions) /\ Ids(theory) # {} /\ current.kind \in {"term", "be"}
    BY <2>1, Completed, ProductionFields DEF Opening
  <2>3. 0 \in Ids(theory)
    BY <1>0, <2>2, NodesOf DEF Ids
  <2>4. top \in Pending /\ top.id \in Ids(theory)
    BY <2>2, <2>3 DEF Pending
  <2> HIDE DEF top
  <2>5. Append(vals, top) \in Seq(Pending) /\ Len(Append(vals, top)) = Len(vals) + 1
        /\ Append(vals, top)[Len(vals) + 1] = top
        /\ \A i \in 1 .. Len(vals) : Append(vals, top)[i] = vals[i]
    BY <1>0, <2>4
  <2>6. \A i \in 1 .. Len(vals) + 1 : i \in 1 .. Len(vals) \/ i = Len(vals) + 1
    BY <1>0
  <2>7. vals' \in Seq(Pending) /\ \A i \in 1 .. Len(vals') : vals'[i].id \in Ids(theory)
    BY <1>0, <2>1, <2>4, <2>5, <2>6
  <2> QED BY <1>0, <2>1, <2>2, <2>7 DEF ReaderInv, Extends, Good, Ids
<1>4. CASE wrong_clause
  <2>1. Completes("wrong_clause") /\ theory' = theory /\ vals' = <<>>
    BY <1>4 DEF wrong_clause
  <2>2. text' \in Seq(Productions) /\ Ids(theory) # {}
    BY <2>1, Completed DEF Opening
  <2>3. vals' \in Seq(Pending) /\ \A i \in 1 .. Len(vals') : vals'[i].id \in Ids(theory)
    BY <2>1
  <2> QED BY <1>0, <2>1, <2>2, <2>3 DEF ReaderInv, Extends, Good, Ids
<1>5. CASE wrong_unit
  <2>1. Completes("wrong_unit") /\ Stop("null")
    BY <1>5 DEF wrong_unit
  <2> QED BY <2>1, Completed, StopKeeps
<1> QED BY <1>1, <1>2, <1>3, <1>4, <1>5

LEMMA InitReads == ReaderInit => ReaderInv
<1> SUFFICES ASSUME ReaderInit
             PROVE  ReaderInv
  OBVIOUS
<1>1. theory = EmptyTheory /\ text \in Files /\ vals = <<>>
  BY DEF ReaderInit
<1>2. EmptyTheory.nodes = <<>> /\ EmptyTheory.constantIds = <<>> /\ EmptyTheory.varIds = <<>>
      /\ DOMAIN EmptyTheory.var2idMap = {}
      /\ EmptyTheory.trueId = NoId /\ EmptyTheory.falseId = NoId
  BY DEF EmptyTheory
<1>3. IsTheory(EmptyTheory)
  <2>1. [n \in {} |-> NoId] \in Maps
    <3>1. [n \in {} |-> NoId] \in [{} -> Nat] /\ {} \in SUBSET Seq(Word)
      OBVIOUS
    <3> QED BY <3>1 DEF Maps
  <2> QED BY <2>1 DEF IsTheory, EmptyTheory
<1>4. Sound(<<>>, EmptyTheory.var2idMap, <<>>, <<>>)
  BY <1>2 DEF Sound, AcyclicIn, NamedIn, LiteralsIn
<1>5. Good(EmptyTheory)
  BY <1>2, <1>3, <1>4 DEF Good
<1> QED BY <1>1, <1>5, FilesAssumption DEF ReaderInv

(* A step keeps the table in step with the maps, and its nodes.            *)
LEMMA NextKeeps ==
    ASSUME ReaderInv, [ReaderNext]_readerVars
    PROVE  ReaderInv' /\ [Grows(theory.nodes, theory'.nodes)]_theory
<1>1. CASE ReaderNext
  BY <1>1, ItemKeeps, RuleKeeps, TermKeeps, FormulaKeeps, VariableFormulaKeeps, RestKeeps
     DEF ReaderNext
<1>2. CASE UNCHANGED readerVars
  <2>1. theory' = theory /\ text' = text /\ status' = status /\ vals' = vals
    BY <1>2 DEF readerVars
  <2> QED BY <2>1 DEF ReaderInv, Good, Ids
<1> QED BY <1>1, <1>2

LEMMA SoundTable == Good(theory) => TableSound
<1> SUFFICES ASSUME Good(theory)
             PROVE  TableSound
  OBVIOUS
<1> DEFINE N == theory.nodes
<1>1. /\ N \in Seq(Node) /\ Len(N) \in Nat /\ theory.varIds \in Seq(Nat)
      /\ theory.constantIds \in Seq(Nat)
      /\ Sound(N, theory.var2idMap, theory.varIds, theory.constantIds)
  BY DEF Good, IsTheory
<1>2. Acyclic
  <2>1. \A id \in Ids(theory) : id + 1 \in 1 .. Len(N) /\ (id + 1) - 2 = id - 1
    BY <1>1 DEF Ids
  <2> QED BY <1>1, <2>1 DEF Sound, AcyclicIn, Acyclic, getNode
<1>3. VariablesNamed
  <2>1. \A id \in Ids(theory) : id + 1 \in 1 .. Len(N) /\ (id + 1) - 1 = id
    BY <1>1 DEF Ids
  <2>2. ASSUME NEW id \in Ids(theory), N[id + 1].isVar
        PROVE  /\ N[id + 1].name \in DOMAIN theory.var2idMap
               /\ theory.var2idMap[N[id + 1].name] = id
               /\ \E i \in 1 .. Len(theory.varIds) : theory.varIds[i] = id
    <3>1. \A k \in 1 .. Len(N) : N[k].isVar =>
             /\ N[k].name \in DOMAIN theory.var2idMap /\ theory.var2idMap[N[k].name] = k - 1
             /\ \E i \in 1 .. Len(theory.varIds) : theory.varIds[i] = k - 1
      BY <1>1 DEF Sound, NamedIn
    <3> DEFINE k == id + 1
    <3>2. k \in 1 .. Len(N) /\ N[k].isVar /\ k - 1 = id
      BY <2>1, <2>2
    <3> HIDE DEF k
    <3>3. /\ N[k].name \in DOMAIN theory.var2idMap /\ theory.var2idMap[N[k].name] = id
          /\ \E i \in 1 .. Len(theory.varIds) : theory.varIds[i] = id
      BY <3>1, <3>2
    <3> QED BY <3>3 DEF k
  <2>3. \A n \in DOMAIN theory.var2idMap :
           /\ theory.var2idMap[n] \in Ids(theory)
           /\ N[theory.var2idMap[n] + 1].isVar
           /\ N[theory.var2idMap[n] + 1].name = n
    BY <1>1 DEF Sound, NamedIn, Ids
  <2>4. \A i \in 1 .. Len(theory.varIds) : N[theory.varIds[i] + 1].isVar
    BY <1>1 DEF Sound, NamedIn
  <2>5. DOMAIN theory.varIds = 1 .. Len(theory.varIds)
    BY <1>1
  <2> QED BY <2>2, <2>3, <2>4, <2>5 DEF VariablesNamed, getNode
<1>4. LiteralsDistinct
  <2>1. /\ \A i \in 1 .. Len(theory.constantIds) : getNode(theory, theory.constantIds[i]).type = "literal"
        /\ \A i, j \in 1 .. Len(theory.constantIds) :
              getNode(theory, theory.constantIds[i]).value = getNode(theory, theory.constantIds[j]).value
                 => i = j
    BY <1>1 DEF Sound, LiteralsIn, getNode
  <2>2. DOMAIN theory.constantIds = 1 .. Len(theory.constantIds)
    BY <1>1
  <2> QED BY <2>1, <2>2 DEF LiteralsDistinct
<1> QED BY <1>2, <1>3, <1>4 DEF TableSound

-----------------------------------------------------------------------------
(* Induction over the numbers                                              *)

LEMMA LeastNat ==
    ASSUME NEW T \in SUBSET Nat, T # {}
    PROVE  \E n \in T : \A m \in T : n <= m
<1> DEFINE R == OpToRel(<, Nat)
<1>1. IsWellFoundedOn(R, Nat)
  BY NatLessThanWellFounded
<1>2. \A x, y \in Nat : x < y => <<x, y>> \in R
  BY DEF OpToRel
<1> HIDE DEF R
<1>3. PICK n \in T : \A m \in T : ~ (<<m, n>> \in R)
  BY <1>1, WFMin
<1>4. ASSUME NEW m \in T
      PROVE  n <= m
  <2>1. m \in Nat /\ n \in Nat
    OBVIOUS
  <2>2. ~ (m < n)
    BY <1>2, <1>3, <2>1
  <2> QED BY <2>1, <2>2
<1> QED BY <1>4

LEMMA Induction ==
    ASSUME NEW T, 0 \in T, \A n \in Nat : n \in T => n + 1 \in T
    PROVE  Nat \subseteq T
<1> SUFFICES ASSUME Nat \ T # {} PROVE FALSE
  OBVIOUS
<1>1. PICK n \in Nat \ T : \A m \in Nat \ T : n <= m
  <2> DEFINE Out == Nat \ T
  <2>1. Out \in SUBSET Nat /\ Out # {}
    OBVIOUS
  <2> HIDE DEF Out
  <2>2. \E n \in Out : \A m \in Out : n <= m
    BY <2>1, LeastNat
  <2> QED BY <2>2 DEF Out
<1>2. n # 0 /\ n - 1 \in Nat
  OBVIOUS
<1>3. n - 1 \in T
  BY <1>1, <1>2
<1> QED BY <1>2, <1>3

-----------------------------------------------------------------------------
(* The index terms and the ranges of the ids                               *)

(* AccessIndexed and GlobalJustified, of a table N and the sets U and R of *)
(* index terms.  A variable is never taken for an access: its flags may    *)
(* still be set when a quantifier binds it.                                *)
IndexedIn(N, U, R) ==
    /\ \A k \in 1 .. Len(N) : N[k].isVar => N[k].type # "access"
    /\ \A k \in 1 .. Len(N) : N[k].type = "access" =>
          /\ 2 \in DOMAIN N[k].operandIds
          /\ N[k].operandIds[2] \in (IF N[k].global THEN U ELSE R)
    /\ \A k \in 1 .. Len(N) : N[k].global /\ ~ N[k].isVar =>
          \E i \in DOMAIN N[k].operandIds : N[N[k].operandIds[i] + 1].global

(* The size and the bounds of an array are nodes.                          *)
BoundsIn(N) ==
    \A k \in 1 .. Len(N) :
        /\ N[k].arrSizeMinusOneId \in 0 .. Len(N) - 1
        /\ \A i \in DOMAIN N[k].boundIds : N[k].boundIds[i] \in 0 .. Len(N) - 1

(* The fields that hold ids of the set I.                                  *)
FieldsIn(th, I) ==
    /\ th.vocabIds \in Seq(I) /\ th.generatedVocabIds \in Seq(I) /\ th.quantFreeVocIds \in Seq(I)
    /\ th.uvars \subseteq I /\ th.uterms \subseteq I /\ th.readIndexTerms \subseteq I
    /\ th.boundTerms \subseteq I
    /\ \A rule \in th.rulemap : rule[1] \in I \cup {NoId} /\ rule[2] \in I \cup {NoId}

SameFields(th, new) ==
    /\ new.vocabIds = th.vocabIds /\ new.generatedVocabIds = th.generatedVocabIds
    /\ new.quantFreeVocIds = th.quantFreeVocIds
    /\ new.uvars = th.uvars /\ new.uterms = th.uterms /\ new.readIndexTerms = th.readIndexTerms
    /\ new.boundTerms = th.boundTerms /\ new.rulemap = th.rulemap

Right(th) ==
    /\ IndexedIn(th.nodes, th.uterms, th.readIndexTerms)
    /\ BoundsIn(th.nodes)
    /\ FieldsIn(th, Ids(th))

LEMMA SeqWidens ==
    ASSUME NEW S, NEW T, S \subseteq T, NEW s \in Seq(S)
    PROVE  s \in Seq(T)
OBVIOUS

LEMMA FieldsWiden ==
    ASSUME NEW th, NEW new, SameFields(th, new), NEW I, NEW J, I \subseteq J, FieldsIn(th, I)
    PROVE  FieldsIn(new, J)
BY SeqWidens DEF FieldsIn, SameFields

(* One node more, its index term collected.                                *)
LEMMA IndexedByAppend ==
    ASSUME NEW N \in Seq(Node), AcyclicIn(N), NEW U, NEW R, IndexedIn(N, U, R),
           NEW W, NEW S, U \subseteq W, R \subseteq S,
           NEW n \in Node, n.isVar => n.type # "access",
           n.type = "access" => /\ 2 \in DOMAIN n.operandIds
                                /\ n.operandIds[2] \in (IF n.global THEN W ELSE S),
           n.global /\ ~ n.isVar => \E i \in DOMAIN n.operandIds :
                                       /\ n.operandIds[i] \in 0 .. Len(N) - 1
                                       /\ N[n.operandIds[i] + 1].global
    PROVE  IndexedIn(Append(N, n), W, S)
<1> DEFINE M == Append(N, n)
<1>0. Len(N) \in Nat
  OBVIOUS
<1>1. M \in Seq(Node) /\ Len(M) = Len(N) + 1 /\ M[Len(N) + 1] = n
      /\ \A k \in 1 .. Len(N) : M[k] = N[k]
  OBVIOUS
<1>2. \A k \in 1 .. Len(M) : k \in 1 .. Len(N) \/ (k \notin 1 .. Len(N) /\ M[k] = n)
  BY <1>0, <1>1
<1> HIDE DEF M
<1>3. ASSUME NEW k \in 1 .. Len(M), M[k].isVar
      PROVE  M[k].type # "access"
  BY <1>1, <1>2, <1>3 DEF IndexedIn
<1>4. ASSUME NEW k \in 1 .. Len(M), M[k].type = "access"
      PROVE  /\ 2 \in DOMAIN M[k].operandIds
             /\ M[k].operandIds[2] \in (IF M[k].global THEN W ELSE S)
  BY <1>1, <1>2, <1>4 DEF IndexedIn
<1>5. ASSUME NEW k \in 1 .. Len(M), M[k].global, ~ M[k].isVar
      PROVE  \E i \in DOMAIN M[k].operandIds : M[M[k].operandIds[i] + 1].global
  <2>1. CASE k \in 1 .. Len(N)
    <3>1. N[k].global /\ ~ N[k].isVar /\ M[k] = N[k]
      BY <1>1, <1>5, <2>1
    <3>2. PICK i \in DOMAIN N[k].operandIds : N[N[k].operandIds[i] + 1].global
      BY <2>1, <3>1 DEF IndexedIn
    <3>3. N[k].operandIds[i] \in 0 .. k - 2
      BY <2>1 DEF AcyclicIn
    <3>4. N[k].operandIds[i] + 1 \in 1 .. Len(N)
      BY <1>0, <2>1, <3>3
    <3> QED BY <1>1, <3>1, <3>2, <3>4
  <2>2. CASE M[k] = n
    <3>1. PICK i \in DOMAIN n.operandIds : n.operandIds[i] \in 0 .. Len(N) - 1
                                           /\ N[n.operandIds[i] + 1].global
      BY <1>5, <2>2
    <3>2. n.operandIds[i] + 1 \in 1 .. Len(N)
      BY <1>0, <3>1
    <3> QED BY <1>1, <2>2, <3>1, <3>2
  <2> QED BY <1>2, <2>1, <2>2
<1> QED BY <1>3, <1>4, <1>5 DEF IndexedIn, M

(* New flags: that of a variable may become universal.                     *)
LEMMA IndexedByFlags ==
    ASSUME NEW N \in Seq(Node), NEW M \in Seq(Node), Len(M) = Len(N), Grows(N, M),
           \A k \in 1 .. Len(N) : M[k].global = N[k].global \/ N[k].isVar,
           AcyclicIn(N), NEW U, NEW R, IndexedIn(N, U, R)
    PROVE  IndexedIn(M, U, R)
<1>1. \A k \in 1 .. Len(N) :
         /\ M[k].operandIds = N[k].operandIds /\ M[k].isVar = N[k].isVar
         /\ M[k].type = N[k].type /\ (N[k].global => M[k].global)
  BY SameNodeIs DEF Grows
<1>2. ASSUME NEW k \in 1 .. Len(N), N[k].global, ~ N[k].isVar
      PROVE  \E i \in DOMAIN N[k].operandIds : M[N[k].operandIds[i] + 1].global
  <2>1. PICK i \in DOMAIN N[k].operandIds : N[N[k].operandIds[i] + 1].global
    BY <1>2 DEF IndexedIn
  <2>2. N[k].operandIds[i] \in 0 .. k - 2
    BY DEF AcyclicIn
  <2>3. N[k].operandIds[i] + 1 \in 1 .. Len(N)
    BY <2>2
  <2> QED BY <1>1, <2>1, <2>3
<1>3. \A k \in 1 .. Len(N) : M[k].isVar => M[k].type # "access"
  BY <1>1 DEF IndexedIn
<1>4. ASSUME NEW k \in 1 .. Len(N), M[k].type = "access"
      PROVE  /\ 2 \in DOMAIN M[k].operandIds
             /\ M[k].operandIds[2] \in (IF M[k].global THEN U ELSE R)
  <2>1. N[k].type = "access" /\ M[k].operandIds = N[k].operandIds /\ ~ N[k].isVar
    BY <1>1, <1>4 DEF IndexedIn
  <2>2. M[k].global = N[k].global
    BY <2>1
  <2> QED BY <2>1, <2>2 DEF IndexedIn
<1>5. ASSUME NEW k \in 1 .. Len(N), M[k].global, ~ M[k].isVar
      PROVE  \E i \in DOMAIN M[k].operandIds : M[M[k].operandIds[i] + 1].global
  BY <1>1, <1>2, <1>5
<1> QED BY <1>3, <1>4, <1>5 DEF IndexedIn

(* A node that is no access, as it is made.                                *)
Fresh(th, n) ==
    /\ n.arrSizeMinusOneId = 0 /\ n.boundIds = <<>> /\ n.type # "access"
    /\ n.global /\ ~ n.isVar => \E i \in DOMAIN n.operandIds :
                                   n.operandIds[i] \in Ids(th) /\ getNode(th, n.operandIds[i]).global

LEMMA BoundsByAppend ==
    ASSUME NEW N \in Seq(Node), BoundsIn(N), NEW n \in Node,
           n.arrSizeMinusOneId = 0, n.boundIds = <<>>
    PROVE  BoundsIn(Append(N, n))
<1> DEFINE M == Append(N, n)
<1>0. Len(N) \in Nat
  OBVIOUS
<1>1. M \in Seq(Node) /\ Len(M) = Len(N) + 1 /\ M[Len(N) + 1] = n
      /\ \A k \in 1 .. Len(N) : M[k] = N[k]
  OBVIOUS
<1>2. \A k \in 1 .. Len(M) : k \in 1 .. Len(N) \/ M[k] = n
  BY <1>0, <1>1
<1>3. \A x \in 0 .. Len(N) - 1 : x \in 0 .. Len(M) - 1
  BY <1>0, <1>1
<1>4. 0 \in 0 .. Len(M) - 1 /\ DOMAIN n.boundIds = {}
  BY <1>0, <1>1
<1> HIDE DEF M
<1> QED BY <1>1, <1>2, <1>3, <1>4 DEF BoundsIn, M

LEMMA RightByAppend ==
    ASSUME NEW th, Good(th), Right(th), NEW n \in Node, Fresh(th, n),
           NEW new, new.nodes = Append(th.nodes, n), SameFields(th, new)
    PROVE  Right(new)
<1> DEFINE N == th.nodes
<1>1. N \in Seq(Node) /\ Len(N) \in Nat /\ AcyclicIn(N)
  BY NodesOf DEF Good, Sound
<1>2. IndexedIn(N, th.uterms, th.readIndexTerms) /\ BoundsIn(N) /\ FieldsIn(th, Ids(th))
  BY DEF Right
<1>3. n.global /\ ~ n.isVar => \E i \in DOMAIN n.operandIds :
         n.operandIds[i] \in 0 .. Len(N) - 1 /\ N[n.operandIds[i] + 1].global
  BY DEF Fresh, Ids, getNode
<1>4. IndexedIn(Append(N, n), th.uterms, th.readIndexTerms)
  BY <1>1, <1>2, <1>3, IndexedByAppend DEF Fresh
<1>5. BoundsIn(Append(N, n))
  BY <1>1, <1>2, BoundsByAppend DEF Fresh
<1>6. Ids(th) \subseteq Ids(new)
  <2>1. Len(new.nodes) = Len(N) + 1
    BY <1>1
  <2> QED BY <1>1, <2>1 DEF Ids
<1>7. FieldsIn(new, Ids(new))
  BY <1>2, <1>6, FieldsWiden
<1> QED BY <1>4, <1>5, <1>7 DEF Right, SameFields

(* New flags, a new size or a new bound of one node.                       *)
LEMMA RightByFlag ==
    ASSUME NEW th, Good(th), Right(th), NEW id \in Ids(th), NEW m \in Node,
           SameNode(getNode(th, id), m),
           m.global = getNode(th, id).global \/ getNode(th, id).isVar,
           m.arrSizeMinusOneId \in Ids(th),
           \A i \in DOMAIN m.boundIds : m.boundIds[i] \in Ids(th),
           NEW new, new = [th EXCEPT !.nodes[id + 1] = m]
    PROVE  Right(new)
<1> DEFINE N == th.nodes
           M == [N EXCEPT ![id + 1] = m]
<1>1. IsTheory(th) /\ N \in Seq(Node) /\ Len(N) \in Nat /\ id + 1 \in 1 .. Len(N) /\ AcyclicIn(N)
  BY DEF Good, IsTheory, Ids, Sound
<1>2. M \in Seq(Node) /\ Len(M) = Len(N)
      /\ \A k \in 1 .. Len(N) : M[k] = IF k = id + 1 THEN m ELSE N[k]
  BY <1>1
<1>3. \A k \in 1 .. Len(N) : SameNode(N[k], M[k]) /\ (M[k].global = N[k].global \/ N[k].isVar)
  BY <1>1, <1>2, SameNodeIs DEF getNode
<1>4. new = [th EXCEPT !.nodes = M]
  BY <1>1 DEF IsTheory
<1> HIDE DEF M
<1>5. new.nodes = M /\ SameFields(th, new)
  BY <1>1, <1>4 DEF IsTheory, SameFields
<1>6. Grows(N, M)
  BY <1>2, <1>3 DEF Grows
<1>7. IndexedIn(M, th.uterms, th.readIndexTerms)
  BY <1>1, <1>2, <1>3, <1>6, IndexedByFlags DEF Right
<1>8. BoundsIn(M)
  BY <1>1, <1>2 DEF Right, BoundsIn, Ids
<1>9. Ids(new) = Ids(th)
  BY <1>2, <1>5 DEF Ids
<1> QED BY <1>5, <1>7, <1>8, <1>9, FieldsWiden DEF Right, SameFields

LEMMA RightByFields ==
    ASSUME NEW th, Good(th), Right(th), NEW new, new.nodes = th.nodes,
           FieldsIn(new, Ids(th)), new.uterms = th.uterms, new.readIndexTerms = th.readIndexTerms
    PROVE  Right(new)
BY DEF Right, Ids

-----------------------------------------------------------------------------
(* What the handlers do to them                                            *)

LEMMA VocabNodeIsFresh ==
    ASSUME NEW op \in NodeOps, NEW type \in NodeTypes
    PROVE  LET v == VocabNode(op, type)
           IN  v.arrSizeMinusOneId = 0 /\ v.boundIds = <<>> /\ v.type = type /\ ~ v.global /\ ~ v.element
BY DEF VocabNode

LEMMA TrueRight ==
    ASSUME NEW th, Good(th), Right(th)
    PROVE  Right(handleTrue(th).th) /\ Right(handleFalse(th).th)
<1>1. ASSUME NEW op \in NodeOps
      PROVE  LET n == [VocabNode(op, "bliteral") EXCEPT !.const = TRUE, !.value = 1]
                 mid == makeNode(th, n)
             IN  /\ Right([mid EXCEPT !.trueId = NextId(th)])
                 /\ Right([mid EXCEPT !.falseId = NextId(th)])
  <2> DEFINE v == VocabNode(op, "bliteral")
             n == [v EXCEPT !.const = TRUE, !.value = 1]
             mid == makeNode(th, n)
             id == NextId(th)
             one == [mid EXCEPT !.trueId = id]
             other == [mid EXCEPT !.falseId = id]
  <2>1. v \in Node /\ v.arrSizeMinusOneId = 0 /\ v.boundIds = <<>> /\ v.type = "bliteral" /\ ~ v.global
    BY VocabNodeIsNode, VocabNodeIsFresh, NodeWords
  <2> HIDE DEF v
  <2>2. n \in Node /\ Fresh(th, n)
    <3>1. 1 \in Int
      BY 1 \in 0 .. 1
    <3>2. n \in Node /\ n.arrSizeMinusOneId = 0 /\ n.boundIds = <<>> /\ n.type = "bliteral" /\ ~ n.global
      BY <2>1, <3>1 DEF Node
    <3> QED BY <3>2 DEF Fresh
  <2> HIDE DEF n
  <2>3. IsTheory(th)
    BY DEF Good
  <2>4. mid.nodes = Append(th.nodes, n) /\ SameFields(th, mid) /\ IsTheory(mid)
    <3>1. Append(th.nodes, n) \in Seq(Node)
      BY <2>2, <2>3 DEF IsTheory
    <3> QED BY <2>3, <3>1 DEF makeNode, IsTheory, SameFields
  <2> HIDE DEF mid, id
  <2>5. /\ one.nodes = Append(th.nodes, n) /\ SameFields(th, one)
        /\ other.nodes = Append(th.nodes, n) /\ SameFields(th, other)
    BY <2>4 DEF IsTheory, SameFields
  <2> HIDE DEF one, other
  <2>6. Right(one) /\ Right(other)
    BY <2>2, <2>5, RightByAppend
  <2> QED BY <2>6 DEF one, other, mid, id, n, v
<1> QED BY <1>1, NodeWords DEF handleTrue, handleFalse

(* A node made of terms is universal because one of them is.               *)
LEMMA RightByComposed ==
    ASSUME NEW th, Good(th), Right(th), NEW n \in Node, ~ n.isVar,
           n.arrSizeMinusOneId = 0, n.boundIds = <<>>, n.type # "access",
           NEW ids, ids \subseteq Ids(th),
           \A x \in ids : \E i \in DOMAIN n.operandIds : n.operandIds[i] = x
    PROVE  Right(makeNode(th, propagateIsGlobal(th, n, ids)))
<1> DEFINE g == \E id \in ids : getNode(th, id).global
           m == [n EXCEPT !.global = g]
           new == makeNode(th, m)
<1>1. g \in BOOLEAN
  OBVIOUS
<1>2. g => \E i \in DOMAIN n.operandIds : n.operandIds[i] \in Ids(th) /\ getNode(th, n.operandIds[i]).global
  OBVIOUS
<1>3. propagateIsGlobal(th, n, ids) = m
  BY DEF propagateIsGlobal
<1> HIDE DEF g
<1>4. m \in Node /\ m.arrSizeMinusOneId = 0 /\ m.boundIds = <<>> /\ m.type # "access"
      /\ m.global = g /\ m.operandIds = n.operandIds
  BY <1>1 DEF Node
<1> HIDE DEF m
<1>5. Fresh(th, m)
  BY <1>2, <1>4 DEF Fresh
<1>6. new.nodes = Append(th.nodes, m) /\ SameFields(th, new)
  <2>1. IsTheory(th) /\ Append(th.nodes, m) \in Seq(Node)
    BY <1>4 DEF Good, IsTheory
  <2> QED BY <2>1 DEF makeNode, IsTheory, SameFields
<1> HIDE DEF new
<1>7. Right(new)
  BY <1>4, <1>5, <1>6, RightByAppend
<1> QED BY <1>3, <1>7 DEF new

(* The table of a node nothing is known of but its id.                     *)
LEMMA RangesOf ==
    ASSUME NEW th, Good(th), Right(th), NEW id \in Ids(th)
    PROVE  LET n == getNode(th, id)
           IN  /\ n \in Node /\ n.arrSizeMinusOneId \in Ids(th)
               /\ \A i \in DOMAIN n.boundIds : n.boundIds[i] \in Ids(th)
<1>1. id + 1 \in 1 .. Len(th.nodes) /\ th.nodes \in Seq(Node)
  BY NodesOf DEF Ids
<1> QED BY <1>1 DEF Right, BoundsIn, getNode, Ids

LEMMA FlagRight ==
    ASSUME NEW th, Good(th), Right(th), NEW id \in Ids(th)
    PROVE  /\ Right(setElement(th, id))
           /\ getNode(th, id).isVar => Right([th EXCEPT !.nodes[id + 1].global = TRUE])
           /\ Right([th EXCEPT !.nodes[id + 1].local = TRUE])
<1> DEFINE n == getNode(th, id)
<1>1. n \in Node /\ n = th.nodes[id + 1] /\ IsTheory(th)
      /\ n.arrSizeMinusOneId \in Ids(th)
      /\ \A i \in DOMAIN n.boundIds : n.boundIds[i] \in Ids(th)
  BY RangesOf DEF getNode, Good
<1>2. ASSUME NEW m \in Node, SameNode(n, m), m.global = n.global \/ n.isVar,
             m.arrSizeMinusOneId = n.arrSizeMinusOneId, m.boundIds = n.boundIds
      PROVE  Right([th EXCEPT !.nodes[id + 1] = m])
  <2> DEFINE new == [th EXCEPT !.nodes[id + 1] = m]
  <2>1. new = [th EXCEPT !.nodes[id + 1] = m]
    OBVIOUS
  <2> HIDE DEF new
  <2>2. Right(new)
    BY <1>1, <1>2, <2>1, RightByFlag
  <2> QED BY <2>2 DEF new
<1>3. ASSUME NEW x \in Node
      PROVE  /\ LET m == [x EXCEPT !.element = TRUE]
                IN  /\ m \in Node /\ SameNode(x, m) /\ m.global = x.global
                    /\ m.arrSizeMinusOneId = x.arrSizeMinusOneId /\ m.boundIds = x.boundIds
             /\ LET m == [x EXCEPT !.global = TRUE]
                IN  /\ m \in Node /\ SameNode(x, m)
                    /\ m.arrSizeMinusOneId = x.arrSizeMinusOneId /\ m.boundIds = x.boundIds
             /\ LET m == [x EXCEPT !.local = TRUE]
                IN  /\ m \in Node /\ SameNode(x, m) /\ m.global = x.global
                    /\ m.arrSizeMinusOneId = x.arrSizeMinusOneId /\ m.boundIds = x.boundIds
  <2>1. LET m == [x EXCEPT !.element = TRUE]
        IN  /\ m \in Node /\ SameNode(x, m) /\ m.global = x.global
            /\ m.arrSizeMinusOneId = x.arrSizeMinusOneId /\ m.boundIds = x.boundIds
    BY DEF Node, SameNode
  <2>2. LET m == [x EXCEPT !.global = TRUE]
        IN  /\ m \in Node /\ SameNode(x, m)
            /\ m.arrSizeMinusOneId = x.arrSizeMinusOneId /\ m.boundIds = x.boundIds
    BY DEF Node, SameNode
  <2>3. LET m == [x EXCEPT !.local = TRUE]
        IN  /\ m \in Node /\ SameNode(x, m) /\ m.global = x.global
            /\ m.arrSizeMinusOneId = x.arrSizeMinusOneId /\ m.boundIds = x.boundIds
    BY DEF Node, SameNode
  <2> QED BY <2>1, <2>2, <2>3
<1>4. /\ setElement(th, id) = [th EXCEPT !.nodes[id + 1] = [n EXCEPT !.element = TRUE]]
      /\ [th EXCEPT !.nodes[id + 1].global = TRUE]
            = [th EXCEPT !.nodes[id + 1] = [n EXCEPT !.global = TRUE]]
      /\ [th EXCEPT !.nodes[id + 1].local = TRUE]
            = [th EXCEPT !.nodes[id + 1] = [n EXCEPT !.local = TRUE]]
  BY <1>1 DEF setElement, IsTheory
<1> HIDE DEF n
<1>5. /\ Right([th EXCEPT !.nodes[id + 1] = [n EXCEPT !.element = TRUE]])
      /\ Right([th EXCEPT !.nodes[id + 1] = [n EXCEPT !.local = TRUE]])
  BY <1>1, <1>2, <1>3
<1>6. n.isVar => Right([th EXCEPT !.nodes[id + 1] = [n EXCEPT !.global = TRUE]])
  BY <1>1, <1>2, <1>3
<1> QED BY <1>4, <1>5, <1>6 DEF n

LEMMA PairHolds ==
    ASSUME NEW t1, NEW t2, NEW s, s = <<t1, t2>> \/ s = <<t2, t1>>
    PROVE  \A x \in {t1, t2} : \E i \in DOMAIN s : s[i] = x
<1>1. \A y, z : /\ 1 \in DOMAIN <<y, z>> /\ <<y, z>>[1] = y
                /\ 2 \in DOMAIN <<y, z>> /\ <<y, z>>[2] = z
  OBVIOUS
<1> QED BY <1>1

LEMMA RelationalRight ==
    ASSUME NEW th, Good(th), Right(th), NEW op \in NodeOps, NEW t1 \in Ids(th), NEW t2 \in Ids(th)
    PROVE  Right(handleTermRelationalTerm(th, op, t1, t2).th)
<1> DEFINE node == VocabNode(op, "binary-relational")
           full == [node EXCEPT !.operandIds = Ordered(op = "=", t1, t2)]
           mid == makeNode(th, propagateIsGlobal(th, full, {t1, t2}))
<1>0. t1 \in Nat /\ t2 \in Nat /\ "binary-relational" \in NodeTypes
  BY NodesOf, NodeWords
<1>1. node \in Node /\ ~ node.isVar /\ node.operandIds = <<>>
      /\ node.arrSizeMinusOneId = 0 /\ node.boundIds = <<>> /\ node.type = "binary-relational"
      /\ ~ node.global
  BY <1>0, VocabNodeIsNode, VocabNodeIsFresh
<1>2. full \in Node /\ ~ full.isVar /\ \A i \in DOMAIN full.operandIds : full.operandIds[i] \in {t1, t2}
  BY <1>0, BinaryNode
<1> HIDE DEF node
<1>3. CASE op \in {"=", "<="} /\ t1 = t2
  <2> DEFINE left == makeNode(th, node)
  <2>1. Good(left)
    BY <1>1, ExtendsByNode DEF Extends
  <2>2. Fresh(th, node)
    BY <1>1 DEF Fresh
  <2>3. left.nodes = Append(th.nodes, node) /\ SameFields(th, left)
    <3>1. IsTheory(th) /\ Append(th.nodes, node) \in Seq(Node)
      BY <1>1 DEF Good, IsTheory
    <3> QED BY <3>1 DEF makeNode, IsTheory, SameFields
  <2> HIDE DEF left
  <2>4. Right(left)
    BY <1>1, <2>2, <2>3, RightByAppend
  <2>5. Right(handleTrue(left).th)
    BY <2>1, <2>4, TrueRight
  <2> QED BY <1>3, <2>5 DEF handleTermRelationalTerm, node, left
<1>4. CASE ~ (op \in {"=", "<="} /\ t1 = t2)
  <2>1. full.arrSizeMinusOneId = 0 /\ full.boundIds = <<>> /\ full.type # "access"
        /\ full.operandIds = Ordered(op = "=", t1, t2)
    <3> DEFINE s == Ordered(op = "=", t1, t2)
    <3> HIDE DEF s
    <3> QED BY <1>1 DEF Node
  <2>2. \A x \in {t1, t2} : \E i \in DOMAIN Ordered(op = "=", t1, t2) : Ordered(op = "=", t1, t2)[i] = x
    <3> DEFINE s == Ordered(op = "=", t1, t2)
    <3>1. s = <<t1, t2>> \/ s = <<t2, t1>>
      BY DEF Ordered
    <3> HIDE DEF s
    <3>2. \A x \in {t1, t2} : \E i \in DOMAIN s : s[i] = x
      BY <3>1, PairHolds
    <3> QED BY <3>2 DEF s
  <2>3. Good(mid)
    BY <1>2, YieldsNode
  <2>4. Yields(th, [th |-> mid, id |-> NextId(th)])
    BY <1>2, YieldsNode
  <2> HIDE DEF full
  <2>5. Right(mid)
    BY <1>2, <2>1, <2>2, RightByComposed
  <2> HIDE DEF mid
  <2>6. t1 \in Ids(mid) /\ t2 \in Ids(mid)
    BY <2>4, IdsKept DEF Yields
  <2>7. Right(ShareElement(mid, t1, t2))
    BY <2>3, <2>5, <2>6, FlagRight DEF ShareElement
  <2> QED BY <1>4, <2>7 DEF handleTermRelationalTerm, mid, full, node
<1> QED BY <1>3, <1>4

LEMMA ArithRight ==
    ASSUME NEW th, Good(th), Right(th), NEW op \in NodeOps, NEW t1 \in Ids(th), NEW t2 \in Ids(th)
    PROVE  Right(handleTermArithTerm(th, op, t1, t2).th)
<1>0. t1 \in Nat /\ t2 \in Nat /\ getNode(th, t1) \in Node /\ getNode(th, t2) \in Node
  BY NodesOf
<1>1. \A m \in Node : m.leftVars \in Seq(Nat) /\ m.rightVars \in Seq(Nat)
  BY DEF Node
<1> DEFINE v == VocabNode(op, "binary-arithmetic")
           s == Ordered(op \in {"+", "*"}, t1, t2)
           l == getNode(th, t1).leftVars
           r == getNode(th, t2).rightVars
           n == [v EXCEPT !.operandIds = s, !.leftVars = l, !.rightVars = r]
<1>2. v \in Node /\ ~ v.isVar /\ v.arrSizeMinusOneId = 0 /\ v.boundIds = <<>>
      /\ v.type = "binary-arithmetic"
  BY VocabNodeIsNode, VocabNodeIsFresh, NodeWords
<1>3. s \in Seq(Nat) /\ l \in Seq(Nat) /\ r \in Seq(Nat)
  BY <1>0, <1>1 DEF Ordered
<1>4. \A x \in {t1, t2} : \E i \in DOMAIN s : s[i] = x
  <2>1. s = <<t1, t2>> \/ s = <<t2, t1>>
    BY DEF Ordered
  <2> HIDE DEF s
  <2> QED BY <2>1, PairHolds
<1> HIDE DEF v, s, l, r
<1>5. n \in Node /\ ~ n.isVar /\ n.operandIds = s /\ n.arrSizeMinusOneId = 0 /\ n.boundIds = <<>>
      /\ n.type = "binary-arithmetic"
  BY <1>2, <1>3 DEF Node
<1> HIDE DEF n
<1>6. n.type # "access"
  BY <1>5
<1>7. Right(makeNode(th, propagateIsGlobal(th, n, {t1, t2})))
  BY <1>4, <1>5, <1>6, RightByComposed
<1> QED BY <1>7 DEF handleTermArithTerm, n, v, s, l, r

(* A node with the given operands only.                                    *)
LEMMA OperandsRight ==
    ASSUME NEW th, Good(th), Right(th), NEW op \in NodeOps, NEW type \in NodeTypes, type # "access",
           NEW s \in Seq(Nat), NEW ids, ids \subseteq Ids(th), \A x \in ids : \E i \in DOMAIN s : s[i] = x
    PROVE  LET n == [VocabNode(op, type) EXCEPT !.operandIds = s]
           IN  /\ Right(makeNode(th, propagateIsGlobal(th, n, ids)))
               /\ Right(makeNode(th, n))
<1> DEFINE v == VocabNode(op, type)
           n == [v EXCEPT !.operandIds = s]
<1>1. v \in Node /\ ~ v.isVar /\ v.arrSizeMinusOneId = 0 /\ v.boundIds = <<>> /\ v.type = type
      /\ ~ v.global
  BY VocabNodeIsNode, VocabNodeIsFresh
<1> HIDE DEF v
<1>2. n \in Node /\ ~ n.isVar /\ n.operandIds = s /\ n.arrSizeMinusOneId = 0 /\ n.boundIds = <<>>
      /\ n.type = type /\ ~ n.global
  BY <1>1 DEF Node
<1> HIDE DEF n
<1>3. Right(makeNode(th, propagateIsGlobal(th, n, ids)))
  BY <1>2, RightByComposed
<1>4. Right(makeNode(th, n))
  <2> DEFINE new == makeNode(th, n)
  <2>1. Fresh(th, n)
    BY <1>2 DEF Fresh
  <2>2. new.nodes = Append(th.nodes, n) /\ SameFields(th, new)
    <3>1. IsTheory(th) /\ Append(th.nodes, n) \in Seq(Node)
      BY <1>2 DEF Good, IsTheory
    <3> QED BY <3>1 DEF makeNode, IsTheory, SameFields
  <2> HIDE DEF new
  <2>3. Right(new)
    BY <1>2, <2>1, <2>2, RightByAppend
  <2> QED BY <2>3 DEF new
<1> QED BY <1>3, <1>4 DEF n, v

LEMMA BooleanRight ==
    ASSUME NEW th, Good(th), Right(th), NEW op \in NodeOps, NEW t1 \in Ids(th), NEW t2 \in Ids(th)
    PROVE  /\ Right(handleBEBoolBE(th, op, t1, t2).th)
           /\ Right(handleNot(th, t1).th)
           /\ Right(handleUnaryMinus(th, t1).th)
<1>0. t1 \in Nat /\ t2 \in Nat
  BY NodesOf
<1>1. /\ <<t1, t2>> \in Seq(Nat) /\ <<t1>> \in Seq(Nat)
      /\ \A x \in {t1, t2} : \E i \in DOMAIN <<t1, t2>> : <<t1, t2>>[i] = x
      /\ \A x \in {t1} : \E i \in DOMAIN <<t1>> : <<t1>>[i] = x
  <2>1. /\ 1 \in DOMAIN <<t1, t2>> /\ <<t1, t2>>[1] = t1
        /\ 2 \in DOMAIN <<t1, t2>> /\ <<t1, t2>>[2] = t2
        /\ 1 \in DOMAIN <<t1>> /\ <<t1>>[1] = t1
    OBVIOUS
  <2>2. <<t1, t2>> \in Seq(Nat) /\ <<t1>> \in Seq(Nat)
    BY <1>0
  <2> QED BY <2>1, <2>2
<1>2. Right(handleBEBoolBE(th, op, t1, t2).th)
  <2>1. "binary-boolean" \in NodeTypes /\ "binary-boolean" # "access"
    BY NodeWords
  <2> QED BY <1>1, <2>1, OperandsRight DEF handleBEBoolBE
<1>3. Right(handleNot(th, t1).th)
  <2>1. "not" \in NodeOps /\ "unary-boolean" \in NodeTypes /\ "unary-boolean" # "access"
    BY NodeWords
  <2> QED BY <1>1, <2>1, OperandsRight DEF handleNot
<1>4. Right(handleUnaryMinus(th, t1).th)
  <2>1. "-" \in NodeOps /\ "unary-arithmetic" \in NodeTypes /\ "unary-arithmetic" # "access"
    BY NodeWords
  <2> QED BY <1>1, <2>1, OperandsRight DEF handleUnaryMinus
<1> QED BY <1>2, <1>3, <1>4

(* What is bound is a variable.                                            *)
LEMMA QuantifierRight ==
    ASSUME NEW th, Good(th), Right(th), NEW v \in Ids(th), getNode(th, v).isVar, NEW be \in Ids(th)
    PROVE  Right(handleForall(th, v, be).th) /\ Right(handleExists(th, v, be).th)
<1>0. v \in Nat /\ be \in Nat /\ {"forall", "exists"} \subseteq NodeOps /\ "quantifier" \in NodeTypes
      /\ "quantifier" # "access" /\ <<v, be>> \in Seq(Nat)
  <2>1. v \in Nat /\ be \in Nat
    BY NodesOf
  <2>2. <<v, be>> \in Seq(Nat)
    BY <2>1
  <2>3. "quantifier" # "access"
    OBVIOUS
  <2> QED BY <2>1, <2>2, <2>3, NodeWords
<1>1. ASSUME NEW op \in NodeOps
      PROVE  LET mid == makeNode(th, [VocabNode(op, "quantifier") EXCEPT !.operandIds = <<v, be>>])
             IN  /\ Right([mid EXCEPT !.nodes[v + 1].global = TRUE])
                 /\ Right([mid EXCEPT !.nodes[v + 1].local = TRUE])
  <2> DEFINE n == [VocabNode(op, "quantifier") EXCEPT !.operandIds = <<v, be>>]
             mid == makeNode(th, n)
  <2>1. n \in Node /\ ~ n.isVar /\ \A i \in DOMAIN n.operandIds : n.operandIds[i] \in {v, be}
    BY <1>0, PairNode
  <2>2. Right(mid)
    <3> DEFINE s == <<v, be>>
               none == {}
    <3>1. none \subseteq Ids(th) /\ (\A x \in none : \E i \in DOMAIN s : s[i] = x) /\ s \in Seq(Nat)
      BY <1>0
    <3> HIDE DEF s, none
    <3>2. Right(makeNode(th, [VocabNode(op, "quantifier") EXCEPT !.operandIds = s]))
      BY <1>0, <3>1, OperandsRight
    <3> QED BY <3>2 DEF s
  <2> HIDE DEF n
  <2>3. Extends(th, mid) /\ mid.nodes = Append(th.nodes, n)
    BY <2>1, ExtendsByNode
  <2> HIDE DEF mid
  <2>4. Good(mid) /\ v \in Ids(mid)
    BY <2>3, IdsKept DEF Extends
  <2>5. getNode(mid, v).isVar
    <3>1. v + 1 \in 1 .. Len(th.nodes) /\ th.nodes \in Seq(Node)
      BY NodesOf DEF Ids
    <3>2. mid.nodes[v + 1] = th.nodes[v + 1]
      BY <2>1, <2>3, <3>1
    <3> QED BY <3>2 DEF getNode
  <2>6. /\ Right([mid EXCEPT !.nodes[v + 1].global = TRUE])
        /\ Right([mid EXCEPT !.nodes[v + 1].local = TRUE])
    BY <2>2, <2>4, <2>5, FlagRight
  <2> QED BY <2>6 DEF mid, n
<1> QED BY <1>0, <1>1 DEF handleForall, handleExists

(* The universal variables met below a node are nodes: getUVars ends,      *)
(* because the table is acyclic, and stays within it.                      *)
LEMMA UVarsAreIds ==
    ASSUME NEW th, Good(th), NEW id \in Ids(th)
    PROVE  getUVars(th, id) \in Seq(Ids(th))
<1> DEFINE I == Ids(th)
           node(i) == getNode(th, i)
           part(f, i, p) == IF Len(node(i).operandIds) >= p THEN f[node(i).operandIds[p]] ELSE <<>>
           rhs(f, i) == IF ~ node(i).global THEN <<>>
                        ELSE IF node(i).isVar THEN <<i>>
                        ELSE part(f, i, 1) \o part(f, i, 2)
           Eq(f) == f = [i \in I |-> rhs(f, i)]
           Below(n, f) == \A i \in I : i < n => f[i] = rhs(f, i)
           T == {n \in Nat : \E f \in [I -> Seq(I)] : Below(n, f)}
<1>1. I \subseteq Nat /\ Len(th.nodes) \in Nat /\ I = 0 .. Len(th.nodes) - 1
  BY NodesOf DEF Ids
<1>2. ASSUME NEW i \in I, NEW p \in {1, 2}, Len(node(i).operandIds) >= p
      PROVE  node(i).operandIds[p] \in I /\ node(i).operandIds[p] < i
  <2>1. i + 1 \in 1 .. Len(th.nodes) /\ (i + 1) - 2 = i - 1
        /\ th.nodes[i + 1] \in Node /\ AcyclicIn(th.nodes)
    BY <1>1, NodesOf DEF Good, Sound
  <2>2. p \in DOMAIN th.nodes[i + 1].operandIds
    <3>1. th.nodes[i + 1].operandIds \in Seq(Nat)
      BY <2>1 DEF Node
    <3> QED BY <1>2, <3>1 DEF getNode
  <2>3. th.nodes[i + 1].operandIds[p] \in 0 .. i - 1
    BY <2>1, <2>2 DEF AcyclicIn
  <2> QED BY <1>1, <2>3 DEF getNode
<1> HIDE DEF node, I
<1>3. ASSUME NEW f \in [I -> Seq(I)], NEW i \in I, NEW p \in {1, 2}
      PROVE  part(f, i, p) \in Seq(I)
  BY <1>2
<1>4. ASSUME NEW f, NEW g, NEW i \in I, NEW p \in {1, 2},
             \A w \in I : w < i => f[w] = g[w]
      PROVE  part(f, i, p) = part(g, i, p)
  BY <1>2, <1>4
<1> HIDE DEF part
<1>5. ASSUME NEW f \in [I -> Seq(I)], NEW i \in I
      PROVE  rhs(f, i) \in Seq(I)
  <2>1. part(f, i, 1) \in Seq(I) /\ part(f, i, 2) \in Seq(I)
    BY <1>3
  <2> QED BY <2>1
<1>6. ASSUME NEW f, NEW g, NEW i \in I,
             \A w \in I : w < i => f[w] = g[w]
      PROVE  rhs(f, i) = rhs(g, i)
  <2>1. part(f, i, 1) = part(g, i, 1) /\ part(f, i, 2) = part(g, i, 2)
    BY <1>4, <1>6
  <2> QED BY <2>1
<1> HIDE DEF rhs
<1>7. 0 \in T
  <2> DEFINE f == [i \in I |-> <<>>]
  <2>1. f \in [I -> Seq(I)]
    OBVIOUS
  <2>2. Below(0, f)
    BY <1>1
  <2> QED BY <2>1, <2>2
<1>8. ASSUME NEW n \in Nat, n \in T
      PROVE  n + 1 \in T
  <2>1. PICK f \in [I -> Seq(I)] : Below(n, f)
    BY <1>8
  <2> DEFINE g == [i \in I |-> IF i = n THEN rhs(f, n) ELSE f[i]]
  <2>2. g \in [I -> Seq(I)]
    BY <1>5
  <2>3. \A w \in I : w # n => g[w] = f[w]
    OBVIOUS
  <2>4. n \in I => g[n] = rhs(f, n)
    OBVIOUS
  <2> HIDE DEF g
  <2>5. ASSUME NEW i \in I, i < n + 1
        PROVE  g[i] = rhs(g, i)
    <3>1. \A w \in I : w < i => f[w] = g[w]
      BY <1>1, <2>3, <2>5
    <3>2. rhs(f, i) = rhs(g, i)
      BY <1>6, <2>2, <3>1
    <3>3. CASE i = n
      BY <2>4, <3>2, <3>3
    <3>4. CASE i # n
      <4>1. i < n
        BY <1>1, <2>5, <3>4
      <4> QED BY <2>1, <2>3, <3>2, <3>4, <4>1
    <3> QED BY <3>3, <3>4
  <2> QED BY <2>2, <2>5
<1> HIDE DEF T
<1>9. Len(th.nodes) \in T
  BY <1>1, <1>7, <1>8, Induction
<1>10. PICK f \in [I -> Seq(I)] : Below(Len(th.nodes), f)
  BY <1>9 DEF T
<1>11. Eq(f)
  <2>1. \A i \in I : f[i] = rhs(f, i)
    BY <1>1, <1>10 DEF I, Ids
  <2> QED BY <2>1
<1>12. getUVars(th, id) = (CHOOSE g : Eq(g))[id]
  BY DEF getUVars, rhs, part, node, I
<1> DEFINE g == CHOOSE h : Eq(h)
<1>13. Eq(g)
  <2> HIDE DEF Eq
  <2> QED BY <1>11
<1> HIDE DEF g
<1>14. \A i \in I : g[i] = rhs(g, i) /\ f[i] = rhs(f, i)
  BY <1>11, <1>13
<1> DEFINE S == {n \in Nat : \A i \in I : i < n => g[i] = f[i]}
<1>15. 0 \in S
  BY <1>1
<1>16. ASSUME NEW n \in Nat, n \in S
       PROVE  n + 1 \in S
  <2>1. ASSUME NEW i \in I, i < n + 1
        PROVE  g[i] = f[i]
    <3>1. \A w \in I : w < i => g[w] = f[w]
      BY <1>1, <1>16, <2>1
    <3>2. rhs(g, i) = rhs(f, i)
      BY <1>6, <3>1
    <3> QED BY <1>14, <3>2
  <2> QED BY <2>1
<1> HIDE DEF S
<1>17. id + 1 \in S /\ id \in I
  BY <1>1, <1>15, <1>16, Induction DEF I
<1>18. g[id] = f[id]
  BY <1>1, <1>17 DEF S
<1> QED BY <1>12, <1>17, <1>18 DEF g, I

(* The index goes to the side its own flag says, with the access.          *)
LEMMA AccessRight ==
    ASSUME NEW th, Good(th), Right(th), NEW a \in Ids(th), NEW t \in Ids(th)
    PROVE  Right(handleArrayAccess(th, a, t).th)
<1> DEFINE v == VocabNode("[]", "access")
           n == [v EXCEPT !.element = TRUE, !.operandIds = <<a, t>>,
                          !.leftVars = <<a>>, !.rightVars = <<a>>]
           g == \E id \in {t} : getNode(th, id).global
           m == [n EXCEPT !.global = g]
           mid == makeNode(th, m)
           uvars == getUVars(th, t)
           set == {uvars[i] : i \in DOMAIN uvars}
           new == IF getNode(th, t).global
                  THEN [mid EXCEPT !.uterms = @ \cup {t}, !.uvars = @ \cup set]
                  ELSE [mid EXCEPT !.readIndexTerms = @ \cup {t}]
           W == IF g THEN th.uterms \cup {t} ELSE th.uterms
           S == IF g THEN th.readIndexTerms ELSE th.readIndexTerms \cup {t}
           N == th.nodes
<1>0. a \in Nat /\ t \in Nat /\ "[]" \in NodeOps /\ "access" \in NodeTypes
  BY NodesOf, NodeWords
<1>1. handleArrayAccess(th, a, t).th = new
  BY DEF handleArrayAccess, propagateIsGlobal
<1>2. v \in Node /\ ~ v.isVar /\ v.arrSizeMinusOneId = 0 /\ v.boundIds = <<>> /\ v.type = "access"
  BY <1>0, VocabNodeIsNode, VocabNodeIsFresh
<1>3. <<a, t>> \in Seq(Nat) /\ <<a>> \in Seq(Nat)
  BY <1>0
<1> HIDE DEF v
<1>4. n \in Node /\ ~ n.isVar /\ n.operandIds = <<a, t>> /\ n.arrSizeMinusOneId = 0
      /\ n.boundIds = <<>> /\ n.type = "access"
  BY <1>2, <1>3 DEF Node
<1> HIDE DEF n
<1>5. g \in BOOLEAN /\ g = getNode(th, t).global
  <2>1. getNode(th, t) \in Node
    BY NodesOf
  <2>2. getNode(th, t).global \in BOOLEAN
    BY <2>1 DEF Node
  <2> QED BY <2>2
<1> HIDE DEF g
<1>6. m \in Node /\ ~ m.isVar /\ m.operandIds = <<a, t>> /\ m.arrSizeMinusOneId = 0
      /\ m.boundIds = <<>> /\ m.type = "access" /\ m.global = g
  BY <1>4, <1>5 DEF Node
<1> HIDE DEF m
<1>7. /\ N \in Seq(Node) /\ AcyclicIn(N) /\ Len(N) \in Nat /\ IsTheory(th)
      /\ IndexedIn(N, th.uterms, th.readIndexTerms) /\ BoundsIn(N) /\ FieldsIn(th, Ids(th))
      /\ Append(N, m) \in Seq(Node) /\ Len(Append(N, m)) = Len(N) + 1
  BY <1>6, NodesOf DEF Good, Sound, Right
<1>8. IsTheory(mid) /\ mid.nodes = Append(N, m) /\ SameFields(th, mid)
  BY <1>7 DEF makeNode, IsTheory, SameFields
<1>9. set \subseteq Ids(th)
  BY UVarsAreIds
<1> HIDE DEF set, mid
<1>10. /\ new.nodes = Append(N, m) /\ new.uterms = W /\ new.readIndexTerms = S
       /\ new.uvars = IF g THEN th.uvars \cup set ELSE th.uvars
       /\ new.vocabIds = th.vocabIds /\ new.generatedVocabIds = th.generatedVocabIds
       /\ new.quantFreeVocIds = th.quantFreeVocIds /\ new.boundTerms = th.boundTerms
       /\ new.rulemap = th.rulemap
  <2>1. CASE g
    BY <1>5, <1>8, <2>1 DEF IsTheory, SameFields
  <2>2. CASE ~ g
    BY <1>5, <1>8, <2>2 DEF IsTheory, SameFields
  <2> QED BY <2>1, <2>2
<1> HIDE DEF new
<1>11. IndexedIn(Append(N, m), W, S)
  <2>1. 2 \in DOMAIN m.operandIds /\ m.operandIds[2] = t /\ m.operandIds[2] \in Ids(th)
    BY <1>6
  <2>2. t \in (IF m.global THEN W ELSE S)
    BY <1>6
  <2>3. m.global => N[t + 1].global
    BY <1>5, <1>6 DEF getNode
  <2>4. th.uterms \subseteq W /\ th.readIndexTerms \subseteq S
    OBVIOUS
  <2> HIDE DEF W, S
  <2> QED BY <1>6, <1>7, <2>1, <2>2, <2>3, <2>4, IndexedByAppend DEF Ids
<1>12. BoundsIn(Append(N, m))
  BY <1>6, <1>7, BoundsByAppend
<1>13. Ids(th) \subseteq Ids(new)
  BY <1>7, <1>10 DEF Ids
<1>14. FieldsIn(new, Ids(new))
  <2>1. FieldsIn(th, Ids(new))
    BY <1>7, <1>13, FieldsWiden DEF SameFields
  <2>2. set \subseteq Ids(new) /\ t \in Ids(new)
    BY <1>9, <1>13
  <2> QED BY <1>10, <2>1, <2>2 DEF FieldsIn
<1> QED BY <1>1, <1>10, <1>11, <1>12, <1>14 DEF Right

(* A rule names nodes, or a number that is not declared.                   *)
LEMMA RulesRight ==
    ASSUME NEW th, Good(th), Right(th), NEW S,
           \A rule \in S : rule[1] \in Ids(th) \cup {NoId} /\ rule[2] \in Ids(th) \cup {NoId}
    PROVE  Right([th EXCEPT !.rulemap = @ \cup S])
<1> DEFINE new == [th EXCEPT !.rulemap = @ \cup S]
<1>1. IsTheory(th)
  BY DEF Good
<1>2. /\ new.nodes = th.nodes /\ new.rulemap = th.rulemap \cup S
      /\ new.vocabIds = th.vocabIds /\ new.generatedVocabIds = th.generatedVocabIds
      /\ new.quantFreeVocIds = th.quantFreeVocIds /\ new.uvars = th.uvars
      /\ new.uterms = th.uterms /\ new.readIndexTerms = th.readIndexTerms
      /\ new.boundTerms = th.boundTerms
  BY <1>1 DEF IsTheory
<1> HIDE DEF new
<1>3. FieldsIn(new, Ids(th))
  BY <1>2 DEF Right, FieldsIn
<1>4. Right(new)
  BY <1>2, <1>3, RightByFields
<1> QED BY <1>4 DEF new

LEMMA BoundRight ==
    ASSUME NEW th, Good(th), Right(th), NEW a \in Ids(th), NEW id \in Ids(th)
    PROVE  Right(AddBound(th, a, id))
<1> DEFINE S == BoundRules(th, a, id)
           mid == [th EXCEPT !.rulemap = @ \cup S]
           n == getNode(th, a)
           q == n.boundIds
           b == Append(q, id)
           m == [n EXCEPT !.boundIds = b]
           zero == getIdOfUsedConstant(th, 0)
           last == n.arrSizeMinusOneId
           bounds == {n.boundIds[i] : i \in DOMAIN n.boundIds}
           I == Ids(th) \cup {NoId}
<1>0. id \in Nat /\ IsTheory(th)
  BY NodesOf DEF Good
<1>1. n \in Node /\ last \in Ids(th) /\ bounds \subseteq Ids(th)
      /\ \A i \in DOMAIN n.boundIds : n.boundIds[i] \in Ids(th)
  BY RangesOf
<1>2. /\ n = th.nodes[a + 1] /\ a + 1 \in DOMAIN th.nodes
      /\ q \in Seq(Nat) /\ \A i \in DOMAIN q : q[i] \in Ids(th)
  <2>1. n = th.nodes[a + 1] /\ a + 1 \in DOMAIN th.nodes
    BY NodesOf DEF getNode, Ids
  <2> HIDE DEF n
  <2>2. q \in Seq(Nat)
    BY <1>1 DEF Node
  <2> QED BY <1>1, <2>1, <2>2
<1>3. b \in Seq(Nat) /\ \A i \in DOMAIN b : b[i] \in Ids(th)
  <2> HIDE DEF q
  <2>1. Len(b) = Len(q) + 1 /\ b[Len(q) + 1] = id /\ b \in Seq(Nat)
        /\ Len(q) \in Nat /\ \A i \in 1 .. Len(q) : b[i] = q[i]
    BY <1>0, <1>2
  <2>2. \A i \in DOMAIN b : i \in 1 .. Len(q) \/ i = Len(q) + 1
    BY <2>1
  <2>3. \A i \in 1 .. Len(q) : q[i] \in Ids(th)
    BY <1>2
  <2> HIDE DEF b
  <2> QED BY <2>1, <2>2, <2>3
<1>4. zero \in I /\ id \in I /\ last \in I /\ bounds \subseteq I
  BY <1>1, ConstantId
<1>5. S = {<<zero, id, "<=">>, <<id, zero, "=">>, <<id, last, "<=">>, <<id, last, "=">>}
            \cup {<<id, c, op>> : c \in bounds, op \in {"<=", "="}}
  BY DEF BoundRules
<1> HIDE DEF S, zero, last, bounds, I
<1>6. ASSUME NEW rule \in S
      PROVE  rule[1] \in I /\ rule[2] \in I
  <2>1. CASE rule \in {<<zero, id, "<=">>, <<id, zero, "=">>, <<id, last, "<=">>, <<id, last, "=">>}
    BY <1>4, <2>1
  <2>2. CASE rule \in {<<id, c, op>> : c \in bounds, op \in {"<=", "="}}
    <3>1. PICK c \in bounds, op \in {"<=", "="} : rule = <<id, c, op>>
      BY <2>2
    <3> QED BY <1>4, <3>1
  <2> QED BY <1>5, <1>6, <2>1, <2>2
<1>7. Right(mid)
  BY <1>6, RulesRight DEF I
<1>8. Good(mid)
  BY RulesExtend DEF Extends
<1>9. mid.nodes = th.nodes
  BY <1>0 DEF IsTheory
<1> HIDE DEF n
<1>12. AddBound(th, a, id) = [mid EXCEPT !.nodes[a + 1] = m]
  BY <1>0, <1>2 DEF AddBound, IsTheory, S, b, q
<1> HIDE DEF mid, b, q
<1>10. getNode(mid, a) = n /\ Ids(mid) = Ids(th)
  BY <1>9 DEF getNode, Ids, n
<1>11. m \in Node /\ SameNode(n, m) /\ m.boundIds = b /\ m.global = n.global
       /\ m.arrSizeMinusOneId = n.arrSizeMinusOneId
  BY <1>1, <1>3 DEF Node, SameNode
<1> HIDE DEF m
<1> QED BY <1>1, <1>3, <1>7, <1>8, <1>10, <1>11, <1>12, RightByFlag DEF last

LEMMA RuleRight ==
    ASSUME NEW th, Good(th), Right(th), NEW a \in Ids(th), NEW id \in Ids(th), NEW ops
    PROVE  Right(handleGrammarRule(th, a, id, ops))
<1> DEFINE plain == {<<a, id, op>> : op \in UNION {Expanded(o) : o \in ops}}
           ruled == [th EXCEPT !.rulemap = @ \cup plain]
           once == AddBound(ruled, a, id)
           none == ops \cap {"bound", "index"} = {}
           both == {"bound", "index"} \subseteq ops
<1>0. id \in Nat
  BY NodesOf
<1>1. Extends(th, ruled)
  BY RulesExtend
<1>2. Right(ruled)
  <2>1. \A rule \in plain : rule[1] \in Ids(th) \cup {NoId} /\ rule[2] \in Ids(th) \cup {NoId}
    OBVIOUS
  <2> HIDE DEF plain
  <2> QED BY <2>1, RulesRight
<1>3. handleGrammarRule(th, a, id, ops)
         = IF none THEN ruled ELSE IF both THEN AddBound(once, a, id) ELSE once
  BY DEF handleGrammarRule
<1> HIDE DEF ruled, none, both
<1>4. Good(ruled) /\ a \in Ids(ruled) /\ id \in Ids(ruled)
  BY <1>1, IdsKept DEF Extends
<1>5. Extends(ruled, once) /\ Right(once)
  BY <1>0, <1>2, <1>4, BoundExtends, BoundRight
<1> HIDE DEF once
<1>6. Good(once) /\ a \in Ids(once) /\ id \in Ids(once)
  BY <1>4, <1>5, IdsKept DEF Extends
<1>7. Right(AddBound(once, a, id))
  BY <1>5, <1>6, BoundRight
<1> QED BY <1>2, <1>3, <1>5, <1>7

LEMMA DeclareVarRight ==
    ASSUME NEW th, Good(th), Right(th), NEW name \in Seq(Word), NEW type \in DeclaredTypes, NEW mode
    PROVE  Right(DeclareVar(th, name, type, mode))
<1> DEFINE id == NextId(th)
           v == VocabNode("", type)
           c == mode = "const"
           g == mode = "global"
           l == mode = "local"
           n == [v EXCEPT !.name = name, !.isVar = TRUE, !.const = c, !.global = g, !.local = l]
           m == [n EXCEPT !.leftVars = <<id>>, !.rightVars = <<id>>]
           V == [k \in DOMAIN th.var2idMap \cup {name} |-> IF k = name THEN id ELSE th.var2idMap[k]]
           vs == Append(th.varIds, id)
           N == Append(th.nodes, m)
           new == [th EXCEPT !.nodes = N, !.var2idMap = V, !.varIds = vs]
<1>1. IsTheory(th)
  BY DEF Good
<1>2. id \in Nat /\ type \in NodeTypes /\ type # "access"
  <2>1. type # "access"
    BY DEF DeclaredTypes
  <2> QED BY <2>1, NodesOf, NodeWords DEF NextId
<1>3. v \in Node /\ v.arrSizeMinusOneId = 0 /\ v.boundIds = <<>> /\ v.type = type
  <2>1. "" \in NodeOps
    BY NodeWords
  <2> QED BY <1>2, <2>1, VocabNodeIsNode, VocabNodeIsFresh
<1>4. c \in BOOLEAN /\ g \in BOOLEAN /\ l \in BOOLEAN
  OBVIOUS
<1>5. DeclareVar(th, name, type, mode) = new
  BY <1>1 DEF DeclareVar, VarNode, makeNode, IsTheory
<1> HIDE DEF v, c, g, l, id
<1>6. m \in Node /\ m.isVar /\ m.arrSizeMinusOneId = 0 /\ m.boundIds = <<>> /\ m.type = type
  <2>1. n \in Node /\ n.isVar /\ n.arrSizeMinusOneId = 0 /\ n.boundIds = <<>> /\ n.type = type
    BY <1>3, <1>4 DEF Node
  <2> HIDE DEF n
  <2>2. <<id>> \in Seq(Nat)
    BY <1>2
  <2> QED BY <2>1, <2>2 DEF Node
<1> HIDE DEF m, V, vs
<1>7. new.nodes = Append(th.nodes, m) /\ SameFields(th, new)
  BY <1>1 DEF IsTheory, SameFields
<1> HIDE DEF new
<1>8. Fresh(th, m)
  BY <1>2, <1>6 DEF Fresh
<1>9. Right(new)
  BY <1>6, <1>7, <1>8, RightByAppend
<1> QED BY <1>5, <1>9

LEMMA DeclareSizeRight ==
    ASSUME NEW th, Good(th), Right(th), NEW id \in Ids(th), NEW name \in Seq(Word)
    PROVE  Right(DeclareSize(th, id, name))
<1> DEFINE szname == SizeName(name)
           sized == IF szname \in DOMAIN th.var2idMap THEN th
                    ELSE DeclareVar(th, szname, "int", "none")
           n == getNode(sized, id)
           x == sized.var2idMap[szname]
           m == [n EXCEPT !.arrSizeMinusOneId = x]
<1>1. szname \in Seq(Word) /\ "int" \in NodeTypes /\ "int" \in DeclaredTypes
  <2>1. "size_minus_1" \in Word /\ "int" \in NodeTypes /\ "int" \in DeclaredTypes
    BY NodeWords DEF Word, DeclaredTypes
  <2> QED BY <2>1 DEF SizeName
<1> HIDE DEF szname
<1>2. Extends(th, sized) /\ szname \in DOMAIN sized.var2idMap /\ Right(sized)
  <2>1. CASE szname \in DOMAIN th.var2idMap
    BY <2>1, ExtendsReflexive
  <2>2. CASE szname \notin DOMAIN th.var2idMap
    BY <1>1, <2>2, DeclareVarExtends, DeclareVarRight
  <2> QED BY <2>1, <2>2
<1>3. DeclareSize(th, id, name) = [sized EXCEPT !.nodes[id + 1].arrSizeMinusOneId = sized.var2idMap[szname]]
  BY DEF DeclareSize, szname
<1> HIDE DEF sized
<1>4. Good(sized) /\ IsTheory(sized) /\ id \in Ids(sized)
  BY <1>2, IdsKept DEF Extends, Good
<1>5. n \in Node /\ n = sized.nodes[id + 1]
      /\ \A i \in DOMAIN n.boundIds : n.boundIds[i] \in Ids(sized)
  BY <1>2, <1>4, RangesOf DEF getNode
<1>6. x \in Ids(sized) /\ x \in Nat
  BY <1>2, <1>4, NodesOf DEF Good, Sound, NamedIn, Ids
<1>7. DeclareSize(th, id, name) = [sized EXCEPT !.nodes[id + 1] = m]
  BY <1>3, <1>4, <1>5 DEF IsTheory
<1> HIDE DEF n, x
<1>8. m \in Node /\ SameNode(n, m) /\ m.arrSizeMinusOneId = x /\ m.boundIds = n.boundIds
      /\ m.global = n.global
  BY <1>5, <1>6 DEF Node, SameNode
<1> HIDE DEF m
<1> QED BY <1>2, <1>4, <1>5, <1>6, <1>7, <1>8, RightByFlag DEF n

LEMMA DeclarationRight ==
    ASSUME NEW th, Good(th), Right(th), NEW name \in Seq(Word), NEW type \in DeclaredTypes, NEW mode
    PROVE  Right(handleDeclaration(th, name, type, mode).th)
<1> DEFINE declared == DeclareVar(th, name, type, mode)
<1>1. CASE name \in DOMAIN th.var2idMap
  BY <1>1 DEF handleDeclaration
<1>2. CASE name \notin DOMAIN th.var2idMap
  <2>1. type \in NodeTypes
    BY NodeWords
  <2>2. Extends(th, declared) /\ NextId(th) \in Ids(declared) /\ Right(declared)
    BY <1>2, <2>1, DeclareVarExtends, DeclareVarRight
  <2>3. handleDeclaration(th, name, type, mode).th
          = IF type \in ArrayTypes THEN DeclareSize(declared, NextId(th), name) ELSE declared
    BY <1>2 DEF handleDeclaration
  <2> HIDE DEF declared
  <2>4. Right(DeclareSize(declared, NextId(th), name))
    BY <2>2, DeclareSizeRight DEF Extends
  <2> QED BY <2>2, <2>3, <2>4
<1> QED BY <1>1, <1>2

LEMMA ConstantRight ==
    ASSUME NEW th, Good(th), Right(th), NEW value \in Int
    PROVE  Right(handleConstantDeclaration(th, value))
<1> DEFINE id == NextId(th)
           v == VocabNode("lit", "literal")
           m == [v EXCEPT !.const = TRUE, !.value = value, !.leftVars = <<id>>, !.rightVars = <<id>>]
           N == Append(th.nodes, m)
           cs == Append(th.constantIds, id)
           new == [th EXCEPT !.nodes = N, !.constantIds = cs]
<1>1. IsTheory(th) /\ id \in Nat
  BY NodesOf DEF Good, NextId
<1>2. CASE LiteralsOf(th, value) # {}
  BY <1>2 DEF handleConstantDeclaration
<1>3. CASE LiteralsOf(th, value) = {}
  <2>1. handleConstantDeclaration(th, value) = new
    BY <1>1, <1>3 DEF handleConstantDeclaration, makeNode, IsTheory
  <2>2. v \in Node /\ v.arrSizeMinusOneId = 0 /\ v.boundIds = <<>> /\ v.type = "literal" /\ ~ v.global
    <3>1. "lit" \in NodeOps /\ "literal" \in NodeTypes
      BY NodeWords
    <3> QED BY <3>1, VocabNodeIsNode, VocabNodeIsFresh
  <2> HIDE DEF v, id
  <2>3. m \in Node /\ m.arrSizeMinusOneId = 0 /\ m.boundIds = <<>> /\ m.type = "literal" /\ ~ m.global
    <3>1. <<id>> \in Seq(Nat)
      BY <1>1
    <3> QED BY <2>2, <3>1 DEF Node
  <2> HIDE DEF m, cs
  <2>4. new.nodes = Append(th.nodes, m) /\ SameFields(th, new)
    BY <1>1 DEF IsTheory, SameFields
  <2> HIDE DEF new
  <2>5. Fresh(th, m)
    BY <2>3 DEF Fresh
  <2>6. Right(new)
    BY <2>3, <2>4, <2>5, RightByAppend
  <2> QED BY <2>1, <2>6
<1> QED BY <1>2, <1>3

-----------------------------------------------------------------------------
(* And what the reader does                                                *)

LEMMA UsedIsVariable ==
    ASSUME ReaderInv, NEW name, NEW id \in UsedVariable(name), id # NoId
    PROVE  id \in Ids(theory) /\ getNode(theory, id).isVar
<1>1. name \in DOMAIN theory.var2idMap /\ id = theory.var2idMap[name]
  BY DEF UsedVariable, Used, getIdOfUsedVarible
<1>2. theory.nodes[id + 1].isVar
  BY <1>1 DEF ReaderInv, Good, Sound, NamedIn
<1> QED BY <1>2, UsedIsId DEF getNode

LEMMA ItemRight ==
    ASSUME ReaderInv, Right(theory),
           declaration \/ constant \/ operations_bound \/ quantifiers_bound \/ wrong_item
    PROVE  Right(theory')
<1>0. Good(theory) /\ IsTheory(theory) /\ 0 \in Int
  <2>1. 0 \in Int
    OBVIOUS
  <2> QED BY <2>1 DEF ReaderInv, Good
<1>1. CASE declaration
  <2>1. Completes("declaration") /\ theory' = handleDeclaration(theory, current.name, current.type, current.mode).th
    BY <1>1 DEF declaration, Becomes
  <2>2. current.name \in Seq(Word) /\ current.type \in DeclaredTypes
    BY <2>1, Completed, ProductionFields
  <2> QED BY <1>0, <2>1, <2>2, DeclarationRight
<1>2. CASE constant
  <2>1. Completes("constant") /\ theory' = handleConstantDeclaration(theory, current.value)
    BY <1>2 DEF constant, Becomes
  <2>2. current.value \in Int
    BY <2>1, Completed, ProductionFields
  <2> QED BY <1>0, <2>1, <2>2, ConstantRight
<1>3. CASE operations_bound \/ quantifiers_bound
  <2>1. PICK th \in {[theory EXCEPT !.numClauseOperationBound = current.value],
                     [theory EXCEPT !.numQuantifierBound = current.value]} : theory' = th
    BY <1>3 DEF operations_bound, quantifiers_bound, Becomes
  <2>2. th.nodes = theory.nodes /\ SameFields(theory, th)
    BY <1>0, <2>1 DEF IsTheory, SameFields
  <2>3. FieldsIn(th, Ids(theory))
    BY <2>2, FieldsWiden DEF Right
  <2> QED BY <1>0, <2>1, <2>2, <2>3, RightByFields DEF SameFields
<1>4. CASE wrong_item
  <2>1. CASE /\ Completes("wrong_declaration")
             /\ Becomes(handleDeclaration(theory, Missing, current.type, current.mode).th)
    <3>1. current.type \in DeclaredTypes
      BY <2>1, Completed, ProductionFields
    <3>2. Missing \in Seq(Word)
      <4>1. "<missing IDENTIFIER>" \in Word
        BY DEF Word
      <4>2. \A w \in Word : <<w>> \in Seq(Word)
        OBVIOUS
      <4> QED BY <4>1, <4>2 DEF Missing
    <3> QED BY <1>0, <2>1, <3>1, <3>2, DeclarationRight DEF Becomes
  <2>2. CASE Completes("wrong_constant") /\ Becomes(handleConstantDeclaration(theory, 0))
    BY <1>0, <2>2, ConstantRight DEF Becomes
  <2>3. CASE Completes("wrong_rule") /\ Becomes(theory)
    BY <2>3 DEF Becomes
  <2> QED BY <1>4, <2>1, <2>2, <2>3 DEF wrong_item
<1> QED BY <1>1, <1>2, <1>3, <1>4

LEMMA GrammarRight ==
    ASSUME ReaderInv, Right(theory), grammar_rule
    PROVE  Right(theory')
<1>1. Good(theory)
  BY DEF ReaderInv
<1>2. PICK id1, id2, ops : /\ id1 \in Ids(theory) \cup {NoId}
                           /\ id2 \in Ids(theory) \cup {NoId}
                           /\ Ruled(id1, id2, ops)
  BY <1>1, UsedIsId, ConstantId DEF grammar_rule
<1>3. CASE theory' = theory
  BY <1>3
<1>4. CASE id1 \in Ids(theory) /\ id2 \in Ids(theory) /\ theory' = handleGrammarRule(theory, id1, id2, ops)
  BY <1>1, <1>4, RuleRight
<1> QED BY <1>2, <1>3, <1>4 DEF Ruled, Becomes, Stop

LEMMA TermRight ==
    ASSUME ReaderInv, Right(theory),
           atom_literal \/ atom_variable \/ atom_access \/ unaryop \/ additionop_productop
    PROVE  Right(theory')
<1>0. Good(theory)
  BY DEF ReaderInv
<1>1. CASE atom_literal
  <2>1. Completes("atom_literal") /\ theory' = handleConstantDeclaration(theory, current.value)
    BY <1>1 DEF atom_literal, Reduce
  <2>2. current.value \in Int
    BY <2>1, Completed, ProductionFields
  <2> QED BY <1>0, <2>1, <2>2, ConstantRight
<1>2. CASE atom_variable
  BY <1>2 DEF atom_variable, Reduce, Undeclared, Stop
<1>3. CASE atom_access
  <2>1. Operand(1, 1) \in Ids(theory)
    BY <1>3, OperandsAreIds DEF atom_access
  <2>2. PICK id \in UsedVariable(current.name) :
           \/ Undeclared(id)
           \/ id # NoId /\ Reduce(1, "term", handleArrayAccess(theory, id, Operand(1, 1)))
    BY <1>3 DEF atom_access
  <2>3. CASE Undeclared(id)
    BY <2>3 DEF Undeclared, Stop
  <2>4. CASE id # NoId /\ Reduce(1, "term", handleArrayAccess(theory, id, Operand(1, 1)))
    BY <1>0, <2>1, <2>4, UsedIsId, AccessRight DEF Reduce
  <2> QED BY <2>2, <2>3, <2>4
<1>4. CASE unaryop
  <2>1. Operand(1, 1) \in Ids(theory) /\ theory' = handleUnaryMinus(theory, Operand(1, 1)).th
    BY <1>4, OperandsAreIds DEF unaryop, Reduce
  <2> QED BY <1>0, <2>1, BooleanRight, NodeWords
<1>5. CASE additionop_productop
  <2>1. /\ Completes("arithmetic")
        /\ Operand(1, 2) \in Ids(theory) /\ Operand(2, 2) \in Ids(theory)
        /\ theory' = handleTermArithTerm(theory, current.op, Operand(1, 2), Operand(2, 2)).th
    BY <1>5, OperandsAreIds DEF additionop_productop, Reduce
  <2>2. current.op \in NodeOps
    BY <2>1, Completed, ProductionFields
  <2> QED BY <1>0, <2>1, <2>2, ArithRight
<1> QED BY <1>1, <1>2, <1>3, <1>4, <1>5

LEMMA FormulaRight ==
    ASSUME ReaderInv, Right(theory),
           be_literal \/ be_variable \/ be_relational \/ be_boolean \/ be_not \/ be_quantified
    PROVE  Right(theory')
<1>0. Good(theory)
  BY DEF ReaderInv
<1>1. CASE be_literal
  BY <1>0, <1>1, TrueRight DEF be_literal, Reduce
<1>2. CASE be_variable
  BY <1>2 DEF be_variable, Reduce, Undeclared, Stop
<1>3. CASE be_relational
  <2>1. /\ Completes("relational")
        /\ Operand(1, 2) \in Ids(theory) /\ Operand(2, 2) \in Ids(theory)
        /\ theory' = handleTermRelationalTerm(theory, current.op, Operand(1, 2), Operand(2, 2)).th
    BY <1>3, OperandsAreIds DEF be_relational, Reduce
  <2>2. current.op \in NodeOps
    BY <2>1, Completed, ProductionFields
  <2> QED BY <1>0, <2>1, <2>2, RelationalRight
<1>4. CASE be_boolean
  <2>1. /\ Completes("boolean")
        /\ Operand(1, 2) \in Ids(theory) /\ Operand(2, 2) \in Ids(theory)
        /\ theory' = handleBEBoolBE(theory, current.op, Operand(1, 2), Operand(2, 2)).th
    BY <1>4, OperandsAreIds DEF be_boolean, Reduce
  <2>2. current.op \in NodeOps
    BY <2>1, Completed, ProductionFields
  <2> QED BY <1>0, <2>1, <2>2, BooleanRight
<1>5. CASE be_not
  <2>1. Operand(1, 1) \in Ids(theory) /\ theory' = handleNot(theory, Operand(1, 1)).th
    BY <1>5, OperandsAreIds DEF be_not, Reduce
  <2> QED BY <1>0, <2>1, BooleanRight, NodeWords
<1>6. CASE be_quantified
  <2>1. Operand(1, 1) \in Ids(theory)
    BY <1>6, OperandsAreIds DEF be_quantified
  <2>2. PICK id \in UsedVariable(current.name) :
           \/ Undeclared(id)
           \/ id # NoId /\ Reduce(1, "be", handleForall(theory, id, Operand(1, 1)))
           \/ id # NoId /\ Reduce(1, "be", handleExists(theory, id, Operand(1, 1)))
    BY <1>6 DEF be_quantified
  <2>3. CASE Undeclared(id)
    BY <2>3 DEF Undeclared, Stop
  <2>4. CASE id # NoId
    <3>1. /\ Right(handleForall(theory, id, Operand(1, 1)).th)
          /\ Right(handleExists(theory, id, Operand(1, 1)).th)
      BY <1>0, <2>1, <2>4, UsedIsVariable, QuantifierRight
    <3> QED BY <2>2, <2>3, <3>1 DEF Reduce
  <2> QED BY <2>2, <2>3, <2>4
<1> QED BY <1>1, <1>2, <1>3, <1>4, <1>5, <1>6

LEMMA RestRight ==
    ASSUME ReaderInv, Right(theory),
           clause \/ translation_unit \/ wrong_expression \/ wrong_clause \/ wrong_unit
    PROVE  Right(theory')
<1>1. CASE clause
  <2> DEFINE th == [theory EXCEPT !.vocabIds = Append(@, Operand(1, 1))]
  <2>1. theory' = th /\ Operand(1, 1) \in Ids(theory) /\ Good(theory) /\ IsTheory(theory)
    BY <1>1, OperandsAreIds DEF clause, ReaderInv, Good
  <2>2. /\ th.nodes = theory.nodes /\ th.vocabIds = Append(theory.vocabIds, Operand(1, 1))
        /\ th.generatedVocabIds = theory.generatedVocabIds
        /\ th.quantFreeVocIds = theory.quantFreeVocIds /\ th.uvars = theory.uvars
        /\ th.uterms = theory.uterms /\ th.readIndexTerms = theory.readIndexTerms
        /\ th.boundTerms = theory.boundTerms /\ th.rulemap = theory.rulemap
    BY <2>1 DEF IsTheory
  <2> HIDE DEF th
  <2>3. FieldsIn(th, Ids(theory))
    BY <2>1, <2>2 DEF Right, FieldsIn
  <2> QED BY <2>1, <2>2, <2>3, RightByFields
<1>2. CASE translation_unit \/ wrong_expression \/ wrong_clause \/ wrong_unit
  BY <1>2 DEF translation_unit, wrong_expression, wrong_clause, wrong_unit, Stop
<1> QED BY <1>1, <1>2

LEMMA InitRight == ReaderInit => Right(theory)
<1> SUFFICES ASSUME ReaderInit
             PROVE  Right(theory)
  OBVIOUS
<1>1. theory = EmptyTheory
  BY DEF ReaderInit
<1>2. theory.nodes = <<>> /\ Len(theory.nodes) = 0
  BY <1>1 DEF EmptyTheory
<1>3. \A I : FieldsIn(theory, I)
  BY <1>1 DEF EmptyTheory, FieldsIn
<1> QED BY <1>2, <1>3 DEF Right, IndexedIn, BoundsIn

LEMMA NextRight ==
    ASSUME ReaderInv, Right(theory), [ReaderNext]_readerVars
    PROVE  Right(theory')
<1>1. CASE ReaderNext
  BY <1>1, ItemRight, GrammarRight, TermRight, FormulaRight, RestRight DEF ReaderNext
<1>2. CASE UNCHANGED readerVars
  BY <1>2 DEF readerVars
<1> QED BY <1>1, <1>2

LEMMA RightIndexes == Good(theory) /\ Right(theory) => IndexSound
<1> SUFFICES ASSUME Good(theory), Right(theory)
             PROVE  IndexSound
  OBVIOUS
<1>1. IndexedIn(theory.nodes, theory.uterms, theory.readIndexTerms)
  BY DEF Right
<1>2. \A id \in Ids(theory) : id + 1 \in 1 .. Len(theory.nodes)
  BY NodesOf DEF Ids
<1>3. AccessIndexed
  BY <1>1, <1>2 DEF AccessIndexed, IndexedIn, getNode
<1>4. GlobalJustified
  BY <1>1, <1>2 DEF GlobalJustified, IndexedIn, getNode
<1> QED BY <1>3, <1>4 DEF IndexSound

LEMMA RightIsTyped == Good(theory) /\ Right(theory) => TypeOK
<1> SUFFICES ASSUME Good(theory), Right(theory)
             PROVE  TypeOK
  OBVIOUS
<1>1. Good(theory) /\ FieldsIn(theory, Ids(theory)) /\ theory.nodes \in Seq(Node)
  BY NodesOf DEF Right
<1>2. theory.varIds \in Seq(Ids(theory)) /\ theory.constantIds \in Seq(Ids(theory))
  <2>1. ASSUME NEW s \in Seq(Nat), \A i \in 1 .. Len(s) : s[i] \in Ids(theory)
        PROVE  s \in Seq(Ids(theory))
    BY <2>1
  <2>2. theory.varIds \in Seq(Nat) /\ \A i \in 1 .. Len(theory.varIds) : theory.varIds[i] \in Ids(theory)
    BY <1>1 DEF Good, IsTheory, Sound, NamedIn, Ids
  <2>3. /\ theory.constantIds \in Seq(Nat)
        /\ \A i \in 1 .. Len(theory.constantIds) : theory.constantIds[i] \in Ids(theory)
    BY <1>1 DEF Good, IsTheory, Sound, LiteralsIn, Ids
  <2> QED BY <2>1, <2>2, <2>3
<1>3. {theory.trueId, theory.falseId} \subseteq Ids(theory) \cup {NoId}
  BY <1>1 DEF Good
<1>4. theory.uvars \cup theory.uterms \cup theory.readIndexTerms \cup theory.boundTerms \subseteq Ids(theory)
  BY <1>1 DEF FieldsIn
<1> QED BY <1>1, <1>2, <1>3, <1>4 DEF TypeOK, FieldsIn

(* After every production the node table, var2idMap, varIds and            *)
(* constantIds agree, and no node is made of itself: the hazard of a table *)
(* kept in step by hand by the handlers of scTheory.cpp, whatever the      *)
(* theory file holds and however its errors are recovered from.            *)
THEOREM ReadTableSound == ReaderSpec => []TableSound
<1>1. ReaderInit => ReaderInv
  BY InitReads
<1>2. ReaderInv /\ [ReaderNext]_readerVars => ReaderInv'
  BY NextKeeps
<1>3. ReaderInv => TableSound
  BY SoundTable DEF ReaderInv
<1> QED BY <1>1, <1>2, <1>3, PTL DEF ReaderSpec

(* A node once made is never taken away, nor changed but for its flags,    *)
(* its size and its bounds: what an id stood for when a rule or a formula  *)
(* took it, it stands for at the end.                                      *)
THEOREM ReadIdsStay == ReaderSpec => IdsStay
<1>1. ReaderInit => ReaderInv
  BY InitReads
<1>2. ReaderInv /\ [ReaderNext]_readerVars => ReaderInv'
  BY NextKeeps
<1>3. ReaderInv /\ [ReaderNext]_readerVars => [TableGrows]_theory
  BY NextKeeps DEF TableGrows, Grows
<1> QED BY <1>1, <1>2, <1>3, PTL DEF ReaderSpec, IdsStay

(* Every index that an array was accessed with is in uterms or in          *)
(* readIndexTerms, on the side its access is marked for, and every node    *)
(* marked universal rests on one that is, down to a variable: what the     *)
(* instantiation of scGenVocab.cpp:476 takes for granted, whatever was     *)
(* read, whichever quantifier was met after the terms it binds.            *)
THEOREM ReadIndexSound == ReaderSpec => []IndexSound
<1> DEFINE Inv == ReaderInv /\ Right(theory)
<1>1. ReaderInit => Inv
  BY InitReads, InitRight
<1>2. Inv /\ [ReaderNext]_readerVars => Inv'
  BY NextKeeps, NextRight
<1>3. Inv => IndexSound
  BY RightIndexes DEF ReaderInv
<1> QED BY <1>1, <1>2, <1>3, PTL DEF ReaderSpec

(* The ids in every field of the theory are ids of its table, those of     *)
(* getUVars included, and a rule names nodes or, for a number that was not *)
(* declared, none.                                                         *)
THEOREM ReadTyped == ReaderSpec => []TypeOK
<1> DEFINE Inv == ReaderInv /\ Right(theory)
<1>1. ReaderInit => Inv
  BY InitReads, InitRight
<1>2. Inv /\ [ReaderNext]_readerVars => Inv'
  BY NextKeeps, NextRight
<1>3. Inv => TypeOK
  BY RightIsTyped DEF ReaderInv
<1> QED BY <1>1, <1>2, <1>3, PTL DEF ReaderSpec
=============================================================================
