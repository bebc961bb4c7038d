------------------------------ MODULE Robdd_proofs ------------------------------
(***************************************************************************)
(* The BDD library, for every number of variables and every length of the  *)
(* node array: the store stays a reduced BDD under every sequence of calls *)
(* of make and apply, its diagrams are canonical, apply computes the       *)
(* function it is given, satcount counts, and allsat and onesat print, the *)
(* assignments that satisfy a node.  And its hash tables, for all keys,    *)
(* elements and hash functions: they keep their structure and implement    *)
(* the map of hashtable.h.                                                 *)
(*                                                                         *)
(* Induction, over numbers and over the variables from the terminals       *)
(* upwards, is by a least counterexample: lemmas LeastNat, Induction and   *)
(* BottomUp.  NodeRecursion says that a recursive function of the nodes is *)
(* defined.                                                                *)
(***************************************************************************)
EXTENDS Robdd, HashTable, WellFoundedInduction, FiniteSetTheorems, TLAPS

(* The invariant of the store, of any bdd b: the successive bdds within a  *)
(* call of apply have it too.                                              *)
NodeOK(b, u) ==
    /\ b.T[u] \in Node
    /\ u < 2 => b.T[u].var = NumVars + 1
    /\ u >= 2 =>
          /\ b.T[u].var \in Var
          /\ b.T[u].low \in bdd_node(b) /\ b.T[u].high \in bdd_node(b)
          /\ b.T[b.T[u].low].var > b.T[u].var
          /\ b.T[b.T[u].high].var > b.T[u].var
          /\ [e_node |-> b.T[u], u |-> u] \in b.H
          /\ b.T[u].low # b.T[u].high

Good(b) ==
    /\ b \in Bdd
    /\ \A u \in bdd_node(b) : NodeOK(b, u)
    /\ \A e \in b.H : e.u \in bdd_node(b) /\ e.u >= 2 /\ b.T[e.u] = e.e_node
    /\ \A u, w \in bdd_node(b) : u >= 2 /\ w >= 2 /\ b.T[u] = b.T[w] => u = w

(* Whoever holds a node of b finds it unchanged in c.                      *)
Extends(b, c) ==
    /\ bdd_node(b) \subseteq bdd_node(c)
    /\ \A u \in bdd_node(b) : c.T[u] = b.T[u]

(* The node that make looks for.                                           *)
Wanted(v, l, h) == [var |-> v, low |-> l, high |-> h]

Found(b, v, l, h) == {e \in b.H : e.e_node = Wanted(v, l, h)}

-------------------------------------------------------------------------------
LEMMA LeastNat ==
    ASSUME NEW T \in SUBSET Nat, T # {}
    PROVE  \E n \in T : \A m \in T : n <= m
<1> DEFINE R == OpToRel(<, Nat)
<1>1. IsWellFoundedOn(R, Nat)
  BY NatLessThanWellFounded
<1>2. \A x, y \in Nat : x < y => <<x, y>> \in R
  BY DEF OpToRel
<1> HIDE DEF R
<1>3. PICK n \in T : \A m \in T : ~ (<<m, n>> \in R)
  BY <1>1, WFMin
<1>4. ASSUME NEW m \in T
      PROVE  n <= m
  <2>1. m \in Nat /\ n \in Nat
    OBVIOUS
  <2>2. ~ (m < n)
    BY <1>2, <1>3, <2>1
  <2> QED BY <2>1, <2>2
<1> QED BY <1>4

LEMMA Induction ==
    ASSUME NEW T, 0 \in T, \A n \in Nat : n \in T => n + 1 \in T
    PROVE  Nat \subseteq T
<1> SUFFICES ASSUME Nat \ T # {} PROVE FALSE
  OBVIOUS
<1>1. PICK n \in Nat \ T : \A m \in Nat \ T : n <= m
  <2> DEFINE Out == Nat \ T
  <2>1. Out \in SUBSET Nat /\ Out # {}
    OBVIOUS
  <2> HIDE DEF Out
  <2>2. \E n \in Out : \A m \in Out : n <= m
    BY <2>1, LeastNat
  <2> QED BY <2>2 DEF Out
<1>2. n # 0 /\ n - 1 \in Nat
  OBVIOUS
<1>3. n - 1 \in T
  BY <1>1, <1>2
<1> QED BY <1>2, <1>3

(* Induction over the variables, from the terminals upwards.               *)
LEMMA BottomUp ==
    ASSUME NEW T, NumVars + 1 \in T, \A v \in Var : v + 1 \in T => v \in T
    PROVE  1 .. NumVars + 1 \subseteq T
<1> DEFINE S == {m \in Nat : m <= NumVars => NumVars + 1 - m \in T}
<1>1. 0 \in S
  BY NumVarsAssumption
<1>2. ASSUME NEW n \in Nat, n \in S
      PROVE  n + 1 \in S
  <2> SUFFICES ASSUME n + 1 <= NumVars PROVE NumVars + 1 - (n + 1) \in T
    OBVIOUS
  <2>1. NumVars + 1 - n \in T
    BY <1>2, NumVarsAssumption
  <2>2. NumVars - n \in Var /\ (NumVars - n) + 1 = NumVars + 1 - n
        /\ NumVars + 1 - (n + 1) = NumVars - n
    BY NumVarsAssumption DEF Var
  <2> QED BY <2>1, <2>2
<1> HIDE DEF S
<1>3. Nat \subseteq S
  BY <1>1, <1>2, Induction
<1>4. ASSUME NEW v \in 1 .. NumVars + 1
      PROVE  v \in T
  <2>1. NumVars + 1 - v \in Nat /\ NumVars + 1 - v <= NumVars
        /\ NumVars + 1 - (NumVars + 1 - v) = v
    BY NumVarsAssumption
  <2> QED BY <1>3, <2>1 DEF S
<1> QED BY <1>4

LEMMA GoodIInv == IInv <=> Good(B) /\ aborted \in BOOLEAN
BY DEF IInv, Good, NodeOK, TypeOK, ValidNodes, TableExact, Reduced

LEMMA BddFields ==
    ASSUME NEW b \in Bdd
    PROVE  /\ b.size \in Nat /\ b.size >= 2 /\ b.size <= Limit
           /\ b.T \in [0 .. Limit - 1 -> Node \cup {NULL}]
           /\ b.H \subseteq Elem
           /\ bdd_node(b) = 0 .. b.size - 1
           /\ bdd_node(b) \subseteq Nat
           /\ bdd_node(b) \subseteq 0 .. Limit - 1
BY LimitAssumption DEF Bdd, bdd_node

(* The fields of a node of a good bdd.                                     *)
LEMMA NodeFields ==
    ASSUME NEW b, Good(b), NEW u \in bdd_node(b)
    PROVE  /\ u \in Nat
           /\ b.T[u].var \in Nat /\ b.T[u].var >= 1 /\ b.T[u].var <= NumVars + 1
           /\ b.T[u].low \in Nat /\ b.T[u].high \in Nat
           /\ u < 2 <=> b.T[u].var = NumVars + 1
           /\ u <= 1 <=> u < 2
           /\ u >= 2 =>
                 /\ b.T[u].var \in Var
                 /\ b.T[u].low \in bdd_node(b) /\ b.T[u].high \in bdd_node(b)
                 /\ b.T[b.T[u].low].var > b.T[u].var
                 /\ b.T[b.T[u].high].var > b.T[u].var
                 /\ b.T[u].low # b.T[u].high
<1>1. u \in Nat
  BY BddFields DEF Good
<1>2. NodeOK(b, u)
  BY DEF Good
<1> DEFINE t == b.T[u]
<1>3. t \in Node
  BY <1>2 DEF NodeOK
<1>4. t.var \in 1 .. NumVars + 1 /\ t.low \in Nat /\ t.high \in Nat
  BY <1>3 DEF Node
<1> QED BY <1>1, <1>2, <1>4, NumVarsAssumption DEF NodeOK, Var

LEMMA NewFields ==
    Good(bdd_new)
<1> DEFINE b == bdd_new
<1>1. /\ b.size = 2 /\ b.H = {}
      /\ b.T = [u \in 0 .. Limit - 1 |-> IF u < 2 THEN Terminal ELSE NULL]
      /\ DOMAIN b = {"size", "T", "H"}
  BY DEF bdd_new
<1>2. Terminal \in Node /\ Terminal.var = NumVars + 1
  BY NumVarsAssumption DEF Terminal, Node
<1>3. b.size \in 2 .. Limit /\ b.T \in [0 .. Limit - 1 -> Node \cup {NULL}] /\ b.H \in SUBSET Elem
  BY <1>1, <1>2, LimitAssumption
<1>4. b \in Bdd
  BY <1>3, LimitAssumption, <1>2 DEF Bdd, bdd_new
<1>5. bdd_node(b) = 0 .. 1
  BY <1>1 DEF bdd_node
<1>6. \A u \in 0 .. 1 : b.T[u] = Terminal
  BY <1>1, LimitAssumption
<1> HIDE DEF b
<1>7. \A u \in bdd_node(b) : NodeOK(b, u)
  BY <1>2, <1>5, <1>6 DEF NodeOK
<1> QED BY <1>1, <1>4, <1>5, <1>7 DEF Good, b

-------------------------------------------------------------------------------
(* What the new node changes.                                              *)
LEMMA AddedFields ==
    ASSUME NEW b, Good(b), NEW a \in Node, b.size < Limit
    PROVE  LET c == AddNode(b, a)
           IN  /\ c \in Bdd
               /\ c.size = b.size + 1
               /\ c.H = b.H \cup {[e_node |-> a, u |-> b.size]}
               /\ c.T[b.size] = a
               /\ \A u \in bdd_node(b) : c.T[u] = b.T[u]
               /\ bdd_node(c) = bdd_node(b) \cup {b.size}
               /\ b.size \notin bdd_node(b)
               /\ b.size >= 2 /\ b.size \in Nat
<1> DEFINE c == AddNode(b, a)
<1>1. b \in Bdd
  BY DEF Good
<1>2. /\ b.size \in Nat /\ b.size >= 2 /\ b.size <= Limit
      /\ b.T \in [0 .. Limit - 1 -> Node \cup {NULL}]
      /\ b.H \subseteq Elem
      /\ bdd_node(b) = 0 .. b.size - 1
  BY <1>1, BddFields
<1>3. /\ c.size = b.size + 1
      /\ c.T = [b.T EXCEPT ![b.size] = a]
      /\ c.H = b.H \cup {[e_node |-> a, u |-> b.size]}
  BY DEF AddNode
<1>4. c.size \in 2 .. Limit
  BY <1>2, <1>3, LimitAssumption
<1>5. c.T \in [0 .. Limit - 1 -> Node \cup {NULL}]
  BY <1>2, <1>3
<1>6. c.H \in SUBSET Elem
  BY <1>2, <1>3 DEF Elem
<1>7. c \in Bdd
  <2>1. c = [size |-> c.size, T |-> c.T, H |-> c.H]
    BY DEF AddNode
  <2> HIDE DEF c
  <2> QED BY <2>1, <1>4, <1>5, <1>6 DEF Bdd
<1>8. bdd_node(c) = 0 .. b.size
  BY <1>2, <1>3 DEF bdd_node
<1>9. c.T[b.size] = a /\ \A u \in 0 .. b.size - 1 : c.T[u] = b.T[u]
  BY <1>2, <1>3, LimitAssumption
<1> HIDE DEF c
<1> QED BY <1>2, <1>3, <1>7, <1>8, <1>9 DEF c

(* The search of the hash table found nothing, and the table has every     *)
(* node: no node is the wanted one.                                        *)
LEMMA AddGood ==
    ASSUME NEW b, Good(b), NEW v, NEW l, NEW h, Callable(b, v, l, h),
           l # h, b.size < Limit, Found(b, v, l, h) = {}
    PROVE  LET c == AddNode(b, Wanted(v, l, h))
           IN  /\ Good(c) /\ Extends(b, c)
               /\ b.size \in bdd_node(c) /\ b.size >= 2
               /\ c.T[b.size] = Wanted(v, l, h)
<1> DEFINE a == Wanted(v, l, h)
           c == AddNode(b, a)
<1>1. /\ v \in Var /\ l \in bdd_node(b) /\ h \in bdd_node(b)
      /\ b.T[l].var > v /\ b.T[h].var > v
      /\ l \in Nat /\ h \in Nat
  BY BddFields DEF Callable, Good
<1>2. a \in Node /\ a.var = v /\ a.low = l /\ a.high = h
  BY <1>1, NumVarsAssumption DEF Wanted, Node, Var
<1>3. \A e \in b.H : e.e_node # a
  BY DEF Found
<1> HIDE DEF a
<1>4. /\ c \in Bdd
      /\ c.H = b.H \cup {[e_node |-> a, u |-> b.size]}
      /\ c.T[b.size] = a
      /\ \A u \in bdd_node(b) : c.T[u] = b.T[u]
      /\ bdd_node(c) = bdd_node(b) \cup {b.size}
      /\ b.size \notin bdd_node(b)
      /\ b.size >= 2 /\ b.size \in Nat
  BY <1>2, AddedFields
<1> HIDE DEF c
<1>5. ASSUME NEW u \in bdd_node(c)
      PROVE  NodeOK(c, u)
  <2>1. CASE u \in bdd_node(b)
    <3>1. NodeOK(b, u) /\ c.T[u] = b.T[u]
      BY <1>4, <2>1 DEF Good
    <3> QED BY <1>4, <3>1 DEF NodeOK
  <2>2. CASE u = b.size
    BY <1>1, <1>2, <1>4, <2>2 DEF NodeOK, Good
  <2> QED BY <1>4, <2>1, <2>2
<1>6. ASSUME NEW e \in c.H
      PROVE  e.u \in bdd_node(c) /\ e.u >= 2 /\ c.T[e.u] = e.e_node
  <2>1. CASE e \in b.H
    BY <1>4, <2>1 DEF Good
  <2>2. CASE e = [e_node |-> a, u |-> b.size]
    BY <1>4, <2>2
  <2> QED BY <1>4, <2>1, <2>2
<1>7. \A u \in bdd_node(b) : u >= 2 => b.T[u] # a
  <2>1. \A u \in bdd_node(b) : u >= 2 => [e_node |-> b.T[u], u |-> u] \in b.H
    BY DEF Good, NodeOK
  <2>2. \A u : [e_node |-> b.T[u], u |-> u].e_node = b.T[u]
    OBVIOUS
  <2> QED BY <1>3, <2>1, <2>2
<1>8. \A u, w \in bdd_node(c) : u >= 2 /\ w >= 2 /\ c.T[u] = c.T[w] => u = w
  BY <1>4, <1>7 DEF Good
<1>9. Good(c)
  BY <1>4, <1>5, <1>6, <1>8 DEF Good
<1> QED BY <1>4, <1>9 DEF Extends, c, a

(* What make does: it returns the common successor, or a node for its      *)
(* arguments, which it found or entered, or it runs out of space.          *)
LEMMA MakeGood ==
    ASSUME NEW b, Good(b), NEW v, NEW l, NEW h, Callable(b, v, l, h)
    PROVE  LET r == make(b, v, l, h)
           IN  /\ Good(r.bdd) /\ Extends(b, r.bdd)
               /\ r.ok \in BOOLEAN /\ r.u \in Nat
               /\ r.ok => /\ r.u \in bdd_node(r.bdd)
                          /\ l = h => r.u = l
                          /\ l # h => r.u >= 2 /\ r.bdd.T[r.u] = Wanted(v, l, h)
<1> DEFINE a == Wanted(v, l, h)
           r == make(b, v, l, h)
           found == CHOOSE e \in Entries(b, a) : TRUE
<1>0. l \in bdd_node(b) /\ l \in Nat /\ b.size \in Nat
  BY BddFields DEF Callable, Good
<1>1. Extends(b, b)
  BY DEF Extends
<1>2. CASE l = h
  <2>1. r = Returns(b, l)
    BY <1>2 DEF make
  <2>2. r.bdd = b /\ r.u = l /\ r.ok = TRUE
    BY <2>1 DEF Returns
  <2> QED BY <1>0, <1>1, <1>2, <2>2
<1>3. CASE l # h /\ \E e \in Entries(b, a) : TRUE
  <2>1. r = Returns(b, found.u)
    BY <1>3 DEF make, Wanted
  <2>2. r.bdd = b /\ r.u = found.u /\ r.ok = TRUE
    BY <2>1 DEF Returns
  <2>3. found \in b.H /\ found.e_node = a
    BY <1>3 DEF Entries
  <2>4. found.u \in bdd_node(b) /\ found.u >= 2 /\ b.T[found.u] = a
    BY <2>3 DEF Good
  <2>5. found.u \in Nat
    BY <2>4, BddFields DEF Good
  <2> QED BY <1>1, <1>3, <2>2, <2>4, <2>5
<1>4. CASE l # h /\ ~ (\E e \in Entries(b, a) : TRUE) /\ b.size < Limit
  <2>1. r = Returns(AddNode(b, a), b.size)
    BY <1>4 DEF make, Wanted
  <2>2. r.bdd = AddNode(b, a) /\ r.u = b.size /\ r.ok = TRUE
    BY <2>1 DEF Returns
  <2>3. Found(b, v, l, h) = {}
    BY <1>4 DEF Found, Entries
  <2> HIDE DEF a, r
  <2>4. /\ Good(r.bdd) /\ Extends(b, r.bdd)
        /\ r.u \in bdd_node(r.bdd) /\ r.u >= 2 /\ r.bdd.T[r.u] = a
    BY <1>4, <2>2, <2>3, AddGood DEF a
  <2> QED BY <1>0, <1>4, <2>2, <2>4 DEF r, a
<1>5. CASE l # h /\ ~ (\E e \in Entries(b, a) : TRUE) /\ ~ (b.size < Limit)
  <2>1. r = Aborts(b)
    BY <1>5 DEF make, Wanted
  <2>2. r.bdd = b /\ r.u = 0 /\ r.ok = FALSE
    BY <2>1 DEF Aborts
  <2> HIDE DEF r
  <2>3. Good(r.bdd) /\ Extends(b, r.bdd) /\ r.u \in Nat
    BY <1>1, <2>2
  <2>4. r.ok \in BOOLEAN /\ ~ r.ok
    BY Zenon, <2>2
  <2> QED BY <2>3, <2>4 DEF r
<1> QED BY <1>2, <1>3, <1>4, <1>5
-------------------------------------------------------------------------------
(* A function of the nodes may be defined by what it is for the terminals  *)
(* and, given its values for the successors, for the other nodes: since    *)
(* variables increase downwards, the equation can be met for the nodes     *)
(* that test no variable before n, whatever n is.                          *)
Follows(b, base, G, f) ==
    \A u \in bdd_node(b) :
        f[u] = IF u <= 1 THEN base[u] ELSE G[<<u, f[b.T[u].low], f[b.T[u].high]>>]

LEMMA NodeRecursion ==
    ASSUME NEW b, Good(b), NEW V, NEW base \in [Bit -> V],
           NEW G \in [bdd_node(b) \X V \X V -> V]
    PROVE  \E f \in [bdd_node(b) -> V] : Follows(b, base, G, f)
<1> DEFINE low(u) == b.T[u].low
           high(u) == b.T[u].high
           testOf(u) == b.T[u].var
           rhs(f, u) == IF u <= 1 THEN base[u] ELSE G[<<u, f[low(u)], f[high(u)]>>]
           HoldsFrom(n, f) == \A u \in bdd_node(b) : testOf(u) >= n => f[u] = rhs(f, u)
           T == {n \in Nat : \E f \in [bdd_node(b) -> V] : HoldsFrom(n, f)}
<1>1. ASSUME NEW u \in bdd_node(b)
      PROVE  /\ u \in Nat /\ testOf(u) \in Nat
             /\ testOf(u) >= 1 /\ testOf(u) <= NumVars + 1
             /\ testOf(u) >= NumVars + 1 => u <= 1
             /\ u <= 1 => u \in Bit
             /\ ~ (u <= 1) => /\ low(u) \in bdd_node(b) /\ testOf(low(u)) > testOf(u)
                              /\ high(u) \in bdd_node(b) /\ testOf(high(u)) > testOf(u)
  <2>1. /\ u \in Nat /\ testOf(u) \in Nat
        /\ testOf(u) >= 1 /\ testOf(u) <= NumVars + 1
        /\ testOf(u) >= NumVars + 1 => u <= 1
        /\ ~ (u <= 1) => u >= 2
    BY NodeFields, NumVarsAssumption
  <2>2. u <= 1 => u \in Bit
    BY <2>1 DEF Bit
  <2>3. ASSUME u >= 2
        PROVE  /\ low(u) \in bdd_node(b) /\ testOf(low(u)) > testOf(u)
               /\ high(u) \in bdd_node(b) /\ testOf(high(u)) > testOf(u)
    BY <2>3, NodeFields
  <2> QED BY <2>1, <2>2, <2>3
<1> HIDE DEF low, high, testOf
<1>2. ASSUME NEW f \in [bdd_node(b) -> V], NEW u \in bdd_node(b)
      PROVE  rhs(f, u) \in V
  BY <1>1
<1>3. NumVars + 1 \in T
  <2> DEFINE f == [u \in bdd_node(b) |-> IF u <= 1 THEN base[u] ELSE base[0]]
  <2>1. f \in [bdd_node(b) -> V]
    BY <1>1 DEF Bit
  <2>2. ASSUME NEW u \in bdd_node(b), testOf(u) >= NumVars + 1
        PROVE  f[u] = rhs(f, u)
    BY <1>1, <2>2
  <2> HIDE DEF f
  <2>3. HoldsFrom(NumVars + 1, f)
    BY <2>2
  <2> HIDE DEF HoldsFrom
  <2> QED BY <2>1, <2>3, NumVarsAssumption
<1>4. ASSUME NEW n \in Var, n + 1 \in T
      PROVE  n \in T
  <2>0. n \in Nat
    BY NumVarsAssumption DEF Var
  <2>1. PICK f \in [bdd_node(b) -> V] : HoldsFrom(n + 1, f)
    BY <1>4
  <2> DEFINE next == [u \in bdd_node(b) |-> IF testOf(u) = n THEN rhs(f, u) ELSE f[u]]
  <2>2. ASSUME NEW u \in bdd_node(b), testOf(u) >= n
        PROVE  next[u] = rhs(next, u)
    <3>1. next[u] = rhs(f, u)
      BY <1>1, <2>0, <2>1, <2>2
    <3>2. ASSUME NEW w \in bdd_node(b), testOf(w) > testOf(u)
          PROVE  next[w] = f[w]
      <4>1. testOf(w) # n
        BY <1>1, <2>0, <2>2, <3>2
      <4> QED BY <4>1
    <3> HIDE DEF next
    <3>3. CASE u <= 1
      BY <3>1, <3>3
    <3>4. CASE ~ (u <= 1)
      <4>1. next[low(u)] = f[low(u)] /\ next[high(u)] = f[high(u)]
        BY <1>1, <3>2, <3>4
      <4> QED BY <3>1, <3>4, <4>1
    <3> QED BY <3>3, <3>4
  <2>3. next \in [bdd_node(b) -> V]
    BY <1>2
  <2> HIDE DEF next
  <2>4. HoldsFrom(n, next)
    BY <2>2
  <2> HIDE DEF HoldsFrom
  <2> QED BY <2>0, <2>3, <2>4
<1>5. PICK f \in [bdd_node(b) -> V] : HoldsFrom(1, f)
  <2>1. 1 .. NumVars + 1 \subseteq T
    <3> HIDE DEF T
    <3> QED BY <1>3, <1>4, BottomUp
  <2>2. 1 \in T
    BY <2>1, NumVarsAssumption
  <2> QED BY <2>2
<1> QED BY <1>1, <1>5 DEF low, high, Follows

(* The value of the nodes.                                                 *)
Branch(b, u, x) == IF x[b.T[u].var] = 0 THEN b.T[u].low ELSE b.T[u].high

LEMMA BranchLater ==
    ASSUME NEW b, Good(b), NEW u \in bdd_node(b), u >= 2, NEW x
    PROVE  Branch(b, u, x) \in bdd_node(b) /\ b.T[Branch(b, u, x)].var > b.T[u].var
BY NodeFields DEF Branch

LEMMA ValueEquation ==
    ASSUME NEW b, Good(b)
    PROVE  \A u \in bdd_node(b), x \in Assignment :
              Value(b)[u][x] = IF u <= 1 THEN u ELSE Value(b)[Branch(b, u, x)][x]
<1> DEFINE rhs(val, u) == [x \in Assignment |->
                              IF u <= 1 THEN u
                              ELSE IF x[b.T[u].var] = 0 THEN val[b.T[u].low][x]
                              ELSE val[b.T[u].high][x]]
           Eq(val) == val = [u \in bdd_node(b) |-> rhs(val, u)]
           V == [Assignment -> Bit]
           base == [u \in Bit |-> [x \in Assignment |-> u]]
           G == [t \in bdd_node(b) \X V \X V |->
                    [x \in Assignment |-> IF x[b.T[t[1]].var] = 0 THEN t[2][x] ELSE t[3][x]]]
<1>1. base \in [Bit -> V] /\ G \in [bdd_node(b) \X V \X V -> V]
  OBVIOUS
<1>2. \A u \in bdd_node(b) : u \in Nat /\ (u <= 1 => u \in Bit)
                             /\ (~ (u <= 1) => b.T[u].low \in bdd_node(b) /\ b.T[u].high \in bdd_node(b))
  BY NodeFields DEF Bit
<1>3. PICK f \in [bdd_node(b) -> V] : Follows(b, base, G, f)
  <2> HIDE DEF V, base, G
  <2> QED BY <1>1, NodeRecursion
<1>4. ASSUME NEW u \in bdd_node(b)
      PROVE  f[u] = rhs(f, u)
  <2>1. CASE u <= 1
    BY <1>2, <1>3, <2>1 DEF Follows
  <2>2. CASE ~ (u <= 1)
    <3>1. f[b.T[u].low] \in V /\ f[b.T[u].high] \in V
      BY <1>2, <2>2
    <3>2. G[<<u, f[b.T[u].low], f[b.T[u].high]>>]
          = [x \in Assignment |-> IF x[b.T[u].var] = 0 THEN f[b.T[u].low][x]
                                  ELSE f[b.T[u].high][x]]
      BY <3>1
    <3> HIDE DEF G, base, V
    <3> QED BY <1>3, <2>2, <3>2 DEF Follows
  <2> QED BY <2>1, <2>2
<1>5. \E val : Eq(val)
  <2>1. f = [u \in bdd_node(b) |-> f[u]]
    OBVIOUS
  <2> HIDE DEF rhs, G, base, V
  <2>2. Eq(f)
    BY <1>4, <2>1
  <2> QED BY <2>2
<1>6. Value(b) = CHOOSE val : Eq(val)
  BY DEF Value
<1> HIDE DEF Eq
<1>7. Eq(Value(b))
  BY <1>5, <1>6
<1>8. ASSUME NEW u \in bdd_node(b)
      PROVE  Value(b)[u] = rhs(Value(b), u)
  <2> HIDE DEF rhs
  <2> QED BY <1>7 DEF Eq
<1>9. ASSUME NEW u \in bdd_node(b), NEW x \in Assignment
      PROVE  Value(b)[u][x] = IF u <= 1 THEN u
                              ELSE IF x[b.T[u].var] = 0 THEN Value(b)[b.T[u].low][x]
                              ELSE Value(b)[b.T[u].high][x]
  <2>1. Value(b)[u][x] = rhs(Value(b), u)[x]
    <3> HIDE DEF rhs
    <3> QED BY <1>8
  <2> QED BY ONLY <2>1, x \in Assignment
<1> QED BY <1>9 DEF Branch

LEMMA ValueBit ==
    ASSUME NEW b, Good(b)
    PROVE  \A u \in bdd_node(b), x \in Assignment : Value(b)[u][x] \in Bit
<1> DEFINE T == {n \in Nat : \A u \in bdd_node(b), x \in Assignment :
                                b.T[u].var >= n => Value(b)[u][x] \in Bit}
<1>1. \A u \in bdd_node(b) : u <= 1 => u \in Bit
  BY NodeFields DEF Bit
<1>2. NumVars + 1 \in T
  <2>1. ASSUME NEW u \in bdd_node(b), NEW x \in Assignment, b.T[u].var >= NumVars + 1
        PROVE  Value(b)[u][x] \in Bit
    <3>1. u <= 1
      BY <2>1, NodeFields, NumVarsAssumption
    <3> QED BY <1>1, <3>1, ValueEquation
  <2> QED BY <2>1, NumVarsAssumption
<1>3. ASSUME NEW n \in Var, n + 1 \in T
      PROVE  n \in T
  <2>1. n \in Nat
    BY NumVarsAssumption DEF Var
  <2>2. ASSUME NEW u \in bdd_node(b), NEW x \in Assignment, b.T[u].var >= n
        PROVE  Value(b)[u][x] \in Bit
    <3>1. CASE u <= 1
      BY <1>1, <3>1, ValueEquation
    <3>2. CASE u >= 2
      <4>1. /\ Branch(b, u, x) \in bdd_node(b)
            /\ b.T[Branch(b, u, x)].var > b.T[u].var
        BY <3>2, BranchLater
      <4>2. b.T[Branch(b, u, x)].var >= n + 1
        BY <2>1, <2>2, <4>1, NodeFields
      <4>3. Value(b)[Branch(b, u, x)][x] \in Bit
        BY <1>3, <4>1, <4>2
      <4>4. ~ (u <= 1)
        BY <3>2, NodeFields
      <4> QED BY <4>3, <4>4, ValueEquation
    <3> QED BY <3>1, <3>2, NodeFields
  <2> QED BY <2>1, <2>2
<1> HIDE DEF T
<1>4. 1 .. NumVars + 1 \subseteq T
  BY <1>2, <1>3, BottomUp
<1>5. 1 \in T /\ \A u \in bdd_node(b) : b.T[u].var >= 1
  BY <1>4, NumVarsAssumption, NodeFields
<1> QED BY <1>5 DEF T

(* A node depends on the variables from its own on.                        *)
AgreeFrom(v, x, y) == \A i \in Var : i >= v => x[i] = y[i]

LEMMA Independent ==
    ASSUME NEW b, Good(b)
    PROVE  \A u \in bdd_node(b), x, y \in Assignment :
              AgreeFrom(b.T[u].var, x, y) => Value(b)[u][x] = Value(b)[u][y]
<1> DEFINE T == {n \in Nat : \A u \in bdd_node(b), x, y \in Assignment :
                                b.T[u].var >= n /\ AgreeFrom(b.T[u].var, x, y)
                                    => Value(b)[u][x] = Value(b)[u][y]}
<1>1. ASSUME NEW u \in bdd_node(b), NEW x \in Assignment, NEW y \in Assignment, u <= 1
      PROVE  Value(b)[u][x] = Value(b)[u][y]
  BY <1>1, ValueEquation
<1>2. NumVars + 1 \in T
  <2>1. ASSUME NEW u \in bdd_node(b), b.T[u].var >= NumVars + 1
        PROVE  u <= 1
    BY <2>1, NodeFields, NumVarsAssumption
  <2> QED BY <1>1, <2>1, NumVarsAssumption
<1>3. ASSUME NEW n \in Var, n + 1 \in T
      PROVE  n \in T
  <2>1. n \in Nat
    BY NumVarsAssumption DEF Var
  <2>2. ASSUME NEW u \in bdd_node(b), NEW x \in Assignment, NEW y \in Assignment,
               b.T[u].var >= n, AgreeFrom(b.T[u].var, x, y)
        PROVE  Value(b)[u][x] = Value(b)[u][y]
    <3>1. CASE u >= 2
      <4> DEFINE w == Branch(b, u, x)
      <4>1. w \in bdd_node(b) /\ b.T[w].var > b.T[u].var
        BY <3>1, BranchLater
      <4>2. b.T[u].var \in Var /\ ~ (u <= 1)
        BY <3>1, NodeFields
      <4>3. w = Branch(b, u, y)
        BY <2>2, <4>2 DEF AgreeFrom, Branch, Var
      <4>4. Value(b)[u][x] = Value(b)[w][x] /\ Value(b)[u][y] = Value(b)[w][y]
        BY <4>2, <4>3, ValueEquation
      <4> HIDE DEF w
      <4>5. b.T[w].var >= n + 1 /\ AgreeFrom(b.T[w].var, x, y)
        BY <2>1, <2>2, <4>1, <4>2, NodeFields DEF AgreeFrom, Var
      <4> QED BY <1>3, <4>1, <4>4, <4>5
    <3> QED BY <1>1, <3>1, NodeFields
  <2> QED BY <2>1, <2>2
<1> HIDE DEF T
<1>4. 1 .. NumVars + 1 \subseteq T
  BY <1>2, <1>3, BottomUp
<1>5. 1 \in T /\ \A u \in bdd_node(b) : b.T[u].var >= 1
  BY <1>4, NumVarsAssumption, NodeFields
<1> QED BY <1>5 DEF T

(* The value of a node, with a bit for the variable it tests, and with a   *)
(* bit for one before.                                                     *)
LEMMA Cofactor ==
    ASSUME NEW b, Good(b), NEW u \in bdd_node(b), u >= 2,
           NEW x \in Assignment, NEW bit \in Bit
    PROVE  LET y == [x EXCEPT ![b.T[u].var] = bit]
           IN  /\ y \in Assignment
               /\ Value(b)[u][y] = Value(b)[IF bit = 0 THEN b.T[u].low ELSE b.T[u].high][x]
<1> DEFINE v == b.T[u].var
           y == [x EXCEPT ![v] = bit]
           w == Branch(b, u, y)
<1>1. v \in Var /\ ~ (u <= 1) /\ v \in Nat
  BY NodeFields
<1>2. y \in Assignment /\ y[v] = bit
  BY <1>1 DEF Assignment
<1>3. w \in bdd_node(b) /\ b.T[w].var > v
  BY BranchLater
<1>4. w = IF bit = 0 THEN b.T[u].low ELSE b.T[u].high
  BY <1>2 DEF Branch
<1>5. Value(b)[u][y] = Value(b)[w][y]
  BY <1>1, <1>2, ValueEquation
<1>6. \A i \in Var : i # v => y[i] = x[i]
  BY DEF Assignment
<1> HIDE DEF v, y, w
<1>7. AgreeFrom(b.T[w].var, y, x)
  BY <1>1, <1>3, <1>6, NodeFields DEF AgreeFrom, Var
<1>8. Value(b)[w][y] = Value(b)[w][x]
  BY <1>2, <1>3, <1>7, Independent
<1> QED BY <1>2, <1>4, <1>5, <1>8 DEF y, v

LEMMA Indifferent ==
    ASSUME NEW b, Good(b), NEW w \in bdd_node(b), NEW v \in Var, b.T[w].var > v,
           NEW x \in Assignment, NEW bit \in Bit
    PROVE  LET y == [x EXCEPT ![v] = bit]
           IN  y \in Assignment /\ Value(b)[w][y] = Value(b)[w][x]
<1> DEFINE y == [x EXCEPT ![v] = bit]
<1>1. y \in Assignment /\ \A i \in Var : i # v => y[i] = x[i]
  BY DEF Assignment
<1> HIDE DEF y
<1>2. AgreeFrom(b.T[w].var, y, x)
  BY <1>1, NodeFields DEF AgreeFrom, Var
<1> QED BY <1>1, <1>2, Independent DEF y

-------------------------------------------------------------------------------
(* Nodes with the same value under every assignment are the same node:     *)
(* they test the same variable, as a node without redundant test depends   *)
(* on its variable; their successors are the same by induction; and the    *)
(* node with these successors is there once.                               *)
Same(b, u, w) == \A x \in Assignment : Value(b)[u][x] = Value(b)[w][x]

LEMMA SameTest ==
    ASSUME NEW b, Good(b), NEW n \in Var,
           \A u, w \in bdd_node(b) :
              b.T[u].var >= n + 1 /\ b.T[w].var >= n + 1 /\ Same(b, u, w) => u = w,
           NEW u \in bdd_node(b), NEW w \in bdd_node(b), Same(b, u, w),
           b.T[u].var = n, b.T[w].var >= n + 1
    PROVE  FALSE
<1>1. u >= 2 /\ n \in Nat
  BY NodeFields, NumVarsAssumption DEF Var
<1>2. /\ b.T[u].low \in bdd_node(b) /\ b.T[b.T[u].low].var >= n + 1
      /\ b.T[u].high \in bdd_node(b) /\ b.T[b.T[u].high].var >= n + 1
      /\ b.T[u].low # b.T[u].high
  BY <1>1, NodeFields
<1>3. 0 \in Bit /\ 1 \in Bit /\ b.T[w].var > n
  BY <1>1, NodeFields DEF Bit
<1>4. ASSUME NEW x \in Assignment, NEW bit \in Bit
      PROVE  Value(b)[IF bit = 0 THEN b.T[u].low ELSE b.T[u].high][x] = Value(b)[w][x]
  <2> DEFINE y == [x EXCEPT ![n] = bit]
  <2>1. /\ y \in Assignment
        /\ Value(b)[u][y] = Value(b)[IF bit = 0 THEN b.T[u].low ELSE b.T[u].high][x]
    BY <1>1, Cofactor
  <2>2. Value(b)[w][y] = Value(b)[w][x]
    BY <1>3, Indifferent
  <2> HIDE DEF y
  <2> QED BY <2>1, <2>2 DEF Same
<1>5. \A x \in Assignment : Value(b)[b.T[u].low][x] = Value(b)[w][x]
  BY <1>3, <1>4
<1>6. \A x \in Assignment : Value(b)[b.T[u].high][x] = Value(b)[w][x]
  BY <1>3, <1>4
<1> QED BY <1>2, <1>5, <1>6 DEF Same

LEMMA SameNode ==
    ASSUME NEW b, Good(b)
    PROVE  \A u, w \in bdd_node(b) : Same(b, u, w) => u = w
<1> DEFINE T == {n \in Nat : \A u, w \in bdd_node(b) :
                    b.T[u].var >= n /\ b.T[w].var >= n /\ Same(b, u, w) => u = w}
<1>1. NumVars + 1 \in T
  <2>1. \A u \in bdd_node(b) : b.T[u].var >= NumVars + 1 => u <= 1
    BY NodeFields, NumVarsAssumption
  <2>2. [i \in Var |-> 0] \in Assignment
    BY DEF Assignment, Bit
  <2>3. \A u, w \in bdd_node(b) : u <= 1 /\ w <= 1 /\ Same(b, u, w) => u = w
    BY <2>2, ValueEquation DEF Same
  <2> QED BY <2>1, <2>3, NumVarsAssumption
<1>2. ASSUME NEW n \in Var, n + 1 \in T
      PROVE  n \in T
  <2>1. n \in Nat
    BY NumVarsAssumption DEF Var
  <2>2. ASSUME NEW u \in bdd_node(b), NEW w \in bdd_node(b),
               b.T[u].var >= n, b.T[w].var >= n, Same(b, u, w)
        PROVE  u = w
    <3>1. b.T[u].var \in Nat /\ b.T[w].var \in Nat /\ Same(b, w, u)
      BY <2>2, NodeFields DEF Same
    <3>2. \A s, t \in bdd_node(b) :
             b.T[s].var >= n + 1 /\ b.T[t].var >= n + 1 /\ Same(b, s, t) => s = t
      BY <1>2
    <3>3. CASE b.T[u].var = n /\ b.T[w].var = n
      <4>1. u >= 2 /\ w >= 2
        BY <3>3, NodeFields, NumVarsAssumption DEF Var
      <4>2. /\ b.T[u].low \in bdd_node(b) /\ b.T[b.T[u].low].var >= n + 1
            /\ b.T[u].high \in bdd_node(b) /\ b.T[b.T[u].high].var >= n + 1
            /\ b.T[w].low \in bdd_node(b) /\ b.T[b.T[w].low].var >= n + 1
            /\ b.T[w].high \in bdd_node(b) /\ b.T[b.T[w].high].var >= n + 1
        BY <2>1, <3>3, <4>1, NodeFields
      <4>3. ASSUME NEW x \in Assignment, NEW bit \in Bit
            PROVE  Value(b)[IF bit = 0 THEN b.T[u].low ELSE b.T[u].high][x]
                   = Value(b)[IF bit = 0 THEN b.T[w].low ELSE b.T[w].high][x]
        <5> DEFINE y == [x EXCEPT ![n] = bit]
        <5>1. /\ y \in Assignment
              /\ Value(b)[u][y] = Value(b)[IF bit = 0 THEN b.T[u].low ELSE b.T[u].high][x]
          BY <3>3, <4>1, Cofactor
        <5>2. Value(b)[w][y] = Value(b)[IF bit = 0 THEN b.T[w].low ELSE b.T[w].high][x]
          BY <3>3, <4>1, Cofactor
        <5> HIDE DEF y
        <5> QED BY <2>2, <5>1, <5>2 DEF Same
      <4>4. b.T[u].low = b.T[w].low
        <5>1. Same(b, b.T[u].low, b.T[w].low)
          BY <4>3 DEF Same, Bit
        <5> QED BY <3>2, <4>2, <5>1
      <4>5. b.T[u].high = b.T[w].high
        <5>1. Same(b, b.T[u].high, b.T[w].high)
          BY <4>3 DEF Same, Bit
        <5> QED BY <3>2, <4>2, <5>1
      <4>6. b.T[u] = b.T[w]
        <5>1. b.T[u] \in Node /\ b.T[w] \in Node
          BY DEF Good, NodeOK
        <5> QED BY <3>3, <4>4, <4>5, <5>1 DEF Node
      <4> QED BY <4>1, <4>6 DEF Good
    <3>4. CASE b.T[u].var = n /\ b.T[w].var # n
      <4>1. b.T[w].var >= n + 1
        BY <2>1, <2>2, <3>1, <3>4
      <4> QED BY <2>2, <3>2, <3>4, <4>1, SameTest
    <3>5. CASE b.T[w].var = n /\ b.T[u].var # n
      <4>1. b.T[u].var >= n + 1
        BY <2>1, <2>2, <3>1, <3>5
      <4> QED BY <3>1, <3>2, <3>5, <4>1, SameTest
    <3>6. CASE b.T[w].var # n /\ b.T[u].var # n
      BY <2>1, <2>2, <3>1, <3>2, <3>6
    <3> QED BY <3>3, <3>4, <3>5, <3>6
  <2> QED BY <2>1, <2>2
<1> HIDE DEF T
<1>3. 1 .. NumVars + 1 \subseteq T
  BY <1>1, <1>2, BottomUp
<1>4. 1 \in T /\ \A u \in bdd_node(b) : b.T[u].var >= 1
  BY <1>3, NumVarsAssumption, NodeFields
<1> QED BY <1>4 DEF T

LEMMA ModelsValue ==
    ASSUME NEW b, Good(b), NEW u \in bdd_node(b), NEW w \in bdd_node(b),
           Models(b, u) = Models(b, w)
    PROVE  Same(b, u, w)
BY ValueBit DEF Models, Same, Bit
(* A node means the same in every bdd that extends its own.                *)
LEMMA ValueStays ==
    ASSUME NEW b, Good(b), NEW c, Good(c), Extends(b, c)
    PROVE  \A u \in bdd_node(b), x \in Assignment : Value(c)[u][x] = Value(b)[u][x]
<1> DEFINE T == {n \in Nat : \A u \in bdd_node(b), x \in Assignment :
                                b.T[u].var >= n => Value(c)[u][x] = Value(b)[u][x]}
<1>1. \A u \in bdd_node(b) : u \in bdd_node(c) /\ c.T[u] = b.T[u]
  BY DEF Extends
<1>2. NumVars + 1 \in T
  <2>1. ASSUME NEW u \in bdd_node(b), NEW x \in Assignment, b.T[u].var >= NumVars + 1
        PROVE  Value(c)[u][x] = Value(b)[u][x]
    <3>1. u <= 1
      BY <2>1, NodeFields, NumVarsAssumption
    <3> QED BY <1>1, <3>1, ValueEquation
  <2> QED BY <2>1, NumVarsAssumption
<1>3. ASSUME NEW n \in Var, n + 1 \in T
      PROVE  n \in T
  <2>1. n \in Nat
    BY NumVarsAssumption DEF Var
  <2>2. ASSUME NEW u \in bdd_node(b), NEW x \in Assignment, b.T[u].var >= n
        PROVE  Value(c)[u][x] = Value(b)[u][x]
    <3>1. CASE u <= 1
      BY <1>1, <3>1, ValueEquation
    <3>2. CASE u >= 2
      <4> DEFINE w == Branch(b, u, x)
      <4>1. w \in bdd_node(b) /\ b.T[w].var > b.T[u].var
        BY <3>2, BranchLater
      <4>2. b.T[w].var >= n + 1 /\ ~ (u <= 1)
        BY <2>1, <2>2, <3>2, <4>1, NodeFields
      <4>3. w = Branch(c, u, x)
        BY <1>1 DEF Branch
      <4>4. Value(b)[u][x] = Value(b)[w][x]
        BY <4>2, ValueEquation
      <4>5. Value(c)[u][x] = Value(c)[w][x]
        BY <1>1, <4>2, <4>3, ValueEquation
      <4> HIDE DEF w
      <4> QED BY <1>3, <4>1, <4>2, <4>4, <4>5
    <3> QED BY <3>1, <3>2, NodeFields
  <2> QED BY <2>1, <2>2
<1> HIDE DEF T
<1>4. 1 .. NumVars + 1 \subseteq T
  BY <1>2, <1>3, BottomUp
<1>5. 1 \in T /\ \A u \in bdd_node(b) : b.T[u].var >= 1
  BY <1>4, NumVarsAssumption, NodeFields
<1> QED BY <1>5 DEF T

LEMMA ExtendsTrans ==
    ASSUME NEW b, NEW c, NEW d, Extends(b, c), Extends(c, d)
    PROVE  Extends(b, d)
BY DEF Extends

-------------------------------------------------------------------------------
(* apply_rec.  What it computes of the nodes of b, and what it has noted.  *)
Computes(b, f, u1, u2, u) ==
    /\ u \in bdd_node(b)
    /\ b.T[u].var >= b.T[u1].var \/ b.T[u].var >= b.T[u2].var
    /\ \A x \in Assignment : Value(b)[u][x] = f[<<Value(b)[u1][x], Value(b)[u2][x]>>]

MemoGood(b, f, S) ==
    /\ S \subseteq ApFun
    /\ \A ap \in S : /\ ap.u1 \in bdd_node(b) /\ ap.u2 \in bdd_node(b)
                     /\ Computes(b, f, ap.u1, ap.u2, ap.u12)

(* The calls it may be given on nodes that test no variable before n.      *)
CallFrom(n, f, c) ==
    /\ c \in ApplyCall
    /\ Good(c.b)
    /\ c.u1 \in bdd_node(c.b) /\ c.b.T[c.u1].var >= n
    /\ c.u2 \in bdd_node(c.b) /\ c.b.T[c.u2].var >= n
    /\ MemoGood(c.b, f, c.S)

(* The results it may give.                                                *)
Answers(f, c, r) ==
    /\ Good(r.bdd)
    /\ Extends(c.b, r.bdd)
    /\ r.ok \in BOOLEAN
    /\ r.ok => MemoGood(r.bdd, f, r.S) /\ Computes(r.bdd, f, c.u1, c.u2, r.u)

Function == [Bit \X Bit -> Bit]

(* What was computed stays so.                                             *)
LEMMA ComputesStays ==
    ASSUME NEW b, Good(b), NEW c, Good(c), Extends(b, c), NEW f,
           NEW u1 \in bdd_node(b), NEW u2 \in bdd_node(b), NEW u, Computes(b, f, u1, u2, u)
    PROVE  Computes(c, f, u1, u2, u)
<1>1. u \in bdd_node(b) /\ u \in bdd_node(c)
  BY DEF Computes, Extends
<1>2. c.T[u] = b.T[u] /\ c.T[u1] = b.T[u1] /\ c.T[u2] = b.T[u2]
  BY <1>1 DEF Extends
<1>3. \A x \in Assignment : /\ Value(c)[u][x] = Value(b)[u][x]
                            /\ Value(c)[u1][x] = Value(b)[u1][x]
                            /\ Value(c)[u2][x] = Value(b)[u2][x]
  BY <1>1, ValueStays
<1> QED BY <1>1, <1>2, <1>3 DEF Computes

LEMMA MemoStays ==
    ASSUME NEW b, Good(b), NEW c, Good(c), Extends(b, c), NEW f, NEW S, MemoGood(b, f, S)
    PROVE  MemoGood(c, f, S)
<1>1. ASSUME NEW ap \in S
      PROVE  /\ ap.u1 \in bdd_node(c) /\ ap.u2 \in bdd_node(c)
             /\ Computes(c, f, ap.u1, ap.u2, ap.u12)
  <2>1. /\ ap.u1 \in bdd_node(b) /\ ap.u2 \in bdd_node(b)
        /\ Computes(b, f, ap.u1, ap.u2, ap.u12)
    BY DEF MemoGood
  <2>2. Computes(c, f, ap.u1, ap.u2, ap.u12)
    BY <2>1, ComputesStays
  <2> QED BY <2>1, <2>2 DEF Extends
<1> QED BY <1>1 DEF MemoGood

(* The successors under a variable that u may test or be after.            *)
LEMMA Successors ==
    ASSUME NEW b, Good(b), NEW u \in bdd_node(b), NEW v \in Var, b.T[u].var >= v
    PROVE  /\ Low(b, u, v) \in bdd_node(b) /\ b.T[Low(b, u, v)].var > v
           /\ High(b, u, v) \in bdd_node(b) /\ b.T[High(b, u, v)].var > v
           /\ \A x \in Assignment :
                 Value(b)[u][x] = Value(b)[IF x[v] = 0 THEN Low(b, u, v) ELSE High(b, u, v)][x]
<1>1. v \in Nat /\ v <= NumVars
  BY NumVarsAssumption DEF Var
<1>2. CASE b.T[u].var = v
  <2>1. u >= 2 /\ ~ (u <= 1)
    BY <1>1, <1>2, NodeFields, NumVarsAssumption
  <2>2. Low(b, u, v) = b.T[u].low /\ High(b, u, v) = b.T[u].high
    BY <1>2 DEF Low, High
  <2>3. \A x : Branch(b, u, x) = IF x[v] = 0 THEN Low(b, u, v) ELSE High(b, u, v)
    BY <1>2, <2>2 DEF Branch
  <2>4. \A x \in Assignment :
           Value(b)[u][x] = Value(b)[IF x[v] = 0 THEN Low(b, u, v) ELSE High(b, u, v)][x]
    BY <2>1, <2>3, ValueEquation
  <2>5. /\ b.T[u].low \in bdd_node(b) /\ b.T[u].high \in bdd_node(b)
        /\ b.T[b.T[u].low].var > v /\ b.T[b.T[u].high].var > v
    BY <1>2, <2>1, NodeFields
  <2> QED BY <2>2, <2>4, <2>5
<1>3. CASE b.T[u].var # v
  <2>1. Low(b, u, v) = u /\ High(b, u, v) = u
    BY <1>3 DEF Low, High
  <2>2. b.T[u].var > v
    BY <1>1, <1>3, NodeFields
  <2> QED BY <2>1, <2>2
<1> QED BY <1>2, <1>3

(* The node that make gives for the two results.                           *)
LEMMA MakeBranches ==
    ASSUME NEW b, Good(b), NEW v, NEW l, NEW h, Callable(b, v, l, h), make(b, v, l, h).ok
    PROVE  LET r == make(b, v, l, h)
           IN  /\ r.u \in bdd_node(r.bdd) /\ r.bdd.T[r.u].var >= v
               /\ \A x \in Assignment :
                     Value(r.bdd)[r.u][x] = Value(r.bdd)[IF x[v] = 0 THEN l ELSE h][x]
<1> DEFINE r == make(b, v, l, h)
           c == r.bdd
<1>1. /\ Good(c) /\ Extends(b, c)
      /\ r.u \in bdd_node(c)
      /\ l = h => r.u = l
      /\ l # h => r.u >= 2 /\ c.T[r.u] = Wanted(v, l, h)
  BY MakeGood
<1>2. /\ v \in Var /\ v \in Nat
      /\ l \in bdd_node(b) /\ b.T[l].var > v
  BY NumVarsAssumption DEF Callable, Var
<1>3. c.T[l] = b.T[l]
  BY <1>1, <1>2 DEF Extends
<1> HIDE DEF r, c
<1>4. CASE l = h
  <2>1. r.u = l /\ c.T[r.u].var > v
    BY <1>1, <1>2, <1>3, <1>4
  <2>2. c.T[r.u].var >= v
    BY <1>1, <1>2, <2>1, NodeFields
  <2> QED BY <1>1, <1>4, <2>1, <2>2 DEF r, c
<1>5. CASE l # h
  <2>1. c.T[r.u].var = v /\ c.T[r.u].low = l /\ c.T[r.u].high = h
    BY <1>1, <1>5 DEF Wanted
  <2>2. ~ (r.u <= 1)
    BY <1>1, <1>5, NodeFields
  <2>3. \A x : Branch(c, r.u, x) = IF x[v] = 0 THEN l ELSE h
    BY <2>1 DEF Branch
  <2>4. \A x \in Assignment : Value(c)[r.u][x] = Value(c)[IF x[v] = 0 THEN l ELSE h][x]
    BY <1>1, <2>2, <2>3, ValueEquation
  <2> QED BY <1>1, <1>2, <2>1, <2>4 DEF r, c
<1> QED BY <1>4, <1>5
(* The first of the two inner calls gives u1, the second u2, in a bdd that *)
(* may have grown meanwhile; l and h are these two in the order make wants *)
(* them.                                                                   *)
LEMMA BodyMakes ==
    ASSUME NEW f, NEW n, NEW c, CallFrom(n, f, c), NEW v \in Var,
           c.b.T[c.u1].var >= v, c.b.T[c.u2].var >= v,
           c.b.T[c.u1].var = v \/ c.b.T[c.u2].var = v,
           NEW d, Good(d), Extends(c.b, d),
           NEW l, Computes(d, f, Low(c.b, c.u1, v), Low(c.b, c.u2, v), l),
           NEW h, Computes(d, f, High(c.b, c.u1, v), High(c.b, c.u2, v), h)
    PROVE  LET r == make(d, v, l, h)
           IN  /\ Good(r.bdd) /\ Extends(c.b, r.bdd) /\ Extends(d, r.bdd)
               /\ r.ok \in BOOLEAN /\ r.u \in Nat
               /\ r.ok => Computes(r.bdd, f, c.u1, c.u2, r.u)
<1> DEFINE r == make(d, v, l, h)
           e == r.bdd
           u1 == c.u1
           u2 == c.u2
           l1 == Low(c.b, u1, v)
           l2 == Low(c.b, u2, v)
           h1 == High(c.b, u1, v)
           h2 == High(c.b, u2, v)
<1>1. /\ Good(c.b) /\ u1 \in bdd_node(c.b) /\ u2 \in bdd_node(c.b)
      /\ v \in Nat
  BY NumVarsAssumption DEF CallFrom, Var
<1>2. /\ l1 \in bdd_node(c.b) /\ c.b.T[l1].var > v
      /\ h1 \in bdd_node(c.b) /\ c.b.T[h1].var > v
      /\ \A x \in Assignment :
            Value(c.b)[u1][x] = Value(c.b)[IF x[v] = 0 THEN l1 ELSE h1][x]
  BY <1>1, Successors
<1>3. /\ l2 \in bdd_node(c.b) /\ c.b.T[l2].var > v
      /\ h2 \in bdd_node(c.b) /\ c.b.T[h2].var > v
      /\ \A x \in Assignment :
            Value(c.b)[u2][x] = Value(c.b)[IF x[v] = 0 THEN l2 ELSE h2][x]
  BY <1>1, Successors
<1> HIDE DEF l1, l2, h1, h2
<1>4. /\ l \in bdd_node(d) /\ d.T[l].var > v
      /\ h \in bdd_node(d) /\ d.T[h].var > v
  <2>1. /\ d.T[l1] = c.b.T[l1] /\ d.T[l2] = c.b.T[l2]
        /\ d.T[h1] = c.b.T[h1] /\ d.T[h2] = c.b.T[h2]
        /\ l1 \in bdd_node(d) /\ l2 \in bdd_node(d)
        /\ h1 \in bdd_node(d) /\ h2 \in bdd_node(d)
    BY <1>2, <1>3 DEF Extends
  <2>2. /\ l \in bdd_node(d) /\ (d.T[l].var >= d.T[l1].var \/ d.T[l].var >= d.T[l2].var)
        /\ h \in bdd_node(d) /\ (d.T[h].var >= d.T[h1].var \/ d.T[h].var >= d.T[h2].var)
    BY DEF Computes, l1, l2, h1, h2
  <2>3. /\ d.T[l].var \in Nat /\ d.T[h].var \in Nat
        /\ d.T[l1].var \in Nat /\ d.T[l2].var \in Nat
        /\ d.T[h1].var \in Nat /\ d.T[h2].var \in Nat
    BY <2>1, <2>2, NodeFields
  <2> QED BY <1>1, <1>2, <1>3, <2>1, <2>2, <2>3
<1>5. Callable(d, v, l, h)
  BY <1>4 DEF Callable
<1>6. Good(e) /\ Extends(d, e) /\ r.ok \in BOOLEAN /\ r.u \in Nat
  BY <1>5, MakeGood
<1>7. Extends(c.b, e)
  BY <1>6, ExtendsTrans
<1>8. ASSUME r.ok
      PROVE  Computes(e, f, u1, u2, r.u)
  <2>1. /\ r.u \in bdd_node(e) /\ e.T[r.u].var >= v
        /\ \A x \in Assignment :
              Value(e)[r.u][x] = Value(e)[IF x[v] = 0 THEN l ELSE h][x]
    BY <1>5, <1>8, MakeBranches
  <2> HIDE DEF r, e
  <2>2. e.T[u1] = c.b.T[u1] /\ e.T[u2] = c.b.T[u2]
    BY <1>1, <1>7 DEF Extends
  <2>3. ASSUME NEW x \in Assignment
        PROVE  Value(e)[r.u][x] = f[<<Value(e)[u1][x], Value(e)[u2][x]>>]
    <3> DEFINE w == IF x[v] = 0 THEN l ELSE h
               w1 == IF x[v] = 0 THEN l1 ELSE h1
               w2 == IF x[v] = 0 THEN l2 ELSE h2
    <3>1. Value(d)[w][x] = f[<<Value(d)[w1][x], Value(d)[w2][x]>>]
      BY DEF Computes, l1, l2, h1, h2
    <3>2. Value(c.b)[u1][x] = Value(c.b)[w1][x] /\ Value(c.b)[u2][x] = Value(c.b)[w2][x]
      BY <1>2, <1>3
    <3>3. Value(e)[r.u][x] = Value(e)[w][x]
      BY <2>1
    <3>4. w1 \in bdd_node(c.b) /\ w2 \in bdd_node(c.b) /\ w \in bdd_node(d)
      BY <1>2, <1>3, <1>4
    <3> HIDE DEF w, w1, w2
    <3>5. Value(e)[w][x] = Value(d)[w][x]
      BY <1>6, <3>4, ValueStays
    <3>6. Value(d)[w1][x] = Value(c.b)[w1][x] /\ Value(d)[w2][x] = Value(c.b)[w2][x]
      BY <1>1, <3>4, ValueStays
    <3>7. Value(e)[u1][x] = Value(c.b)[u1][x] /\ Value(e)[u2][x] = Value(c.b)[u2][x]
      BY <1>1, <1>6, <1>7, ValueStays
    <3> QED BY <3>1, <3>2, <3>3, <3>5, <3>6, <3>7
  <2> HIDE DEF u1, u2
  <2>4. e.T[r.u].var >= e.T[u1].var \/ e.T[r.u].var >= e.T[u2].var
    BY <2>1, <2>2 DEF u1, u2
  <2> QED BY <2>1, <2>3, <2>4 DEF Computes
<1> QED BY <1>6, <1>7, <1>8

(* A result that was noted is right; the other results are noted.          *)
LEMMA BodyAnswers ==
    ASSUME NEW f \in Function, NEW lowFirst \in BOOLEAN, NEW rec, NEW n \in Var,
           \A d : CallFrom(n + 1, f, d) => Answers(f, d, rec[d]),
           NEW c, CallFrom(n, f, c), ~ (c.u1 <= 1 /\ c.u2 <= 1)
    PROVE  Answers(f, c, apply_body(f, lowFirst, rec, c))
<1> DEFINE b == c.b
           u1 == c.u1
           u2 == c.u2
           S == c.S
<1>1. /\ c \in ApplyCall /\ Good(b)
      /\ u1 \in bdd_node(b) /\ b.T[u1].var >= n
      /\ u2 \in bdd_node(b) /\ b.T[u2].var >= n
      /\ MemoGood(b, f, S)
      /\ n \in Nat
  BY NumVarsAssumption DEF CallFrom, Var
<1>2. Extends(b, b)
  BY DEF Extends
<1>3. CASE Memo(S, u1, u2) # {}
  <2> DEFINE ap == CHOOSE ap \in Memo(S, u1, u2) : TRUE
             r == With(Returns(b, ap.u12), S)
  <2>1. apply_body(f, lowFirst, rec, c) = r
    BY <1>3 DEF apply_body
  <2>2. ap \in S /\ ap.u1 = u1 /\ ap.u2 = u2
    BY <1>3 DEF Memo
  <2> HIDE DEF ap
  <2>3. Computes(b, f, u1, u2, ap.u12)
    BY <1>1, <2>2 DEF MemoGood
  <2>4. r.bdd = b /\ r.u = ap.u12 /\ r.ok = TRUE /\ r.S = S
    BY DEF With, Returns
  <2> HIDE DEF r
  <2> QED BY <1>1, <1>2, <2>1, <2>3, <2>4 DEF Answers
<1>4. CASE Memo(S, u1, u2) = {}
  <2> DEFINE v == Top(b, u1, u2)
             low(d, M) == [b |-> d, u1 |-> Low(b, u1, v), u2 |-> Low(b, u2, v), S |-> M]
             high(d, M) == [b |-> d, u1 |-> High(b, u1, v), u2 |-> High(b, u2, v), S |-> M]
  <2>1. /\ v \in Var /\ v >= n /\ v \in Nat
        /\ b.T[u1].var >= v /\ b.T[u2].var >= v
        /\ b.T[u1].var = v \/ b.T[u2].var = v
    <3>1. /\ u1 \in Nat /\ u2 \in Nat /\ b.T[u1].var \in Nat /\ b.T[u2].var \in Nat
          /\ b.T[u1].var >= 1 /\ b.T[u2].var >= 1
          /\ b.T[u1].var <= NumVars + 1 /\ b.T[u2].var <= NumVars + 1
          /\ b.T[u1].var = NumVars + 1 => u1 <= 1
          /\ b.T[u2].var = NumVars + 1 => u2 <= 1
      BY <1>1, NodeFields
    <3>2. ~ (b.T[u1].var = NumVars + 1 /\ b.T[u2].var = NumVars + 1)
      BY <3>1
    <3> HIDE DEF u1, u2, b
    <3> QED BY <1>1, <3>1, <3>2, NumVarsAssumption DEF Top, Var
  <2> HIDE DEF v
  <2>2. /\ Low(b, u1, v) \in bdd_node(b) /\ b.T[Low(b, u1, v)].var > v
        /\ High(b, u1, v) \in bdd_node(b) /\ b.T[High(b, u1, v)].var > v
    BY <1>1, <2>1, Successors
  <2>3. /\ Low(b, u2, v) \in bdd_node(b) /\ b.T[Low(b, u2, v)].var > v
        /\ High(b, u2, v) \in bdd_node(b) /\ b.T[High(b, u2, v)].var > v
    BY <1>1, <2>1, Successors
  <2>4. ASSUME NEW w \in bdd_node(b), b.T[w].var > v, NEW d, Good(d), Extends(b, d)
        PROVE  w \in bdd_node(d) /\ d.T[w].var >= n + 1 /\ w \in Nat
    BY <1>1, <2>1, <2>4, NodeFields DEF Extends
  <2>5. ASSUME NEW d, NEW M, Good(d), Extends(b, d), MemoGood(d, f, M)
        PROVE  CallFrom(n + 1, f, low(d, M)) /\ CallFrom(n + 1, f, high(d, M))
    <3>1. d \in Bdd /\ M \in SUBSET ApFun
      BY <2>5 DEF Good, MemoGood
    <3>2. ASSUME NEW w1 \in bdd_node(b), b.T[w1].var > v, NEW w2 \in bdd_node(b), b.T[w2].var > v
          PROVE  CallFrom(n + 1, f, [b |-> d, u1 |-> w1, u2 |-> w2, S |-> M])
      <4> DEFINE call == [b |-> d, u1 |-> w1, u2 |-> w2, S |-> M]
      <4>1. /\ w1 \in bdd_node(d) /\ d.T[w1].var >= n + 1 /\ w1 \in Nat
            /\ w2 \in bdd_node(d) /\ d.T[w2].var >= n + 1 /\ w2 \in Nat
        BY <2>4, <2>5, <3>2
      <4>2. call \in ApplyCall
        BY <3>1, <4>1 DEF ApplyCall
      <4>3. call.b = d /\ call.u1 = w1 /\ call.u2 = w2 /\ call.S = M
        OBVIOUS
      <4> HIDE DEF call
      <4>4. CallFrom(n + 1, f, call)
        BY <2>5, <4>1, <4>2, <4>3 DEF CallFrom
      <4> QED BY <4>4 DEF call
    <3> QED BY <2>2, <2>3, <3>2
  <2> DEFINE first == IF lowFirst THEN low(b, S) ELSE high(b, S)
             r1 == rec[first]
             second == IF lowFirst THEN high(r1.bdd, r1.S) ELSE low(r1.bdd, r1.S)
             r2 == rec[second]
             l == IF lowFirst THEN r1.u ELSE r2.u
             h == IF lowFirst THEN r2.u ELSE r1.u
             r == make(r2.bdd, v, l, h)
             noted == [u1 |-> u1, u2 |-> u2, u12 |-> r.u]
             body == IF ~ r1.ok THEN r1
                     ELSE IF ~ r2.ok THEN r2
                     ELSE With(r, r2.S \cup {noted})
  <2>6. apply_body(f, lowFirst, rec, c) = body
    BY ZenonT(60), <1>4 DEF apply_body, v
  <2>7. /\ Good(r1.bdd) /\ Extends(b, r1.bdd)
        /\ r1.ok \in BOOLEAN
        /\ r1.ok => /\ MemoGood(r1.bdd, f, r1.S)
                    /\ lowFirst => Computes(r1.bdd, f, Low(b, u1, v), Low(b, u2, v), l)
                    /\ ~ lowFirst => Computes(r1.bdd, f, High(b, u1, v), High(b, u2, v), h)
    <3>1. CASE lowFirst
      <4>1. Answers(f, low(b, S), rec[low(b, S)])
        BY <1>1, <1>2, <2>5
      <4>2. r1 = rec[low(b, S)] /\ l = r1.u
        BY <3>1
      <4> HIDE DEF r1, l
      <4> QED BY <3>1, <4>1, <4>2 DEF Answers
    <3>2. CASE ~ lowFirst
      <4>1. Answers(f, high(b, S), rec[high(b, S)])
        BY <1>1, <1>2, <2>5
      <4>2. r1 = rec[high(b, S)] /\ h = r1.u
        BY <3>2
      <4> HIDE DEF r1, h
      <4> QED BY <3>2, <4>1, <4>2 DEF Answers
    <3> QED BY <3>1, <3>2
  <2> HIDE DEF r1
  <2>8. ASSUME r1.ok
        PROVE  /\ Good(r2.bdd) /\ Extends(r1.bdd, r2.bdd) /\ Extends(b, r2.bdd)
               /\ r2.ok \in BOOLEAN
               /\ r2.ok => /\ MemoGood(r2.bdd, f, r2.S)
                           /\ Computes(r2.bdd, f, Low(b, u1, v), Low(b, u2, v), l)
                           /\ Computes(r2.bdd, f, High(b, u1, v), High(b, u2, v), h)
    <3>1. CASE lowFirst
      <4> DEFINE call == high(r1.bdd, r1.S)
      <4>1. Answers(f, call, rec[call])
        BY <2>5, <2>7, <2>8
      <4>2. call.b = r1.bdd /\ call.u1 = High(b, u1, v) /\ call.u2 = High(b, u2, v)
        OBVIOUS
      <4>3. r2 = rec[call] /\ h = r2.u
        BY <3>1
      <4> HIDE DEF r2, call, l, h
      <4>4. /\ Good(r2.bdd) /\ Extends(r1.bdd, r2.bdd) /\ r2.ok \in BOOLEAN
            /\ r2.ok => /\ MemoGood(r2.bdd, f, r2.S)
                        /\ Computes(r2.bdd, f, High(b, u1, v), High(b, u2, v), h)
        BY <4>1, <4>2, <4>3 DEF Answers
      <4>5. Low(b, u1, v) \in bdd_node(r1.bdd) /\ Low(b, u2, v) \in bdd_node(r1.bdd)
        BY <2>2, <2>3, <2>7 DEF Extends
      <4>6. Computes(r2.bdd, f, Low(b, u1, v), Low(b, u2, v), l)
        BY <2>7, <2>8, <3>1, <4>4, <4>5, ComputesStays
      <4> QED BY <2>7, <4>4, <4>6, ExtendsTrans
    <3>2. CASE ~ lowFirst
      <4> DEFINE call == low(r1.bdd, r1.S)
      <4>1. Answers(f, call, rec[call])
        BY <2>5, <2>7, <2>8
      <4>2. call.b = r1.bdd /\ call.u1 = Low(b, u1, v) /\ call.u2 = Low(b, u2, v)
        OBVIOUS
      <4>3. r2 = rec[call] /\ l = r2.u
        BY <3>2
      <4> HIDE DEF r2, call, l, h
      <4>4. /\ Good(r2.bdd) /\ Extends(r1.bdd, r2.bdd) /\ r2.ok \in BOOLEAN
            /\ r2.ok => /\ MemoGood(r2.bdd, f, r2.S)
                        /\ Computes(r2.bdd, f, Low(b, u1, v), Low(b, u2, v), l)
        BY <4>1, <4>2, <4>3 DEF Answers
      <4>5. High(b, u1, v) \in bdd_node(r1.bdd) /\ High(b, u2, v) \in bdd_node(r1.bdd)
        BY <2>2, <2>3, <2>7 DEF Extends
      <4>6. Computes(r2.bdd, f, High(b, u1, v), High(b, u2, v), h)
        BY <2>7, <2>8, <3>2, <4>4, <4>5, ComputesStays
      <4> QED BY <2>7, <4>4, <4>6, ExtendsTrans
    <3> QED BY <3>1, <3>2
  <2> HIDE DEF r2, l, h
  <2>9. CASE ~ r1.ok
    <3>1. body = r1
      BY <2>9
    <3> HIDE DEF body
    <3> QED BY <2>6, <2>7, <2>9, <3>1 DEF Answers
  <2>10. CASE r1.ok /\ ~ r2.ok
    <3>1. body = r2
      BY <2>10
    <3> HIDE DEF body
    <3> QED BY <2>6, <2>8, <2>10, <3>1 DEF Answers
  <2>11. CASE r1.ok /\ r2.ok
    <3>1. /\ Good(r.bdd) /\ Extends(b, r.bdd) /\ Extends(r2.bdd, r.bdd)
          /\ r.ok \in BOOLEAN /\ r.u \in Nat
          /\ r.ok => Computes(r.bdd, f, u1, u2, r.u)
      BY <2>1, <2>8, <2>11, BodyMakes
    <3>2. body = With(r, r2.S \cup {noted})
      BY <2>11
    <3>3. body.bdd = r.bdd /\ body.ok = r.ok /\ body.u = r.u /\ body.S = r2.S \cup {noted}
      BY <3>2 DEF With
    <3> HIDE DEF body, r
    <3>4. ASSUME r.ok
          PROVE  MemoGood(r.bdd, f, r2.S \cup {noted})
      <4>1. MemoGood(r.bdd, f, r2.S)
        BY <2>8, <2>11, <3>1, MemoStays
      <4>2. noted.u1 = u1 /\ noted.u2 = u2 /\ noted.u12 = r.u
        OBVIOUS
      <4>3. u1 \in Nat /\ u2 \in Nat
        BY <1>1, NodeFields
      <4>4. noted \in ApFun
        BY <3>1, <4>3 DEF ApFun
      <4>5. u1 \in bdd_node(r.bdd) /\ u2 \in bdd_node(r.bdd)
        BY <1>1, <3>1 DEF Extends
      <4> HIDE DEF noted, u1, u2
      <4> QED BY <3>1, <3>4, <4>1, <4>2, <4>4, <4>5 DEF MemoGood
    <3> HIDE DEF noted
    <3> QED BY <2>6, <3>1, <3>3, <3>4 DEF Answers
  <2> QED BY <2>7, <2>8, <2>9, <2>10, <2>11
<1> QED BY <1>3, <1>4
(* The recursion of apply_rec, of any depth m.                             *)
Terminal_result(f, c) == With(Returns(c.b, f[<<c.u1, c.u2>>]), c.S)

RecEq(m, f, lowFirst, rec) ==
    rec = [n \in 0 .. m |->
              [c \in ApplyCall |->
                  IF n = 0 \/ (c.u1 <= 1 /\ c.u2 <= 1) THEN Terminal_result(f, c)
                  ELSE apply_body(f, lowFirst, rec[n - 1], c)]]

LEMMA RecExists ==
    ASSUME NEW f, NEW lowFirst, NEW m \in Nat
    PROVE  \E rec : RecEq(m, f, lowFirst, rec)
<1> DEFINE T == {k \in Nat : \E rec : RecEq(k, f, lowFirst, rec)}
           turn(n, before) ==
               [c \in ApplyCall |->
                   IF n = 0 \/ (c.u1 <= 1 /\ c.u2 <= 1) THEN Terminal_result(f, c)
                   ELSE apply_body(f, lowFirst, before, c)]
<1>1. \A k, rec : RecEq(k, f, lowFirst, rec) <=> rec = [n \in 0 .. k |-> turn(n, rec[n - 1])]
  BY DEF RecEq
<1>2. \A before, other : turn(0, before) = turn(0, other)
  OBVIOUS
<1> HIDE DEF turn
<1>3. 0 \in T
  <2> DEFINE rec == [n \in 0 .. 0 |-> turn(0, 0)]
  <2>1. rec = [n \in 0 .. 0 |-> turn(n, rec[n - 1])]
    BY <1>2
  <2> HIDE DEF rec
  <2> QED BY <1>1, <2>1
<1>4. ASSUME NEW k \in Nat, k \in T
      PROVE  k + 1 \in T
  <2>1. PICK rec : rec = [n \in 0 .. k |-> turn(n, rec[n - 1])]
    BY <1>1, <1>4
  <2> DEFINE next == [n \in 0 .. k + 1 |-> IF n <= k THEN rec[n] ELSE turn(n, rec[k])]
  <2>2. ASSUME NEW n \in 0 .. k + 1
        PROVE  next[n] = turn(n, next[n - 1])
    <3>1. CASE n = 0
      BY <1>2, <2>1, <3>1
    <3>2. CASE n \in 1 .. k
      <4>1. next[n] = rec[n] /\ rec[n] = turn(n, rec[n - 1])
        BY <2>1, <3>2
      <4>2. next[n - 1] = rec[n - 1]
        BY <3>2
      <4> QED BY <4>1, <4>2
    <3>3. CASE n = k + 1
      <4>1. next[n] = turn(n, rec[k]) /\ next[n - 1] = rec[k]
        BY <3>3
      <4> QED BY <4>1
    <3> QED BY <3>1, <3>2, <3>3
  <2>3. next = [n \in 0 .. k + 1 |-> turn(n, next[n - 1])]
    <3>1. next = [n \in 0 .. k + 1 |-> next[n]]
      OBVIOUS
    <3> HIDE DEF next
    <3> QED BY <2>2, <3>1
  <2> HIDE DEF next
  <2>4. RecEq(k + 1, f, lowFirst, next)
    BY <1>1, <2>3
  <2> QED BY <2>4
<1> HIDE DEF T
<1>5. Nat \subseteq T
  BY <1>3, <1>4, Induction
<1> QED BY <1>5 DEF T

LEMMA TerminalAnswers ==
    ASSUME NEW f \in Function, NEW n, NEW c, CallFrom(n, f, c), c.u1 <= 1, c.u2 <= 1
    PROVE  Answers(f, c, Terminal_result(f, c))
<1> DEFINE b == c.b
           bit == f[<<c.u1, c.u2>>]
           r == Terminal_result(f, c)
<1>1. /\ Good(b) /\ MemoGood(b, f, c.S)
      /\ c.u1 \in bdd_node(b) /\ c.u2 \in bdd_node(b)
  BY DEF CallFrom
<1>2. b.size \in Nat /\ b.size >= 2 /\ bdd_node(b) = 0 .. b.size - 1
  BY <1>1, BddFields DEF Good
<1>3. c.u1 \in Bit /\ c.u2 \in Bit
  BY <1>1, <1>2 DEF Bit
<1>4. bit \in Bit
  BY <1>3 DEF Function
<1>5. bit \in bdd_node(b) /\ bit <= 1
  BY <1>2, <1>4 DEF Bit
<1>6. r.bdd = b /\ r.u = bit /\ r.ok = TRUE /\ r.S = c.S
  BY DEF Terminal_result, With, Returns
<1> HIDE DEF r
<1>7. b.T[bit].var >= b.T[c.u1].var
  BY <1>1, <1>5, NodeFields, NumVarsAssumption
<1>8. ASSUME NEW x \in Assignment
      PROVE  Value(b)[bit][x] = f[<<Value(b)[c.u1][x], Value(b)[c.u2][x]>>]
  BY <1>1, <1>5, ValueEquation
<1>9. Computes(b, f, c.u1, c.u2, bit)
  BY <1>5, <1>7, <1>8 DEF Computes
<1>10. Extends(b, b)
  BY DEF Extends
<1> QED BY <1>1, <1>6, <1>9, <1>10 DEF Answers, r

LEMMA RecAnswers ==
    ASSUME NEW f \in Function, NEW lowFirst \in BOOLEAN, NEW rec,
           RecEq(NumVars, f, lowFirst, rec)
    PROVE  \A n \in 0 .. NumVars : \A c :
              CallFrom(NumVars + 1 - n, f, c) => Answers(f, c, rec[n][c])
<1> DEFINE T == {n \in Nat : n <= NumVars =>
                    \A c : CallFrom(NumVars + 1 - n, f, c) => Answers(f, c, rec[n][c])}
<1>1. ASSUME NEW n \in 0 .. NumVars, NEW c \in ApplyCall
      PROVE  rec[n][c] = IF n = 0 \/ (c.u1 <= 1 /\ c.u2 <= 1) THEN Terminal_result(f, c)
                         ELSE apply_body(f, lowFirst, rec[n - 1], c)
  <2> DEFINE result(i, d) == IF i = 0 \/ (d.u1 <= 1 /\ d.u2 <= 1) THEN Terminal_result(f, d)
                             ELSE apply_body(f, lowFirst, rec[i - 1], d)
  <2>1. rec = [i \in 0 .. NumVars |-> [d \in ApplyCall |-> result(i, d)]]
    BY DEF RecEq
  <2> HIDE DEF result
  <2>2. rec[n][c] = result(n, c)
    BY <2>1
  <2> QED BY <2>2 DEF result
<1>2. ASSUME NEW n \in Nat, n <= NumVars, NEW c, CallFrom(NumVars + 1 - n, f, c),
             n = 0 \/ (c.u1 <= 1 /\ c.u2 <= 1)
      PROVE  Answers(f, c, rec[n][c])
  <2>1. c \in ApplyCall
    BY <1>2 DEF CallFrom
  <2>2. c.u1 <= 1 /\ c.u2 <= 1
    <3>1. CASE n = 0
      <4>1. /\ Good(c.b)
            /\ c.u1 \in bdd_node(c.b) /\ c.b.T[c.u1].var >= NumVars + 1
            /\ c.u2 \in bdd_node(c.b) /\ c.b.T[c.u2].var >= NumVars + 1
        BY <1>2, <3>1, NumVarsAssumption DEF CallFrom
      <4> QED BY <4>1, NodeFields, NumVarsAssumption
    <3> QED BY <1>2, <3>1
  <2>3. rec[n][c] = Terminal_result(f, c)
    BY <1>1, <1>2, <2>1, NumVarsAssumption
  <2> QED BY <1>2, <2>2, <2>3, TerminalAnswers
<1>3. 0 \in T
  BY <1>2, NumVarsAssumption
<1>4. ASSUME NEW n \in Nat, n \in T
      PROVE  n + 1 \in T
  <2> SUFFICES ASSUME n + 1 <= NumVars, NEW c, CallFrom(NumVars + 1 - (n + 1), f, c)
               PROVE  Answers(f, c, rec[n + 1][c])
    OBVIOUS
  <2>1. CASE c.u1 <= 1 /\ c.u2 <= 1
    BY <1>2, <2>1
  <2>2. CASE ~ (c.u1 <= 1 /\ c.u2 <= 1)
    <3> DEFINE v == NumVars + 1 - (n + 1)
    <3>1. v \in Var /\ v + 1 = NumVars + 1 - n
      BY NumVarsAssumption DEF Var
    <3>2. \A d : CallFrom(NumVars + 1 - n, f, d) => Answers(f, d, rec[n][d])
      BY <1>4, NumVarsAssumption
    <3>3. c \in ApplyCall
      BY DEF CallFrom
    <3>4. rec[n + 1][c] = apply_body(f, lowFirst, rec[n], c)
      <4>1. n + 1 \in 0 .. NumVars /\ n + 1 # 0 /\ (n + 1) - 1 = n
        BY NumVarsAssumption
      <4> QED BY <1>1, <2>2, <3>3, <4>1
    <3> HIDE DEF v
    <3>5. \A d : CallFrom(v + 1, f, d) => Answers(f, d, rec[n][d])
      BY <3>1, <3>2
    <3>6. CallFrom(v, f, c)
      BY DEF v
    <3> QED BY <2>2, <3>1, <3>4, <3>5, <3>6, BodyAnswers
  <2> QED BY <2>1, <2>2
<1> HIDE DEF T
<1>5. Nat \subseteq T
  BY <1>3, <1>4, Induction
<1> QED BY <1>5, NumVarsAssumption DEF T

(* apply, in any good bdd.                                                 *)
LEMMA ApplyAnswers ==
    ASSUME NEW f \in Function, NEW lowFirst \in BOOLEAN, NEW b, Good(b),
           NEW u1 \in bdd_node(b), NEW u2 \in bdd_node(b)
    PROVE  LET r == apply(b, f, u1, u2, lowFirst)
           IN  /\ Good(r.bdd) /\ Extends(b, r.bdd) /\ r.ok \in BOOLEAN
               /\ r.ok => Computes(r.bdd, f, u1, u2, r.u)
<1> DEFINE Eq(rec) ==
               rec = [n \in 0 .. NumVars |->
                         [c \in ApplyCall |->
                             IF n = 0 \/ (c.u1 <= 1 /\ c.u2 <= 1)
                             THEN With(Returns(c.b, f[<<c.u1, c.u2>>]), c.S)
                             ELSE apply_body(f, lowFirst, rec[n - 1], c)]]
           rec == CHOOSE rec : Eq(rec)
           c == [b |-> b, u1 |-> u1, u2 |-> u2, S |-> {}]
           r == apply(b, f, u1, u2, lowFirst)
<1>1. \A a : Eq(a) <=> RecEq(NumVars, f, lowFirst, a)
  BY DEF RecEq, Terminal_result
<1>2. apply_rec(f, lowFirst) = rec[NumVars]
  BY DEF apply_rec
<1>3. \E a : Eq(a)
  <2>1. PICK a : RecEq(NumVars, f, lowFirst, a)
    BY RecExists, NumVarsAssumption
  <2> HIDE DEF Eq
  <2> QED BY <1>1, <2>1
<1> HIDE DEF Eq
<1>4. RecEq(NumVars, f, lowFirst, rec)
  BY <1>1, <1>3
<1> HIDE DEF rec
<1>5. r = rec[NumVars][c]
  BY <1>2 DEF apply
<1>6. c.b = b /\ c.u1 = u1 /\ c.u2 = u2 /\ c.S = {}
  OBVIOUS
<1>7. c \in ApplyCall
  BY NodeFields DEF ApplyCall, Good
<1> HIDE DEF c, r
<1>8. MemoGood(b, f, {})
  BY DEF MemoGood
<1>9. CallFrom(1, f, c)
  BY <1>6, <1>7, <1>8, NodeFields DEF CallFrom
<1>10. NumVars + 1 - NumVars = 1 /\ NumVars \in 0 .. NumVars
  BY NumVarsAssumption
<1>11. Answers(f, c, r)
  BY <1>4, <1>5, <1>9, <1>10, RecAnswers
<1> QED BY <1>6, <1>11 DEF Answers, r

LEMMA Functions == my_and \in Function /\ my_xor \in Function
BY DEF my_and, my_xor, Function, Bit

-------------------------------------------------------------------------------
(* Every call leaves a good bdd with the nodes that were there.            *)
LEMMA StepGood ==
    ASSUME Good(B), BddNext
    PROVE  Good(B') /\ Extends(B, B') /\ aborted' \in BOOLEAN
<1>1. ASSUME NEW v, NEW l, NEW h, Make(v, l, h)
      PROVE  Good(B') /\ Extends(B, B') /\ aborted' \in BOOLEAN
  <2>1. Callable(B, v, l, h) /\ B' = make(B, v, l, h).bdd /\ aborted' = ~ make(B, v, l, h).ok
    BY <1>1 DEF Make, Call
  <2> QED BY <2>1, MakeGood
<1>2. ASSUME NEW f \in {my_and, my_xor}, NEW u1 \in bdd_node(B), NEW u2 \in bdd_node(B),
             NEW lowFirst \in BOOLEAN, Apply(f, u1, u2, lowFirst)
      PROVE  Good(B') /\ Extends(B, B') /\ aborted' \in BOOLEAN
  <2>1. B' = apply(B, f, u1, u2, lowFirst).bdd /\ aborted' = ~ apply(B, f, u1, u2, lowFirst).ok
    BY <1>2 DEF Apply, Call
  <2>2. f \in Function
    BY Functions
  <2> QED BY <2>1, <2>2, ApplyAnswers
<1> QED BY <1>1, <1>2 DEF BddNext, Next

LEMMA Inductive == BddSpec => []IInv
<1>1. Init => IInv
  BY NewFields, GoodIInv DEF Init
<1>2. IInv /\ [BddNext]_vars => IInv'
  <2> SUFFICES ASSUME IInv, [BddNext]_vars PROVE IInv'
    OBVIOUS
  <2>1. Good(B) /\ aborted \in BOOLEAN
    BY GoodIInv
  <2>2. Good(B)' /\ aborted' \in BOOLEAN
    <3>1. CASE BddNext
      <4>1. Good(B') /\ aborted' \in BOOLEAN
        BY <2>1, <3>1, StepGood
      <4> QED BY <4>1 DEF Good, NodeOK, bdd_node
    <3>2. CASE UNCHANGED vars
      BY <2>1, <3>2 DEF vars, Good, NodeOK, bdd_node
    <3> QED BY <3>1, <3>2
  <2> QED BY <2>2, GoodIInv DEF IInv, Good, NodeOK, TypeOK, ValidNodes, TableExact, Reduced, bdd_node
<1> QED BY <1>1, <1>2, PTL DEF BddSpec
-------------------------------------------------------------------------------
(* Powers of two, which the prover knows only as numbers of subsets.       *)
LEMMA PowerCounts ==
    ASSUME NEW n \in Nat
    PROVE  /\ IsFiniteSet(SUBSET (1 .. n))
           /\ Cardinality(SUBSET (1 .. n)) = 2 ^ n
           /\ 2 ^ n \in Nat
<1>1. IsFiniteSet(1 .. n) /\ Cardinality(1 .. n) = n
  BY FS_Interval
<1>2. IsFiniteSet(SUBSET (1 .. n)) /\ Cardinality(SUBSET (1 .. n)) = 2 ^ n
  BY <1>1, FS_SUBSET
<1> QED BY <1>2, FS_CardinalityType

LEMMA SameSize ==
    ASSUME NEW S, IsFiniteSet(S), NEW R, NEW f \in [S -> R],
           \A a, c \in S : f[a] = f[c] => a = c,
           \A t \in R : \E s \in S : f[s] = t
    PROVE  IsFiniteSet(R) /\ Cardinality(R) = Cardinality(S)
<1>1. f \in Injection(S, R)
  BY DEF Injection, IsInjective
<1>2. f \in Surjection(S, R)
  BY DEF Surjection
<1>3. ExistsBijection(S, R)
  BY <1>1, <1>2 DEF ExistsBijection, Bijection
<1> QED BY <1>3, FS_Bijection

LEMMA PowerStep ==
    ASSUME NEW n \in Nat
    PROVE  2 ^ (n + 1) = 2 * 2 ^ n
<1> DEFINE S == SUBSET (1 .. n)
           R == {A \in SUBSET (1 .. n + 1) : n + 1 \in A}
           f == [A \in S |-> A \cup {n + 1}]
           U == SUBSET (1 .. n + 1)
           p == 2 ^ n
           q == 2 ^ (n + 1)
<1>1. IsFiniteSet(S) /\ Cardinality(S) = p /\ p \in Nat
  BY PowerCounts
<1>2. IsFiniteSet(R) /\ Cardinality(R) = p
  <2>1. \A A \in S : n + 1 \notin A
    OBVIOUS
  <2>2. f \in [S -> R]
    OBVIOUS
  <2>3. \A A, C \in S : f[A] = f[C] => A = C
    BY <2>1
  <2>4. \A A \in R : \E C \in S : f[C] = A
    <3> SUFFICES ASSUME NEW A \in R PROVE \E C \in S : f[C] = A
      OBVIOUS
    <3>1. A \ {n + 1} \in S
      OBVIOUS
    <3>2. f[A \ {n + 1}] = A
      BY <3>1
    <3> QED BY <3>1, <3>2
  <2> HIDE DEF S, R, f
  <2> QED BY <1>1, <2>2, <2>3, <2>4, SameSize
<1>3. U = S \cup R /\ S \cap R = {}
  OBVIOUS
<1>4. Cardinality(U) = q /\ q \in Nat
  <2>1. n + 1 \in Nat
    OBVIOUS
  <2> QED BY <2>1, PowerCounts
<1> HIDE DEF S, R, U, p, q
<1>5. Cardinality(S \cup R) = p + p - 0
  <2>1. Cardinality(S \cup R) = Cardinality(S) + Cardinality(R) - Cardinality(S \cap R)
    BY <1>1, <1>2, FS_Union
  <2> QED BY <1>1, <1>2, <1>3, <2>1, FS_EmptySet
<1>6. q = 2 * p
  BY <1>1, <1>3, <1>4, <1>5
<1> QED BY <1>6 DEF p, q

LEMMA PowerPositive ==
    \A n \in Nat : 2 ^ n \in Nat /\ 2 ^ n >= 1
<1> DEFINE T == {n \in Nat : 2 ^ n >= 1}
<1>1. 0 \in T
  OBVIOUS
<1>2. \A n \in Nat : 2 ^ n \in Nat
  BY PowerCounts
<1>3. ASSUME NEW n \in Nat, n \in T
      PROVE  n + 1 \in T
  BY <1>2, <1>3, PowerStep
<1> HIDE DEF T
<1>4. Nat \subseteq T
  BY <1>1, <1>3, Induction
<1> QED BY <1>2, <1>4 DEF T

LEMMA PowerSum ==
    ASSUME NEW m \in Nat
    PROVE  \A n \in Nat : 2 ^ (m + n) = 2 ^ m * 2 ^ n
<1> DEFINE T == {n \in Nat : 2 ^ (m + n) = 2 ^ m * 2 ^ n}
<1>0. 2 ^ m \in Nat
  BY PowerPositive
<1>1. 0 \in T
  <2>1. 2 ^ 0 = 1 /\ m + 0 = m
    OBVIOUS
  <2> QED BY <1>0, <2>1
<1>2. ASSUME NEW n \in Nat, n \in T
      PROVE  n + 1 \in T
  <2> DEFINE p == 2 ^ m
             q == 2 ^ n
  <2>1. 2 ^ (m + n) = p * q
    BY <1>2
  <2>2. 2 ^ (m + (n + 1)) = 2 * 2 ^ (m + n)
    <3>1. m + (n + 1) = (m + n) + 1 /\ m + n \in Nat
      OBVIOUS
    <3> QED BY <3>1, PowerStep
  <2>3. 2 ^ (n + 1) = 2 * q
    BY PowerStep
  <2>4. p \in Nat /\ q \in Nat
    BY PowerPositive
  <2> HIDE DEF p, q
  <2>5. 2 * (p * q) = p * (2 * q)
    BY <2>4
  <2>6. 2 ^ (m + (n + 1)) = p * 2 ^ (n + 1)
    BY <2>1, <2>2, <2>3, <2>5
  <2> QED BY <2>6 DEF p
<1> HIDE DEF T
<1>3. Nat \subseteq T
  BY <1>1, <1>2, Induction
<1> QED BY <1>3 DEF T

LEMMA PowerGrows ==
    ASSUME NEW m \in Nat, NEW n \in Nat, m <= n
    PROVE  2 ^ m <= 2 ^ n
<1> DEFINE p == 2 ^ m
           q == 2 ^ (n - m)
<1>1. 2 ^ (m + (n - m)) = p * q /\ m + (n - m) = n
  BY PowerSum
<1>2. p \in Nat /\ q \in Nat /\ q >= 1
  BY PowerPositive
<1> HIDE DEF p, q
<1>3. p <= p * q
  BY <1>2
<1> QED BY <1>1, <1>3 DEF p

-------------------------------------------------------------------------------
(* The counts are cut off where an int ends.                               *)
Capped(m) == IF m > INT_MAX THEN Overflow ELSE m

LEMMA IntMax == INT_MAX \in Nat /\ INT_MAX >= 1 /\ INT_MAX < 2 ^ IntBits
<1>1. IntBits - 1 \in Nat /\ 1 \in Nat /\ 1 <= IntBits - 1 /\ IntBits \in Nat
  BY IntBitsAssumption
<1>2. 2 ^ 1 = 2
  OBVIOUS
<1>3. 2 ^ 1 <= 2 ^ (IntBits - 1)
  BY <1>1, PowerGrows
<1>4. 2 ^ ((IntBits - 1) + 1) = 2 * 2 ^ (IntBits - 1) /\ (IntBits - 1) + 1 = IntBits
  BY <1>1, PowerStep
<1>5. 2 ^ (IntBits - 1) \in Nat
  BY <1>1, PowerPositive
<1> QED BY <1>2, <1>3, <1>4, <1>5 DEF INT_MAX

LEMMA Division ==
    ASSUME NEW m \in Nat, NEW n \in Nat, NEW p \in Nat, p >= 1
    PROVE  m > n \div p <=> m * p > n
<1> DEFINE q == n \div p
<1>1. q \in Nat /\ q * p <= n /\ n < (q + 1) * p
  OBVIOUS
<1> HIDE DEF q
<1>2. CASE m > q
  <2>1. m * p >= (q + 1) * p
    BY <1>1, <1>2
  <2> QED BY <1>1, <1>2, <2>1 DEF q
<1>3. CASE ~ (m > q)
  <2>1. m * p <= q * p
    BY <1>1, <1>3
  <2> QED BY <1>1, <1>3, <2>1 DEF q
<1> QED BY <1>2, <1>3

LEMMA ShiftCapped ==
    ASSUME NEW m \in Nat, NEW k \in Nat
    PROVE  safe_shiftl(Capped(m), k) = Capped(m * 2 ^ k)
<1> DEFINE p == 2 ^ k
           M == INT_MAX
<1>1. p \in Nat /\ p >= 1 /\ M \in Nat /\ IntBits \in Nat
  BY PowerPositive, IntMax, IntBitsAssumption
<1>2. m * p \in Nat
  BY <1>1
<1>3. CASE m > M
  <2>1. m * p >= m
    BY <1>1
  <2>2. m * p > M
    BY <1>1, <1>2, <1>3, <2>1
  <2>3. Capped(m) = Overflow /\ Capped(m * p) = Overflow
    BY <1>3, <2>2 DEF Capped
  <2> QED BY <2>3 DEF safe_shiftl
<1>4. CASE ~ (m > M)
  <2>1. Capped(m) = m /\ m # Overflow
    BY <1>4 DEF Capped, Overflow
  <2>2. m > M \div p <=> m * p > M
    BY <1>1, Division
  <2>3. CASE m > 0 /\ k >= IntBits
    <3>1. 2 ^ IntBits <= p
      BY <1>1, <2>3, PowerGrows
    <3>2. p > M
      BY <1>1, <3>1, IntMax, PowerPositive
    <3>3. m * p >= p
      BY <1>1, <2>3
    <3>4. m * p > M
      BY <1>1, <1>2, <3>2, <3>3
    <3> HIDE DEF p, M
    <3>5. safe_shiftl(m, k) = Overflow
      BY <2>3 DEF safe_shiftl
    <3>6. Capped(m * p) = Overflow
      BY <3>4 DEF Capped, M
    <3> QED BY <2>1, <3>5, <3>6 DEF p
  <2>4. CASE ~ (m > 0 /\ k >= IntBits)
    <3>1. safe_shiftl(m, k) = IF m > M \div p THEN Overflow ELSE m * p
      BY <2>1, <2>4 DEF safe_shiftl
    <3>2. Capped(m * p) = IF m * p > M THEN Overflow ELSE m * p
      BY DEF Capped
    <3> QED BY <2>1, <2>2, <3>1, <3>2
  <2> QED BY <2>3, <2>4
<1> QED BY <1>1, <1>3, <1>4

LEMMA PlusCapped ==
    ASSUME NEW m \in Nat, NEW n \in Nat
    PROVE  safe_plus(Capped(m), Capped(n)) = Capped(m + n)
BY IntMax DEF safe_plus, Capped, Overflow

-------------------------------------------------------------------------------
(* How many assignments satisfy a node.                                    *)
LEMMA AssignmentCount ==
    IsFiniteSet(Assignment) /\ Cardinality(Assignment) = 2 ^ NumVars
<1> DEFINE S == SUBSET Var
           f == [A \in S |-> [i \in Var |-> IF i \in A THEN 1 ELSE 0]]
<1>1. IsFiniteSet(S) /\ Cardinality(S) = 2 ^ NumVars
  BY PowerCounts, NumVarsAssumption DEF Var
<1>2. f \in [S -> Assignment]
  BY DEF Assignment, Bit
<1>3. \A A, C \in S : f[A] = f[C] => A = C
  <2> SUFFICES ASSUME NEW A \in S, NEW C \in S, f[A] = f[C] PROVE A = C
    OBVIOUS
  <2>1. \A i \in Var : f[A][i] = (IF i \in A THEN 1 ELSE 0) /\ f[C][i] = (IF i \in C THEN 1 ELSE 0)
    OBVIOUS
  <2>2. \A i \in Var : i \in A <=> i \in C
    <3> HIDE DEF f
    <3> QED BY <2>1
  <2> QED BY <2>2
<1>4. \A x \in Assignment : \E A \in S : f[A] = x
  <2> SUFFICES ASSUME NEW x \in Assignment PROVE \E A \in S : f[A] = x
    OBVIOUS
  <2> DEFINE A == {i \in Var : x[i] = 1}
  <2>1. A \in S
    OBVIOUS
  <2>2. f[A] = x
    BY <2>1 DEF Assignment, Bit
  <2> QED BY <2>1, <2>2
<1> HIDE DEF S, f
<1> QED BY <1>1, <1>2, <1>3, <1>4, SameSize

LEMMA ModelsFinite ==
    ASSUME NEW b, NEW u
    PROVE  IsFiniteSet(Models(b, u)) /\ Cardinality(Models(b, u)) \in Nat
<1>1. Models(b, u) \subseteq Assignment
  BY DEF Models
<1>2. IsFiniteSet(Models(b, u))
  BY <1>1, AssignmentCount, FS_Subset
<1> QED BY <1>2, FS_CardinalityType

(* Half of the models of a node have a given bit for a variable before it. *)
ModelsWith(b, w, v, bit) == {x \in Models(b, w) : x[v] = bit}

LEMMA Halves ==
    ASSUME NEW b, Good(b), NEW w \in bdd_node(b), NEW v \in Var, b.T[w].var > v
    PROVE  \A bit \in Bit :
              /\ IsFiniteSet(ModelsWith(b, w, v, bit))
              /\ Cardinality(ModelsWith(b, w, v, bit)) \in Nat
              /\ Cardinality(Models(b, w)) = 2 * Cardinality(ModelsWith(b, w, v, bit))
<1> DEFINE S == ModelsWith(b, w, v, 0)
           R == ModelsWith(b, w, v, 1)
           f == [x \in S |-> [x EXCEPT ![v] = 1]]
<1>0. ASSUME NEW x \in Assignment, NEW bit \in Bit
      PROVE  /\ [x EXCEPT ![v] = bit] \in Assignment
             /\ [x EXCEPT ![v] = bit][v] = bit
             /\ x[v] \in Bit
             /\ Value(b)[w][[x EXCEPT ![v] = bit]] = Value(b)[w][x]
             /\ [[x EXCEPT ![v] = bit] EXCEPT ![v] = x[v]] = x
  <2>1. /\ [x EXCEPT ![v] = bit] \in Assignment
        /\ Value(b)[w][[x EXCEPT ![v] = bit]] = Value(b)[w][x]
    BY Indifferent
  <2> QED BY <2>1 DEF Assignment
<1>1. 0 \in Bit /\ 1 \in Bit /\ \A c \in Bit : c = 0 \/ c = 1
  BY DEF Bit
<1>2. IsFiniteSet(S) /\ Cardinality(S) \in Nat
  <2>1. S \subseteq Models(b, w)
    BY DEF ModelsWith
  <2>2. IsFiniteSet(S)
    BY <2>1, ModelsFinite, FS_Subset
  <2> QED BY <2>2, FS_CardinalityType
<1>3. IsFiniteSet(R) /\ Cardinality(R) = Cardinality(S)
  <2>1. ASSUME NEW x \in S
        PROVE  x \in Assignment /\ [x EXCEPT ![v] = 1] \in R /\ [[x EXCEPT ![v] = 1] EXCEPT ![v] = 0] = x
    BY <1>0, <1>1 DEF ModelsWith, Models
  <2>2. f \in [S -> R]
    BY <2>1
  <2>3. \A x, y \in S : f[x] = f[y] => x = y
    <3> SUFFICES ASSUME NEW x \in S, NEW y \in S, f[x] = f[y] PROVE x = y
      OBVIOUS
    <3>1. [x EXCEPT ![v] = 1] = [y EXCEPT ![v] = 1]
      OBVIOUS
    <3> QED BY <2>1, <3>1
  <2>4. \A y \in R : \E x \in S : f[x] = y
    <3> SUFFICES ASSUME NEW y \in R PROVE \E x \in S : f[x] = y
      OBVIOUS
    <3> DEFINE x == [y EXCEPT ![v] = 0]
    <3>1. x \in S /\ [x EXCEPT ![v] = 1] = y
      BY <1>0, <1>1 DEF ModelsWith, Models
    <3> QED BY <3>1
  <2> HIDE DEF S, R, f
  <2> QED BY <1>2, <2>2, <2>3, <2>4, SameSize
<1>4. Models(b, w) = S \cup R /\ S \cap R = {}
  <2>1. \A x \in Models(b, w) : x[v] \in Bit
    BY <1>0, <1>1 DEF Models
  <2>2. \A x \in Models(b, w) : x[v] = 0 \/ x[v] = 1
    BY <1>1, <2>1
  <2> QED BY <2>2 DEF ModelsWith
<1> DEFINE M == Models(b, w)
<1> HIDE DEF S, R, M
<1>5. Cardinality(S \cup R) = Cardinality(S) + Cardinality(R) - 0
  <2>1. Cardinality(S \cup R) = Cardinality(S) + Cardinality(R) - Cardinality(S \cap R)
    BY <1>2, <1>3, FS_Union
  <2> QED BY <1>4, <2>1, FS_EmptySet
<1>6. Cardinality(M) = 2 * Cardinality(S)
  BY <1>2, <1>3, <1>4, <1>5 DEF M
<1> QED BY <1>1, <1>2, <1>3, <1>6 DEF S, R, M

LEMMA ModelsOfBranches ==
    ASSUME NEW b, Good(b), NEW u \in bdd_node(b), u >= 2
    PROVE  /\ Models(b, u) = ModelsWith(b, b.T[u].low, b.T[u].var, 0)
                             \cup ModelsWith(b, b.T[u].high, b.T[u].var, 1)
           /\ ModelsWith(b, b.T[u].low, b.T[u].var, 0)
                 \cap ModelsWith(b, b.T[u].high, b.T[u].var, 1) = {}
<1> DEFINE v == b.T[u].var
           l == b.T[u].low
           h == b.T[u].high
<1>1. v \in Var /\ ~ (u <= 1)
  BY NodeFields
<1>2. ASSUME NEW x \in Assignment
      PROVE  /\ x[v] = 0 \/ x[v] = 1
             /\ x[v] = 0 => Value(b)[u][x] = Value(b)[l][x]
             /\ x[v] = 1 => Value(b)[u][x] = Value(b)[h][x]
  <2>1. x[v] \in {0, 1}
    BY <1>1 DEF Assignment, Bit
  <2>2. Value(b)[u][x] = Value(b)[Branch(b, u, x)][x]
    BY <1>1, ValueEquation
  <2> QED BY <2>1, <2>2 DEF Branch
<1> HIDE DEF v, l, h
<1>3. Models(b, u) = ModelsWith(b, l, v, 0) \cup ModelsWith(b, h, v, 1)
  BY <1>2 DEF ModelsWith, Models
<1>4. ModelsWith(b, l, v, 0) \cap ModelsWith(b, h, v, 1) = {}
  BY DEF ModelsWith
<1> QED BY <1>3, <1>4 DEF v, l, h

LEMMA CountStep ==
    ASSUME NEW b, Good(b), NEW u \in bdd_node(b), u >= 2
    PROVE  2 * Cardinality(Models(b, u))
              = Cardinality(Models(b, b.T[u].low)) + Cardinality(Models(b, b.T[u].high))
<1> DEFINE v == b.T[u].var
           l == b.T[u].low
           h == b.T[u].high
           L == ModelsWith(b, l, v, 0)
           H == ModelsWith(b, h, v, 1)
<1>1. /\ v \in Var /\ l \in bdd_node(b) /\ h \in bdd_node(b)
      /\ b.T[l].var > v /\ b.T[h].var > v
      /\ 0 \in Bit /\ 1 \in Bit
  BY NodeFields DEF Bit
<1>2. Models(b, u) = L \cup H /\ L \cap H = {}
  BY ModelsOfBranches
<1> HIDE DEF v, l, h
<1>3. IsFiniteSet(L) /\ Cardinality(L) \in Nat /\ Cardinality(Models(b, l)) = 2 * Cardinality(L)
  BY <1>1, Halves
<1>4. IsFiniteSet(H) /\ Cardinality(H) \in Nat /\ Cardinality(Models(b, h)) = 2 * Cardinality(H)
  BY <1>1, Halves
<1> HIDE DEF L, H
<1>5. Cardinality(Models(b, u)) = Cardinality(L) + Cardinality(H) - 0
  <2>1. Cardinality(L \cup H) = Cardinality(L) + Cardinality(H) - Cardinality(L \cap H)
    BY <1>3, <1>4, FS_Union
  <2> QED BY <1>2, <2>1, FS_EmptySet
<1>6. 2 * Cardinality(Models(b, u)) = Cardinality(Models(b, l)) + Cardinality(Models(b, h))
  BY <1>3, <1>4, <1>5
<1> QED BY <1>6 DEF l, h

(* What satcount_rec computes, as an equation.                             *)
Below(b, v, w, n) == safe_shiftl(n, b.T[w].var - v - 1)

Counted(b, u, m, n) ==
    safe_plus(Below(b, b.T[u].var, b.T[u].low, m), Below(b, b.T[u].var, b.T[u].high, n))

LEMMA CountsAreInts ==
    /\ \A n \in Nat \cup {Overflow}, k \in Nat : safe_shiftl(n, k) \in Nat \cup {Overflow}
    /\ \A m, n \in Nat \cup {Overflow} : safe_plus(m, n) \in Nat \cup {Overflow}
<1>1. ASSUME NEW n \in Nat \cup {Overflow}, NEW k \in Nat
      PROVE  safe_shiftl(n, k) \in Nat \cup {Overflow}
  <2> DEFINE p == 2 ^ k
  <2>1. p \in Nat
    BY PowerPositive
  <2> HIDE DEF p
  <2>2. n # Overflow => n * p \in Nat
    BY <2>1
  <2>3. safe_shiftl(n, k) = Overflow \/ (n # Overflow /\ safe_shiftl(n, k) = n * p)
    BY DEF safe_shiftl, p
  <2> QED BY <2>2, <2>3
<1>2. ASSUME NEW m \in Nat \cup {Overflow}, NEW n \in Nat \cup {Overflow}
      PROVE  safe_plus(m, n) \in Nat \cup {Overflow}
  BY DEF safe_plus
<1> QED BY <1>1, <1>2

LEMMA CountEquation ==
    ASSUME NEW b, Good(b)
    PROVE  \A u \in bdd_node(b) :
              satcount_rec(b)[u] =
                 IF u <= 1 THEN u
                 ELSE Counted(b, u, satcount_rec(b)[b.T[u].low], satcount_rec(b)[b.T[u].high])
<1> DEFINE rhs(count, u) == IF u <= 1 THEN u
                            ELSE safe_plus(safe_shiftl(count[b.T[u].low],
                                                       b.T[b.T[u].low].var - b.T[u].var - 1),
                                           safe_shiftl(count[b.T[u].high],
                                                       b.T[b.T[u].high].var - b.T[u].var - 1))
           Eq(count) == count = [u \in bdd_node(b) |-> rhs(count, u)]
           V == Nat \cup {Overflow}
           base == [u \in Bit |-> u]
           G == [t \in bdd_node(b) \X V \X V |->
                    IF t[1] <= 1 THEN 0 ELSE Counted(b, t[1], t[2], t[3])]
<1>1. ASSUME NEW u \in bdd_node(b)
      PROVE  /\ u \in Nat /\ (u <= 1 => u \in Bit)
             /\ ~ (u <= 1) => /\ b.T[u].low \in bdd_node(b) /\ b.T[u].high \in bdd_node(b)
                              /\ b.T[b.T[u].low].var - b.T[u].var - 1 \in Nat
                              /\ b.T[b.T[u].high].var - b.T[u].var - 1 \in Nat
  <2>1. u \in Nat /\ (u <= 1 => u \in Bit)
    BY NodeFields DEF Bit
  <2>2. ASSUME ~ (u <= 1)
        PROVE  /\ b.T[u].low \in bdd_node(b) /\ b.T[u].high \in bdd_node(b)
               /\ b.T[b.T[u].low].var - b.T[u].var - 1 \in Nat
               /\ b.T[b.T[u].high].var - b.T[u].var - 1 \in Nat
    <3>1. /\ b.T[u].low \in bdd_node(b) /\ b.T[u].high \in bdd_node(b)
          /\ b.T[b.T[u].low].var > b.T[u].var
          /\ b.T[b.T[u].high].var > b.T[u].var
          /\ b.T[u].var \in Nat
      BY <2>1, <2>2, NodeFields
    <3>2. b.T[b.T[u].low].var \in Nat /\ b.T[b.T[u].high].var \in Nat
      BY <3>1, NodeFields
    <3> QED BY <3>1, <3>2
  <2> QED BY <2>1, <2>2
<1>2. base \in [Bit -> V]
  BY DEF Bit
<1>3. ASSUME NEW u \in bdd_node(b), ~ (u <= 1), NEW m \in V, NEW n \in V
      PROVE  Counted(b, u, m, n) \in V
  <2>1. Below(b, b.T[u].var, b.T[u].low, m) \in V
    BY <1>1, <1>3, CountsAreInts DEF Below
  <2>2. Below(b, b.T[u].var, b.T[u].high, n) \in V
    BY <1>1, <1>3, CountsAreInts DEF Below
  <2> HIDE DEF V
  <2> QED BY <2>1, <2>2, CountsAreInts DEF Counted, V
<1>4. G \in [bdd_node(b) \X V \X V -> V]
  <2>1. ASSUME NEW t \in bdd_node(b) \X V \X V
        PROVE  (IF t[1] <= 1 THEN 0 ELSE Counted(b, t[1], t[2], t[3])) \in V
    <3>1. t[1] \in bdd_node(b) /\ t[2] \in V /\ t[3] \in V /\ 0 \in V
      OBVIOUS
    <3> HIDE DEF V
    <3> QED BY <1>3, <3>1
  <2> HIDE DEF V
  <2> QED BY <2>1
<1>5. PICK f \in [bdd_node(b) -> V] : Follows(b, base, G, f)
  <2> HIDE DEF V, base, G
  <2> QED BY <1>2, <1>4, NodeRecursion
<1>6. ASSUME NEW u \in bdd_node(b)
      PROVE  f[u] = rhs(f, u)
  <2>1. CASE u <= 1
    BY <1>1, <1>5, <2>1 DEF Follows
  <2>2. CASE ~ (u <= 1)
    <3>1. f[b.T[u].low] \in V /\ f[b.T[u].high] \in V
      BY <1>1, <2>2
    <3>2. G[<<u, f[b.T[u].low], f[b.T[u].high]>>]
          = Counted(b, u, f[b.T[u].low], f[b.T[u].high])
      BY <2>2, <3>1
    <3> HIDE DEF G, base, V
    <3>3. f[u] = Counted(b, u, f[b.T[u].low], f[b.T[u].high])
      BY <1>5, <2>2, <3>2 DEF Follows
    <3> QED BY <2>2, <3>3 DEF Counted, Below
  <2> QED BY <2>1, <2>2
<1>7. \E count : Eq(count)
  <2>1. f = [u \in bdd_node(b) |-> f[u]]
    OBVIOUS
  <2> HIDE DEF rhs, G, base, V
  <2>2. Eq(f)
    BY <1>6, <2>1
  <2> QED BY <2>2
<1>8. satcount_rec(b) = CHOOSE count : Eq(count)
  BY DEF satcount_rec
<1> HIDE DEF Eq
<1>9. Eq(satcount_rec(b))
  BY <1>7, <1>8
<1>10. ASSUME NEW u \in bdd_node(b)
       PROVE  satcount_rec(b)[u] = rhs(satcount_rec(b), u)
  <2> HIDE DEF rhs
  <2> QED BY <1>9 DEF Eq
<1> QED BY <1>10 DEF Counted, Below

(* The assignments to the variables from u's own on that satisfy u: those  *)
(* that satisfy u, but for the variables before.                           *)
Counts(b, u, m) ==
    /\ m \in Nat
    /\ Cardinality(Models(b, u)) = m * 2 ^ (b.T[u].var - 1)
    /\ satcount_rec(b)[u] = Capped(m)

LEMMA BelowCounts ==
    ASSUME NEW b, Good(b), NEW u \in bdd_node(b), u >= 2,
           NEW w \in bdd_node(b), b.T[w].var > b.T[u].var, NEW m, Counts(b, w, m)
    PROVE  \E n \in Nat : /\ Cardinality(Models(b, w)) = n * (2 * 2 ^ (b.T[u].var - 1))
                          /\ Below(b, b.T[u].var, w, satcount_rec(b)[w]) = Capped(n)
<1> DEFINE v == b.T[u].var
           k == b.T[w].var - v - 1
           p == 2 ^ k
           q == 2 ^ (v - 1)
<1>1. v \in Nat /\ v >= 1 /\ k \in Nat /\ v - 1 \in Nat
      /\ b.T[w].var - 1 = k + v /\ (v - 1) + 1 = v
  BY NodeFields
<1>2. 2 ^ (b.T[w].var - 1) = p * (2 * q) /\ p \in Nat /\ q \in Nat
  <2>1. 2 ^ (k + v) = 2 ^ k * 2 ^ v
    BY <1>1, PowerSum
  <2>2. 2 ^ ((v - 1) + 1) = 2 * 2 ^ (v - 1)
    BY <1>1, PowerStep
  <2> QED BY <1>1, <2>1, <2>2, PowerPositive
<1>3. m \in Nat /\ satcount_rec(b)[w] = Capped(m)
      /\ Cardinality(Models(b, w)) = m * 2 ^ (b.T[w].var - 1)
  BY DEF Counts
<1>4. Below(b, v, w, satcount_rec(b)[w]) = Capped(m * p)
  BY <1>1, <1>3, ShiftCapped DEF Below
<1> HIDE DEF v, k, p, q
<1>5. m * p \in Nat /\ m * (p * (2 * q)) = (m * p) * (2 * q)
  BY <1>2, <1>3
<1>6. Cardinality(Models(b, w)) = (m * p) * (2 * q)
  BY <1>2, <1>3, <1>5
<1> QED BY <1>4, <1>5, <1>6 DEF v, q

LEMMA CountRight ==
    ASSUME NEW b, Good(b)
    PROVE  \A u \in bdd_node(b) : \E m : Counts(b, u, m)
<1> DEFINE T == {n \in Nat : \A u \in bdd_node(b) : b.T[u].var >= n => \E m : Counts(b, u, m)}
<1>1. ASSUME NEW u \in bdd_node(b), u <= 1
      PROVE  Counts(b, u, u)
  <2>1. u \in {0, 1} /\ b.T[u].var - 1 = NumVars
    BY <1>1, NodeFields, NumVarsAssumption
  <2>2. \A x \in Assignment : Value(b)[u][x] = u
    BY <1>1, ValueEquation
  <2>3. satcount_rec(b)[u] = u
    BY <1>1, CountEquation
  <2>4. Capped(u) = u
    BY <2>1, IntMax DEF Capped
  <2>5. 2 ^ NumVars \in Nat
    BY PowerPositive, NumVarsAssumption
  <2>6. CASE u = 0
    <3>1. Models(b, u) = {}
      BY <2>2, <2>6 DEF Models
    <3>2. Cardinality(Models(b, u)) = u * 2 ^ NumVars
      BY <2>5, <2>6, <3>1, FS_EmptySet
    <3> QED BY <2>1, <2>3, <2>4, <3>2 DEF Counts
  <2>7. CASE u = 1
    <3>1. Models(b, u) = Assignment
      BY <2>2, <2>7 DEF Models
    <3>2. Cardinality(Models(b, u)) = u * 2 ^ NumVars
      BY <2>5, <2>7, <3>1, AssignmentCount
    <3> QED BY <2>1, <2>3, <2>4, <3>2 DEF Counts
  <2> QED BY <2>1, <2>6, <2>7
<1>2. NumVars + 1 \in T
  <2>1. ASSUME NEW u \in bdd_node(b), b.T[u].var >= NumVars + 1
        PROVE  u <= 1
    BY <2>1, NodeFields, NumVarsAssumption
  <2> QED BY <1>1, <2>1, NumVarsAssumption
<1>3. ASSUME NEW n \in Var, n + 1 \in T
      PROVE  n \in T
  <2>1. n \in Nat
    BY NumVarsAssumption DEF Var
  <2>2. ASSUME NEW u \in bdd_node(b), b.T[u].var >= n, u >= 2
        PROVE  \E m : Counts(b, u, m)
    <3> DEFINE v == b.T[u].var
               l == b.T[u].low
               h == b.T[u].high
               q == 2 ^ (v - 1)
               M == Cardinality(Models(b, u))
    <3>1. /\ l \in bdd_node(b) /\ h \in bdd_node(b)
          /\ b.T[l].var > v /\ b.T[h].var > v /\ v \in Nat /\ v >= 1 /\ ~ (u <= 1)
      BY <2>2, NodeFields
    <3>2. b.T[l].var >= n + 1 /\ b.T[h].var >= n + 1
      BY <2>1, <2>2, <3>1, NodeFields
    <3>3. PICK i \in Nat : /\ Cardinality(Models(b, l)) = i * (2 * q)
                           /\ Below(b, v, l, satcount_rec(b)[l]) = Capped(i)
      <4>1. \E m : Counts(b, l, m)
        BY <1>3, <3>1, <3>2
      <4> QED BY <2>2, <3>1, <4>1, BelowCounts
    <3>4. PICK j \in Nat : /\ Cardinality(Models(b, h)) = j * (2 * q)
                           /\ Below(b, v, h, satcount_rec(b)[h]) = Capped(j)
      <4>1. \E m : Counts(b, h, m)
        BY <1>3, <3>1, <3>2
      <4> QED BY <2>2, <3>1, <4>1, BelowCounts
    <3>5. satcount_rec(b)[u] = Capped(i + j)
      <4>1. satcount_rec(b)[u] = safe_plus(Capped(i), Capped(j))
        BY <3>1, <3>3, <3>4, CountEquation DEF Counted
      <4> QED BY <4>1, PlusCapped
    <3>6. 2 * M = i * (2 * q) + j * (2 * q)
      BY <2>2, <3>3, <3>4, CountStep
    <3>7. q \in Nat /\ M \in Nat
      BY <3>1, PowerPositive, ModelsFinite
    <3> HIDE DEF q, M
    <3>8. M = (i + j) * q
      BY <3>6, <3>7
    <3>9. Counts(b, u, i + j)
      BY <3>5, <3>8 DEF Counts, M, q
    <3> QED BY <3>9
  <2>3. \A u \in bdd_node(b) : u <= 1 \/ u >= 2
    BY NodeFields
  <2> QED BY <1>1, <2>1, <2>2, <2>3
<1> HIDE DEF T
<1>4. 1 .. NumVars + 1 \subseteq T
  BY <1>2, <1>3, BottomUp
<1>5. 1 \in T /\ \A u \in bdd_node(b) : b.T[u].var >= 1
  BY <1>4, NumVarsAssumption, NodeFields
<1> QED BY <1>5 DEF T

-------------------------------------------------------------------------------
(* What allsat_rec and onesat compute, as equations.                       *)
Result == [A : Array, printed : SUBSET Array]

AllsatBranch(b, u, r, bit, w, f) ==
    IF w = 0 THEN r
    ELSE LET s == f[[A |-> [r.A EXCEPT ![b.T[u].var] = bit], level |-> b.T[u].var + 1]]
         IN  [A |-> s.A, printed |-> r.printed \cup s.printed]

Marked(b, u, c) == MarkRedundant(c.A, c.level, b.T[u].var)

AllsatLow(b, u, f, c) ==
    AllsatBranch(b, u, [A |-> Marked(b, u, c), printed |-> {}], 0, b.T[u].low, f)

AllsatNode(b, u, f, g, c) ==
    AllsatBranch(b, u, AllsatLow(b, u, f, c), 1, b.T[u].high, g)

LEMMA MarkedArray ==
    ASSUME NEW b, NEW u, NEW c \in AllsatCall
    PROVE  /\ Marked(b, u, c) \in Array
           /\ \A i \in Var : Marked(b, u, c)[i] =
                 IF c.level <= i /\ i < b.T[u].var THEN -1 ELSE c.A[i]
BY DEF Marked, MarkRedundant, AllsatCall, Array

LEMMA BranchResult ==
    ASSUME NEW b, NEW u, b.T[u].var \in Var, NEW r \in Result, NEW bit \in Bit, NEW w, NEW f,
           w # 0 => f \in [AllsatCall -> Result]
    PROVE  AllsatBranch(b, u, r, bit, w, f) \in Result
<1> DEFINE d == [A |-> [r.A EXCEPT ![b.T[u].var] = bit], level |-> b.T[u].var + 1]
<1>1. r.A \in Array /\ r.printed \in SUBSET Array
  BY DEF Result
<1>2. [r.A EXCEPT ![b.T[u].var] = bit] \in Array
  BY <1>1 DEF Array
<1>3. b.T[u].var + 1 \in 1 .. NumVars + 1
  BY NumVarsAssumption DEF Var
<1>4. d \in AllsatCall
  BY <1>2, <1>3 DEF AllsatCall
<1> HIDE DEF d
<1>5. w # 0 => f[d].A \in Array /\ f[d].printed \in SUBSET Array
  BY <1>4 DEF Result
<1>6. w # 0 => [A |-> f[d].A, printed |-> r.printed \cup f[d].printed] \in Result
  BY <1>1, <1>5 DEF Result
<1> QED BY <1>6 DEF AllsatBranch, d

LEMMA NodeResult ==
    ASSUME NEW b, NEW u, b.T[u].var \in Var, NEW c \in AllsatCall, NEW f, NEW g,
           b.T[u].low # 0 => f \in [AllsatCall -> Result],
           b.T[u].high # 0 => g \in [AllsatCall -> Result]
    PROVE  AllsatLow(b, u, f, c) \in Result /\ AllsatNode(b, u, f, g, c) \in Result
<1>1. [A |-> Marked(b, u, c), printed |-> {}] \in Result
  BY MarkedArray DEF Result
<1>2. 0 \in Bit /\ 1 \in Bit
  BY DEF Bit
<1>3. AllsatLow(b, u, f, c) \in Result
  BY <1>1, <1>2, BranchResult DEF AllsatLow
<1> QED BY <1>2, <1>3, BranchResult DEF AllsatNode

AllsatEquation(b, rec) ==
    \A u \in bdd_node(b) \ {0} :
        /\ rec[u] \in [AllsatCall -> Result]
        /\ \A c \in AllsatCall :
              rec[u][c] = IF u = 1 THEN [A |-> Marked(b, u, c), printed |-> {Marked(b, u, c)}]
                          ELSE AllsatNode(b, u, rec[b.T[u].low], rec[b.T[u].high], c)

LEMMA AllsatRec ==
    ASSUME NEW b, Good(b)
    PROVE  AllsatEquation(b, allsat_rec(b))
<1> DEFINE branch(rec, u, r, bit, w) ==
              IF w = 0 THEN r
              ELSE LET s == rec[w][[A |-> [r.A EXCEPT ![b.T[u].var] = bit],
                                    level |-> b.T[u].var + 1]]
                   IN  [A |-> s.A, printed |-> r.printed \cup s.printed]
           marked(u, c) == MarkRedundant(c.A, c.level, b.T[u].var)
           rhs(rec, u) ==
              [c \in AllsatCall |->
                  IF u = 1 THEN [A |-> marked(u, c), printed |-> {marked(u, c)}]
                  ELSE branch(rec, u, branch(rec, u, [A |-> marked(u, c), printed |-> {}],
                                             0, b.T[u].low), 1, b.T[u].high)]
           N == bdd_node(b) \ {0}
           Eq(rec) == rec = [u \in N |-> rhs(rec, u)]
           V == [AllsatCall -> Result]
           leaf == [c \in AllsatCall |-> [A |-> Marked(b, 1, c), printed |-> {Marked(b, 1, c)}]]
           base == [u \in Bit |-> leaf]
           G == [t \in bdd_node(b) \X V \X V |->
                    IF t[1] <= 1 THEN leaf
                    ELSE [c \in AllsatCall |-> AllsatNode(b, t[1], t[2], t[3], c)]]
<1>1. ASSUME NEW u \in bdd_node(b)
      PROVE  /\ u \in Nat /\ (u <= 1 => u \in Bit) /\ (u <= 1 /\ u # 0 => u = 1)
             /\ ~ (u <= 1) => /\ b.T[u].low \in bdd_node(b) /\ b.T[u].high \in bdd_node(b)
                              /\ b.T[u].var \in Var /\ u # 1
  BY NodeFields DEF Bit
<1>2. leaf \in V
  BY MarkedArray DEF Result
<1>3. base \in [Bit -> V]
  BY <1>2
<1>4. G \in [bdd_node(b) \X V \X V -> V]
  <2>1. ASSUME NEW t \in bdd_node(b) \X V \X V
        PROVE  (IF t[1] <= 1 THEN leaf
                ELSE [c \in AllsatCall |-> AllsatNode(b, t[1], t[2], t[3], c)]) \in V
    <3>1. t[1] \in bdd_node(b) /\ t[2] \in V /\ t[3] \in V
      OBVIOUS
    <3>2. CASE ~ (t[1] <= 1)
      <4>1. \A c \in AllsatCall : AllsatNode(b, t[1], t[2], t[3], c) \in Result
        BY <1>1, <3>1, <3>2, NodeResult
      <4> QED BY <3>2, <4>1
    <3> QED BY <1>2, <3>2
  <2> HIDE DEF V, leaf
  <2> QED BY <2>1
<1>5. PICK f \in [bdd_node(b) -> V] : Follows(b, base, G, f)
  <2> HIDE DEF V, base, G
  <2> QED BY <1>3, <1>4, NodeRecursion
<1> DEFINE g == [u \in N |-> f[u]]
<1>6. ASSUME NEW u \in N
      PROVE  f[u] \in V /\ g[u] = rhs(g, u)
  <2>0. u \in bdd_node(b) /\ f[u] \in V
    OBVIOUS
  <2>1. CASE u <= 1
    <3>1. u = 1 /\ f[u] = leaf
      BY <1>1, <1>5, <2>0, <2>1 DEF Follows
    <3> QED BY <2>0, <3>1 DEF Marked
  <2>2. CASE ~ (u <= 1)
    <3>1. b.T[u].low \in bdd_node(b) /\ b.T[u].high \in bdd_node(b) /\ u # 1
      BY <1>1, <2>0, <2>2
    <3>2. f[b.T[u].low] \in V /\ f[b.T[u].high] \in V
      BY <3>1
    <3>3. G[<<u, f[b.T[u].low], f[b.T[u].high]>>]
          = [c \in AllsatCall |-> AllsatNode(b, u, f[b.T[u].low], f[b.T[u].high], c)]
      <4> HIDE DEF V, leaf
      <4> QED BY <2>0, <2>2, <3>2
    <3>4. f[u] = [c \in AllsatCall |-> AllsatNode(b, u, f[b.T[u].low], f[b.T[u].high], c)]
      <4> HIDE DEF G, base, V
      <4> QED BY <1>5, <2>0, <2>2, <3>3 DEF Follows
    <3>5. /\ b.T[u].low # 0 => g[b.T[u].low] = f[b.T[u].low]
          /\ b.T[u].high # 0 => g[b.T[u].high] = f[b.T[u].high]
      BY <3>1
    <3> HIDE DEF g
    <3>6. ASSUME NEW c \in AllsatCall
          PROVE  AllsatNode(b, u, f[b.T[u].low], f[b.T[u].high], c)
                 = branch(g, u, branch(g, u, [A |-> marked(u, c), printed |-> {}],
                                       0, b.T[u].low), 1, b.T[u].high)
      BY <3>5 DEF AllsatNode, AllsatLow, AllsatBranch, Marked
    <3>7. rhs(g, u) = [c \in AllsatCall |-> AllsatNode(b, u, f[b.T[u].low], f[b.T[u].high], c)]
      <4> HIDE DEF branch
      <4> QED BY <3>1, <3>6
    <3>8. g[u] = f[u]
      BY DEF g
    <3> HIDE DEF rhs
    <3> QED BY <2>0, <3>4, <3>7, <3>8
  <2> QED BY <2>1, <2>2
<1>7. \E rec : Eq(rec)
  <2>1. g = [u \in N |-> g[u]]
    OBVIOUS
  <2> HIDE DEF rhs, g, N, V
  <2>2. Eq(g)
    BY <1>6, <2>1
  <2> QED BY <2>2
<1>8. allsat_rec(b) = CHOOSE rec : Eq(rec)
  BY DEF allsat_rec
<1> HIDE DEF Eq
<1>9. Eq(allsat_rec(b))
  BY <1>7, <1>8
<1> DEFINE R == allsat_rec(b)
           node(u, c) == IF u = 1 THEN [A |-> Marked(b, u, c), printed |-> {Marked(b, u, c)}]
                         ELSE AllsatNode(b, u, R[b.T[u].low], R[b.T[u].high], c)
<1> HIDE DEF R
<1>10. ASSUME NEW u \in N
       PROVE  R[u] = [c \in AllsatCall |-> node(u, c)]
  <2>1. R[u] = rhs(R, u)
    <3> HIDE DEF rhs, N
    <3> QED BY <1>9 DEF Eq, R
  <2>2. rhs(R, u) = [c \in AllsatCall |-> node(u, c)]
    BY DEF AllsatNode, AllsatLow, AllsatBranch, Marked
  <2> HIDE DEF rhs, node
  <2> QED BY <2>1, <2>2
<1> DEFINE T == {n \in Nat : \A u \in N : b.T[u].var >= n => R[u] \in V}
<1>11. ASSUME NEW u \in N, u <= 1
       PROVE  R[u] \in V
  <2>1. u = 1
    BY <1>1, <1>11
  <2>2. \A c \in AllsatCall : node(u, c) \in Result
    BY <2>1, MarkedArray DEF Result
  <2> HIDE DEF node
  <2> QED BY <1>10, <2>2
<1>12. NumVars + 1 \in T
  <2>1. ASSUME NEW u \in N, b.T[u].var >= NumVars + 1
        PROVE  u <= 1
    BY <2>1, NodeFields, NumVarsAssumption
  <2> HIDE DEF V
  <2> QED BY <1>11, <2>1, NumVarsAssumption
<1>13. ASSUME NEW n \in Var, n + 1 \in T
       PROVE  n \in T
  <2>1. n \in Nat
    BY NumVarsAssumption DEF Var
  <2>2. ASSUME NEW u \in N, b.T[u].var >= n, u >= 2
        PROVE  R[u] \in V
    <3> DEFINE l == b.T[u].low
               h == b.T[u].high
    <3>1. /\ l \in bdd_node(b) /\ h \in bdd_node(b) /\ b.T[u].var \in Var /\ u # 1
          /\ b.T[l].var > b.T[u].var /\ b.T[h].var > b.T[u].var
      BY <2>2, NodeFields
    <3>2. b.T[l].var >= n + 1 /\ b.T[h].var >= n + 1
      BY <2>1, <2>2, <3>1, NodeFields
    <3>3. (l # 0 => R[l] \in V) /\ (h # 0 => R[h] \in V)
      <4> HIDE DEF V
      <4> QED BY <1>13, <3>1, <3>2
    <3>4. \A c \in AllsatCall : node(u, c) \in Result
      BY <3>1, <3>3, NodeResult
    <3> HIDE DEF node
    <3> QED BY <1>10, <3>4
  <2>3. \A u \in N : u <= 1 \/ u >= 2
    BY NodeFields
  <2> HIDE DEF V, N
  <2> QED BY <1>11, <2>1, <2>2, <2>3
<1> HIDE DEF T
<1>14. 1 .. NumVars + 1 \subseteq T
  BY <1>12, <1>13, BottomUp
<1>15. 1 \in T /\ \A u \in N : b.T[u].var >= 1
  BY <1>14, NumVarsAssumption, NodeFields
<1>16. ASSUME NEW u \in N
       PROVE  R[u] \in V
  BY <1>15 DEF T
<1>17. ASSUME NEW u \in N, NEW c \in AllsatCall
       PROVE  R[u][c] = node(u, c)
  <2> HIDE DEF node, N
  <2> QED BY <1>10
<1> HIDE DEF N, V
<1> QED BY <1>16, <1>17 DEF AllsatEquation, N, V, R

PathOf(b, u) ==
    IF u <= 1 THEN <<>>
    ELSE IF b.T[u].low # 0 THEN <<<<b.T[u].var, 0>>>> \o Paths(b)[b.T[u].low]
    ELSE <<<<b.T[u].var, 1>>>> \o Paths(b)[b.T[u].high]

LEMMA PathEquation ==
    ASSUME NEW b, Good(b)
    PROVE  \A u \in bdd_node(b) :
              Paths(b)[u] \in Seq(Var \X Bit) /\ Paths(b)[u] = PathOf(b, u)
<1> DEFINE rhs(path, w) == IF b.T[w].var > NumVars THEN <<>>
                           ELSE IF b.T[w].low # 0 THEN <<<<b.T[w].var, 0>>>> \o path[b.T[w].low]
                           ELSE <<<<b.T[w].var, 1>>>> \o path[b.T[w].high]
           Eq(path) == path = [w \in bdd_node(b) |-> rhs(path, w)]
           V == Seq(Var \X Bit)
           base == [w \in Bit |-> <<>>]
           step(w, m, n) == IF b.T[w].low # 0 THEN <<<<b.T[w].var, 0>>>> \o m
                            ELSE <<<<b.T[w].var, 1>>>> \o n
           G == [t \in bdd_node(b) \X V \X V |->
                    IF t[1] <= 1 THEN <<>> ELSE step(t[1], t[2], t[3])]
<1>1. ASSUME NEW u \in bdd_node(b)
      PROVE  /\ u \in Nat /\ (u <= 1 => u \in Bit) /\ (u <= 1 <=> b.T[u].var > NumVars)
             /\ ~ (u <= 1) => /\ b.T[u].low \in bdd_node(b) /\ b.T[u].high \in bdd_node(b)
                              /\ b.T[u].var \in Var
  <2>1. /\ u \in Nat /\ b.T[u].var \in Nat /\ b.T[u].var <= NumVars + 1
        /\ u <= 1 <=> b.T[u].var = NumVars + 1
    BY NodeFields
  <2>2. ~ (u <= 1) => u >= 2
    BY <2>1
  <2> QED BY <2>1, <2>2, NodeFields, NumVarsAssumption DEF Bit
<1>2. base \in [Bit -> V]
  OBVIOUS
<1>3. ASSUME NEW u \in bdd_node(b), ~ (u <= 1), NEW m \in V, NEW n \in V
      PROVE  step(u, m, n) \in V
  <2>1. <<b.T[u].var, 0>> \in Var \X Bit /\ <<b.T[u].var, 1>> \in Var \X Bit
    BY <1>1, <1>3 DEF Bit
  <2>2. <<<<b.T[u].var, 0>>>> \in V /\ <<<<b.T[u].var, 1>>>> \in V
    BY <2>1
  <2> QED BY <2>2
<1>4. G \in [bdd_node(b) \X V \X V -> V]
  <2>1. ASSUME NEW t \in bdd_node(b) \X V \X V
        PROVE  (IF t[1] <= 1 THEN <<>> ELSE step(t[1], t[2], t[3])) \in V
    <3>1. t[1] \in bdd_node(b) /\ t[2] \in V /\ t[3] \in V /\ <<>> \in V
      OBVIOUS
    <3> HIDE DEF V, step
    <3> QED BY <1>3, <3>1
  <2> HIDE DEF V, step
  <2> QED BY <2>1
<1>5. PICK f \in [bdd_node(b) -> V] : Follows(b, base, G, f)
  <2> HIDE DEF V, base, G
  <2> QED BY <1>2, <1>4, NodeRecursion
<1>6. ASSUME NEW u \in bdd_node(b)
      PROVE  f[u] = rhs(f, u)
  <2>1. CASE u <= 1
    BY <1>1, <1>5, <2>1 DEF Follows
  <2>2. CASE ~ (u <= 1)
    <3>1. f[b.T[u].low] \in V /\ f[b.T[u].high] \in V
      BY <1>1, <2>2
    <3>2. G[<<u, f[b.T[u].low], f[b.T[u].high]>>] = step(u, f[b.T[u].low], f[b.T[u].high])
      <4> HIDE DEF step, V
      <4> QED BY <2>2, <3>1
    <3> HIDE DEF G, base, V
    <3>3. f[u] = step(u, f[b.T[u].low], f[b.T[u].high])
      <4> HIDE DEF step
      <4> QED BY <1>5, <2>2, <3>2 DEF Follows
    <3> QED BY <1>1, <2>2, <3>3
  <2> QED BY <2>1, <2>2
<1>7. \E path : Eq(path)
  <2>1. f = [u \in bdd_node(b) |-> f[u]]
    OBVIOUS
  <2> HIDE DEF rhs, G, base, V
  <2>2. Eq(f)
    BY <1>6, <2>1
  <2> QED BY <2>2
<1>8. Paths(b) = CHOOSE path : Eq(path)
  BY DEF Paths
<1> HIDE DEF Eq
<1>9. Eq(Paths(b))
  BY <1>7, <1>8
<1> DEFINE P == Paths(b)
<1> HIDE DEF P
<1>10. ASSUME NEW u \in bdd_node(b)
       PROVE  P[u] = IF u <= 1 THEN <<>> ELSE step(u, P[b.T[u].low], P[b.T[u].high])
  <2>1. P[u] = rhs(P, u)
    <3> HIDE DEF rhs
    <3> QED BY <1>9 DEF Eq, P
  <2> QED BY <1>1, <2>1
<1> DEFINE T == {n \in Nat : \A u \in bdd_node(b) : b.T[u].var >= n => P[u] \in V}
<1> HIDE DEF step
<1>11. ASSUME NEW u \in bdd_node(b), u <= 1
       PROVE  P[u] \in V
  <2>1. <<>> \in V
    OBVIOUS
  <2> HIDE DEF V
  <2> QED BY <1>10, <1>11, <2>1
<1>12. NumVars + 1 \in T
  <2>1. ASSUME NEW u \in bdd_node(b), b.T[u].var >= NumVars + 1
        PROVE  u <= 1
    BY <2>1, NodeFields, NumVarsAssumption
  <2> HIDE DEF V
  <2> QED BY <1>11, <2>1, NumVarsAssumption
<1>13. ASSUME NEW n \in Var, n + 1 \in T
       PROVE  n \in T
  <2>1. n \in Nat
    BY NumVarsAssumption DEF Var
  <2> HIDE DEF V
  <2>2. ASSUME NEW u \in bdd_node(b), b.T[u].var >= n, u >= 2
        PROVE  P[u] \in V
    <3> DEFINE l == b.T[u].low
               h == b.T[u].high
    <3>1. /\ l \in bdd_node(b) /\ h \in bdd_node(b) /\ ~ (u <= 1)
          /\ b.T[l].var > b.T[u].var /\ b.T[h].var > b.T[u].var
      BY <2>2, NodeFields
    <3>2. b.T[l].var >= n + 1 /\ b.T[h].var >= n + 1
      BY <2>1, <2>2, <3>1, NodeFields
    <3>3. P[l] \in V /\ P[h] \in V
      BY <1>13, <3>1, <3>2
    <3> QED BY <1>3, <1>10, <3>1, <3>3
  <2>3. \A u \in bdd_node(b) : u <= 1 \/ u >= 2
    BY NodeFields
  <2> QED BY <1>11, <2>1, <2>2, <2>3
<1> HIDE DEF T
<1>14. 1 .. NumVars + 1 \subseteq T
  BY <1>12, <1>13, BottomUp
<1>15. 1 \in T /\ \A u \in bdd_node(b) : b.T[u].var >= 1
  BY <1>14, NumVarsAssumption, NodeFields
<1>16. \A u \in bdd_node(b) : P[u] \in V
  BY <1>15 DEF T
<1> QED BY <1>10, <1>16 DEF P, PathOf, step

(* The lines that allsat_rec prints for the node u from level on: they     *)
(* keep what was in the array before, agree with exactly the assignments   *)
(* that satisfy u, no two of them with the same one, and one of them is on *)
(* the path of onesat.                                                     *)
SameBefore(n, A, C) == \A i \in Var : i < n => A[i] = C[i]

AgreesFrom(n, x, cube) == \A i \in Var : i >= n => cube[i] \in {-1, x[i]}

OnPath(n, path, cube) ==
    \A i \in Var : i >= n =>
        \/ \E j \in DOMAIN path : path[j] = <<i, cube[i]>>
        \/ cube[i] = -1

Prints(b, u, c, r) ==
    /\ SameBefore(c.level, r.A, c.A)
    /\ \A cube \in r.printed : SameBefore(c.level, cube, c.A)
    /\ \A x \in Assignment :
          Value(b)[u][x] = 1 <=> \E cube \in r.printed : AgreesFrom(c.level, x, cube)
    /\ \A cube, other \in r.printed, x \in Assignment :
          AgreesFrom(c.level, x, cube) /\ AgreesFrom(c.level, x, other) => cube = other
    /\ \E cube \in r.printed : OnPath(c.level, Paths(b)[u], cube)

Has(s, p) == \E j \in DOMAIN s : s[j] = p

LEMMA PathPrefix ==
    ASSUME NEW S, NEW p \in S, NEW s \in Seq(S)
    PROVE  Has(<<p>> \o s, p) /\ \A i \in DOMAIN s : Has(<<p>> \o s, s[i])
<1> DEFINE t == <<p>> \o s
<1>1. /\ DOMAIN s = 1 .. Len(s) /\ Len(s) \in Nat
      /\ DOMAIN t = 1 .. Len(s) + 1
      /\ t[1] = p
      /\ \A i \in 1 .. Len(s) : t[i + 1] = s[i]
  OBVIOUS
<1> HIDE DEF t
<1>2. 1 \in DOMAIN t
  BY <1>1
<1>3. ASSUME NEW i \in DOMAIN s
      PROVE  \E j \in DOMAIN t : t[j] = s[i]
  <2>1. i \in 1 .. Len(s) /\ i + 1 \in DOMAIN t
    BY <1>1
  <2> QED BY <1>1, <2>1
<1> QED BY <1>1, <1>2, <1>3 DEF t, Has

(* What one branch adds, with the array m marked down to the variable of u.*)
Adds(b, u, m, bit, w, N) ==
    /\ N \subseteq Array
    /\ \A cube \in N : SameBefore(b.T[u].var, cube, m) /\ cube[b.T[u].var] = bit
    /\ \A x \in Assignment :
          Value(b)[w][x] = 1 <=> \E cube \in N : AgreesFrom(b.T[u].var + 1, x, cube)
    /\ \A cube, other \in N, x \in Assignment :
          /\ AgreesFrom(b.T[u].var + 1, x, cube)
          /\ AgreesFrom(b.T[u].var + 1, x, other)
          => cube = other
    /\ w # 0 => \E cube \in N : OnPath(b.T[u].var + 1, Paths(b)[w], cube)

Branched(b, u, m, bit, w, r, q) ==
    \E N : /\ q.printed = r.printed \cup N
           /\ SameBefore(b.T[u].var, q.A, m)
           /\ Adds(b, u, m, bit, w, N)

LEMMA BranchAdds ==
    ASSUME NEW b, Good(b), NEW u \in bdd_node(b), b.T[u].var \in Var,
           NEW m \in Array, NEW r \in Result, SameBefore(b.T[u].var, r.A, m),
           NEW bit \in Bit, NEW w \in bdd_node(b), NEW f,
           w # 0 => \A c \in AllsatCall :
                       c.level = b.T[u].var + 1 => f[c] \in Result /\ Prints(b, w, c, f[c])
    PROVE  Branched(b, u, m, bit, w, r, AllsatBranch(b, u, r, bit, w, f))
<1> DEFINE v == b.T[u].var
           d == [A |-> [r.A EXCEPT ![v] = bit], level |-> v + 1]
           q == AllsatBranch(b, u, r, bit, w, f)
<1>1. CASE w = 0
  <2>1. q = r
    BY <1>1 DEF AllsatBranch
  <2>2. \A x \in Assignment : Value(b)[w][x] = 0
    BY <1>1, ValueEquation
  <2>3. Adds(b, u, m, bit, w, {})
    BY <1>1, <2>2 DEF Adds
  <2>4. q.printed = r.printed \cup {} /\ SameBefore(v, q.A, m)
    BY <2>1
  <2> HIDE DEF q, v
  <2> QED BY <2>3, <2>4 DEF q, v, Branched
<1>2. CASE w # 0
  <2> DEFINE N == f[d].printed
  <2>1. /\ r.A \in Array
        /\ [r.A EXCEPT ![v] = bit] \in Array
        /\ [r.A EXCEPT ![v] = bit][v] = bit
        /\ \A i \in Var : i # v => [r.A EXCEPT ![v] = bit][i] = r.A[i]
    BY DEF Result, Array
  <2>2. v + 1 \in 1 .. NumVars + 1 /\ v \in Nat /\ v \in Var /\ Var \subseteq Nat
    BY NumVarsAssumption DEF Var
  <2>3. d \in AllsatCall /\ d.level = v + 1 /\ d.A = [r.A EXCEPT ![v] = bit]
    BY <2>1, <2>2 DEF AllsatCall
  <2>4. f[d] \in Result /\ Prints(b, w, d, f[d])
    BY <1>2, <2>3
  <2>5. q = [A |-> f[d].A, printed |-> r.printed \cup N]
    BY <1>2 DEF AllsatBranch
  <2>6. q.printed = r.printed \cup N /\ q.A = f[d].A
    BY <2>5
  <2>7. N \subseteq Array
    BY <2>4 DEF Result
  <2> HIDE DEF q, v, d, N
  <2>8. ASSUME NEW C, SameBefore(v + 1, C, d.A)
        PROVE  SameBefore(v, C, m) /\ C[v] = bit
    <3>1. ASSUME NEW i \in Var, i < v
          PROVE  C[i] = m[i]
      <4>1. i < v + 1 /\ i # v
        BY <2>2, <3>1
      <4>2. C[i] = d.A[i] /\ r.A[i] = m[i]
        BY <2>8, <3>1, <4>1 DEF SameBefore, v
      <4> QED BY <2>1, <2>3, <4>1, <4>2
    <3>2. v < v + 1
      BY <2>2
    <3>3. C[v] = bit
      BY <2>1, <2>2, <2>3, <2>8, <3>2 DEF SameBefore
    <3> QED BY <3>1, <3>3 DEF SameBefore
  <2>9. SameBefore(v, q.A, m)
    BY <2>3, <2>4, <2>6, <2>8 DEF Prints
  <2>10. Adds(b, u, m, bit, w, N)
    BY <2>3, <2>4, <2>7, <2>8 DEF Adds, Prints, N, v
  <2> QED BY <2>6, <2>9, <2>10 DEF q, v, Branched
<1> QED BY <1>1, <1>2

LEMMA LeafPrints ==
    ASSUME NEW b, Good(b), 1 \in bdd_node(b), NEW c \in AllsatCall
    PROVE  Prints(b, 1, c, [A |-> Marked(b, 1, c), printed |-> {Marked(b, 1, c)}])
<1> DEFINE m == Marked(b, 1, c)
           r == [A |-> m, printed |-> {m}]
<1>1. b.T[1].var = NumVars + 1 /\ 1 <= 1
  BY NodeFields
<1>2. c.level \in Nat /\ c.A \in Array
  BY DEF AllsatCall
<1>3. \A i \in Var : i \in Nat /\ i < NumVars + 1
  BY NumVarsAssumption DEF Var
<1>4. \A i \in Var : m[i] = IF c.level <= i THEN -1 ELSE c.A[i]
  BY <1>1, <1>3, MarkedArray
<1> HIDE DEF m
<1>5. SameBefore(c.level, m, c.A)
  BY <1>2, <1>3, <1>4 DEF SameBefore
<1>6. \A x \in Assignment : AgreesFrom(c.level, x, m)
  BY <1>2, <1>3, <1>4 DEF AgreesFrom
<1>7. \A x \in Assignment : Value(b)[1][x] = 1
  BY <1>1, ValueEquation
<1>8. OnPath(c.level, Paths(b)[1], m)
  BY <1>2, <1>3, <1>4 DEF OnPath
<1>9. r.A = m /\ r.printed = {m}
  OBVIOUS
<1> HIDE DEF r
<1>10. Prints(b, 1, c, r)
  BY <1>5, <1>6, <1>7, <1>8, <1>9 DEF Prints
<1> QED BY <1>10 DEF r, m

(* A line of one branch of u agrees from the level on with the assignments *)
(* that have the branch's bit and agree with it further down.              *)
LEMMA LineAgrees ==
    ASSUME NEW b, NEW u, b.T[u].var \in Var, NEW c \in AllsatCall, c.level <= b.T[u].var,
           NEW cube \in Array, SameBefore(b.T[u].var, cube, Marked(b, u, c)),
           cube[b.T[u].var] \in Bit
    PROVE  /\ SameBefore(c.level, cube, c.A)
           /\ \A x \in Assignment :
                 AgreesFrom(c.level, x, cube) <=>
                    x[b.T[u].var] = cube[b.T[u].var] /\ AgreesFrom(b.T[u].var + 1, x, cube)
           /\ \A i \in Var : i >= c.level /\ i < b.T[u].var => cube[i] = -1
<1> DEFINE v == b.T[u].var
           m == Marked(b, u, c)
<1>1. v \in Var /\ v \in Nat /\ c.level \in Nat /\ c.level <= v /\ \A i \in Var : i \in Nat
  BY NumVarsAssumption DEF AllsatCall, Var
<1>2. \A i \in Var : m[i] = IF c.level <= i /\ i < v THEN -1 ELSE c.A[i]
  BY MarkedArray
<1>3. SameBefore(v, cube, m) /\ cube[v] \in Bit
  OBVIOUS
<1> HIDE DEF v, m
<1>4. SameBefore(c.level, cube, c.A)
  BY <1>1, <1>2, <1>3 DEF SameBefore
<1>5. \A i \in Var : i >= c.level /\ i < v => cube[i] = -1
  BY <1>1, <1>2, <1>3 DEF SameBefore
<1>6. ASSUME NEW x \in Assignment, AgreesFrom(c.level, x, cube)
      PROVE  x[v] = cube[v] /\ AgreesFrom(v + 1, x, cube)
  <2>1. cube[v] \in {-1, x[v]} /\ cube[v] # -1
    BY <1>1, <1>3, <1>6 DEF AgreesFrom, Bit
  <2>2. \A i \in Var : i >= v + 1 => i >= c.level
    BY <1>1
  <2> QED BY <1>6, <2>1, <2>2 DEF AgreesFrom
<1>7. ASSUME NEW x \in Assignment, x[v] = cube[v], AgreesFrom(v + 1, x, cube)
      PROVE  AgreesFrom(c.level, x, cube)
  <2>1. ASSUME NEW i \in Var, i >= c.level
        PROVE  cube[i] \in {-1, x[i]}
    <3>1. i < v \/ i = v \/ i >= v + 1
      BY <1>1
    <3> QED BY <1>5, <1>7, <2>1, <3>1 DEF AgreesFrom
  <2> QED BY <2>1 DEF AgreesFrom
<1> QED BY <1>4, <1>5, <1>6, <1>7 DEF v

LEMMA PathLonger ==
    ASSUME NEW n \in Nat, NEW v \in Var, NEW bit \in Bit, NEW s \in Seq(Var \X Bit), NEW cube,
           cube[v] = bit, OnPath(v + 1, s, cube),
           \A i \in Var : i >= n /\ i < v => cube[i] = -1
    PROVE  OnPath(n, <<<<v, bit>>>> \o s, cube)
<1> DEFINE p == <<v, bit>>
           t == <<p>> \o s
<1>1. p \in Var \X Bit
  OBVIOUS
<1>2. /\ \E j \in DOMAIN t : t[j] = p
      /\ \A i \in DOMAIN s : \E j \in DOMAIN t : t[j] = s[i]
  <2> DEFINE S == Var \X Bit
  <2>1. p \in S /\ s \in Seq(S)
    BY <1>1
  <2> HIDE DEF p, S
  <2>2. Has(t, p) /\ \A i \in DOMAIN s : Has(t, s[i])
    BY <2>1, PathPrefix
  <2> HIDE DEF t
  <2> QED BY <2>2 DEF Has
<1>3. v \in Nat /\ \A i \in Var : i \in Nat
  BY NumVarsAssumption DEF Var
<1> HIDE DEF t
<1>4. ASSUME NEW i \in Var, i >= n
      PROVE  (\E j \in DOMAIN t : t[j] = <<i, cube[i]>>) \/ cube[i] = -1
  <2>1. CASE i < v
    BY <1>4, <2>1
  <2>2. CASE i = v
    BY <1>2, <2>2
  <2>3. CASE i >= v + 1
    <3>1. (\E j \in DOMAIN s : s[j] = <<i, cube[i]>>) \/ cube[i] = -1
      BY <2>3 DEF OnPath
    <3> QED BY <1>2, <3>1
  <2> QED BY <1>3, <2>1, <2>2, <2>3
<1> QED BY <1>4 DEF OnPath, t, p

LEMMA NodePrints ==
    ASSUME NEW b, Good(b), NEW u \in bdd_node(b), u >= 2,
           NEW c \in AllsatCall, c.level <= b.T[u].var, NEW f, NEW g,
           b.T[u].low # 0 => \A d \in AllsatCall :
              d.level = b.T[u].var + 1 => f[d] \in Result /\ Prints(b, b.T[u].low, d, f[d]),
           b.T[u].high # 0 => \A d \in AllsatCall :
              d.level = b.T[u].var + 1 => g[d] \in Result /\ Prints(b, b.T[u].high, d, g[d]),
           AllsatLow(b, u, f, c) \in Result
    PROVE  Prints(b, u, c, AllsatNode(b, u, f, g, c))
<1> DEFINE v == b.T[u].var
           l == b.T[u].low
           h == b.T[u].high
           m == Marked(b, u, c)
           r0 == [A |-> m, printed |-> {}]
           r1 == AllsatLow(b, u, f, c)
           r2 == AllsatNode(b, u, f, g, c)
<1>1. /\ v \in Var /\ v \in Nat /\ l \in bdd_node(b) /\ h \in bdd_node(b) /\ l # h
      /\ ~ (u <= 1) /\ c.level \in Nat /\ c.level <= v /\ \A i \in Var : i \in Nat
  BY NodeFields, NumVarsAssumption DEF AllsatCall, Var
<1>2. 0 \in Bit /\ 1 \in Bit /\ \A x \in Assignment : x[v] = 0 \/ x[v] = 1
  BY <1>1 DEF Assignment, Bit
<1>3. m \in Array /\ r0 \in Result /\ r0.printed = {} /\ SameBefore(v, r0.A, m)
  BY MarkedArray DEF Result, SameBefore
<1>4. r1 = AllsatBranch(b, u, r0, 0, l, f) /\ r2 = AllsatBranch(b, u, r1, 1, h, g)
  BY DEF AllsatLow, AllsatNode
<1> HIDE DEF r0, r1, r2
<1>5. PICK N0 : r1.printed = N0 /\ SameBefore(v, r1.A, m) /\ Adds(b, u, m, 0, l, N0)
  <2>1. Branched(b, u, m, 0, l, r0, AllsatBranch(b, u, r0, 0, l, f))
    <3> HIDE DEF m
    <3> QED BY <1>1, <1>2, <1>3, BranchAdds
  <2>2. \E N : r1.printed = r0.printed \cup N /\ SameBefore(v, r1.A, m) /\ Adds(b, u, m, 0, l, N)
    BY <1>4, <2>1 DEF Branched
  <2> HIDE DEF v, l, h, m
  <2> QED BY <1>3, <2>2
<1>6. PICK N1 : r2.printed = N0 \cup N1 /\ SameBefore(v, r2.A, m) /\ Adds(b, u, m, 1, h, N1)
  <2>1. r1 \in Result
    BY DEF r1
  <2>2. Branched(b, u, m, 1, h, r1, AllsatBranch(b, u, r1, 1, h, g))
    <3> HIDE DEF m
    <3> QED BY <1>1, <1>2, <1>3, <1>5, <2>1, BranchAdds
  <2>3. \E N : r2.printed = r1.printed \cup N /\ SameBefore(v, r2.A, m) /\ Adds(b, u, m, 1, h, N)
    BY <1>4, <2>2 DEF Branched
  <2> HIDE DEF v, l, h, m
  <2> QED BY <1>5, <2>3
<1>7. SameBefore(c.level, r2.A, c.A)
  <2>1. \A i \in Var : m[i] = IF c.level <= i /\ i < v THEN -1 ELSE c.A[i]
    BY MarkedArray
  <2>2. \A i \in Var : i < v => r2.A[i] = m[i]
    BY <1>6 DEF SameBefore
  <2> HIDE DEF m, v
  <2>3. ASSUME NEW i \in Var, i < c.level
        PROVE  r2.A[i] = c.A[i]
    <3>1. i < v /\ ~ (c.level <= i)
      BY <1>1, <2>3
    <3> QED BY <2>1, <2>2, <3>1
  <2> QED BY <2>3 DEF SameBefore
<1>8. ASSUME NEW cube \in N0 \cup N1
      PROVE  /\ (cube[v] = 0 /\ cube \in N0) \/ (cube[v] = 1 /\ cube \in N1)
             /\ SameBefore(c.level, cube, c.A)
             /\ \A x \in Assignment : AgreesFrom(c.level, x, cube) <=>
                                         x[v] = cube[v] /\ AgreesFrom(v + 1, x, cube)
             /\ \A i \in Var : i >= c.level /\ i < v => cube[i] = -1
  <2>1. (cube[v] = 0 /\ cube \in N0) \/ (cube[v] = 1 /\ cube \in N1)
    BY <1>5, <1>6 DEF Adds
  <2>2. cube \in Array /\ SameBefore(v, cube, m) /\ cube[v] \in Bit
    BY <1>2, <1>5, <1>6, <2>1 DEF Adds
  <2>3. /\ SameBefore(c.level, cube, c.A)
        /\ \A x \in Assignment : AgreesFrom(c.level, x, cube) <=>
                                    x[v] = cube[v] /\ AgreesFrom(v + 1, x, cube)
        /\ \A i \in Var : i >= c.level /\ i < v => cube[i] = -1
    BY <1>1, <2>2, LineAgrees
  <2> QED BY <2>1, <2>3
<1>9. ASSUME NEW x \in Assignment
      PROVE  /\ x[v] = 0 => Value(b)[u][x] = Value(b)[l][x]
             /\ x[v] = 1 => Value(b)[u][x] = Value(b)[h][x]
  BY <1>1, ValueEquation DEF Branch
<1>10. ASSUME NEW x \in Assignment
       PROVE  /\ Value(b)[l][x] = 1 <=> \E cube \in N0 : AgreesFrom(v + 1, x, cube)
              /\ Value(b)[h][x] = 1 <=> \E cube \in N1 : AgreesFrom(v + 1, x, cube)
  BY <1>5, <1>6 DEF Adds
<1>11. /\ \A cube, other \in N0, x \in Assignment :
             AgreesFrom(v + 1, x, cube) /\ AgreesFrom(v + 1, x, other) => cube = other
       /\ \A cube, other \in N1, x \in Assignment :
             AgreesFrom(v + 1, x, cube) /\ AgreesFrom(v + 1, x, other) => cube = other
  BY <1>5, <1>6 DEF Adds
<1>12. \A cube \in N0 : cube[v] = 0
  BY <1>5 DEF Adds
<1>13. \A cube \in N1 : cube[v] = 1
  BY <1>6 DEF Adds
<1>14. \E cube \in N0 \cup N1 : OnPath(c.level, Paths(b)[u], cube)
  <2>1. Paths(b)[u] = PathOf(b, u)
        /\ Paths(b)[l] \in Seq(Var \X Bit) /\ Paths(b)[h] \in Seq(Var \X Bit)
    BY <1>1, PathEquation
  <2>2. CASE l # 0
    <3>1. PICK cube \in N0 : OnPath(v + 1, Paths(b)[l], cube)
      BY <1>5, <2>2 DEF Adds
    <3>2. OnPath(c.level, <<<<v, 0>>>> \o Paths(b)[l], cube)
      <4> HIDE DEF v, l
      <4> QED BY <1>1, <1>2, <1>8, <1>12, <2>1, <3>1, PathLonger
    <3>3. Paths(b)[u] = <<<<v, 0>>>> \o Paths(b)[l]
      BY <1>1, <2>1, <2>2 DEF PathOf
    <3> QED BY <3>2, <3>3
  <2>3. CASE l = 0
    <3>0. h # 0
      BY <1>1, <2>3
    <3>1. PICK cube \in N1 : OnPath(v + 1, Paths(b)[h], cube)
      BY <1>6, <3>0 DEF Adds
    <3>2. OnPath(c.level, <<<<v, 1>>>> \o Paths(b)[h], cube)
      <4> HIDE DEF v, h
      <4> QED BY <1>1, <1>2, <1>8, <1>13, <2>1, <3>1, PathLonger
    <3>3. Paths(b)[u] = <<<<v, 1>>>> \o Paths(b)[h]
      BY <1>1, <2>1, <2>3 DEF PathOf
    <3> QED BY <3>2, <3>3
  <2> QED BY <2>2, <2>3
<1> HIDE DEF v, l, h, m
<1>15. ASSUME NEW x \in Assignment
       PROVE  Value(b)[u][x] = 1 <=> \E cube \in N0 \cup N1 : AgreesFrom(c.level, x, cube)
  <2>1. CASE x[v] = 0
    <3>1. (\E cube \in N0 \cup N1 : AgreesFrom(c.level, x, cube))
          <=> \E cube \in N0 : AgreesFrom(v + 1, x, cube)
      BY <1>8, <1>12, <1>13, <2>1
    <3> QED BY <1>9, <1>10, <2>1, <3>1
  <2>2. CASE x[v] = 1
    <3>1. (\E cube \in N0 \cup N1 : AgreesFrom(c.level, x, cube))
          <=> \E cube \in N1 : AgreesFrom(v + 1, x, cube)
      BY <1>8, <1>12, <1>13, <2>2
    <3> QED BY <1>9, <1>10, <2>2, <3>1
  <2> QED BY <1>2, <2>1, <2>2
<1>16. ASSUME NEW cube \in N0 \cup N1, NEW other \in N0 \cup N1, NEW x \in Assignment,
              AgreesFrom(c.level, x, cube), AgreesFrom(c.level, x, other)
       PROVE  cube = other
  <2>1. /\ cube[v] = x[v] /\ AgreesFrom(v + 1, x, cube)
        /\ other[v] = x[v] /\ AgreesFrom(v + 1, x, other)
    BY <1>8, <1>16
  <2>2. (cube \in N0 /\ other \in N0) \/ (cube \in N1 /\ other \in N1)
    BY <1>8, <2>1
  <2> QED BY <1>11, <2>1, <2>2
<1>17. Prints(b, u, c, r2)
  BY <1>6, <1>7, <1>8, <1>14, <1>15, <1>16 DEF Prints
<1> QED BY <1>17 DEF r2

LEMMA AllsatPrints ==
    ASSUME NEW b, Good(b)
    PROVE  \A u \in bdd_node(b) \ {0}, c \in AllsatCall :
              c.level <= b.T[u].var => Prints(b, u, c, allsat_rec(b)[u][c])
<1> DEFINE N == bdd_node(b) \ {0}
           R == allsat_rec(b)
           Right(u) == \A c \in AllsatCall : c.level <= b.T[u].var => Prints(b, u, c, R[u][c])
           T == {n \in Nat : \A u \in N : b.T[u].var >= n => Right(u)}
<1>1. \A u \in N :
        /\ R[u] \in [AllsatCall -> Result]
        /\ \A c \in AllsatCall :
              R[u][c] = IF u = 1 THEN [A |-> Marked(b, u, c), printed |-> {Marked(b, u, c)}]
                        ELSE AllsatNode(b, u, R[b.T[u].low], R[b.T[u].high], c)
  BY AllsatRec DEF AllsatEquation
<1> HIDE DEF R
<1>2. ASSUME NEW u \in N, u <= 1
      PROVE  Right(u)
  <2>1. u = 1
    BY <1>2, NodeFields
  <2>2. \A c \in AllsatCall :
          R[u][c] = [A |-> Marked(b, u, c), printed |-> {Marked(b, u, c)}]
    BY <1>1, <2>1
  <2>3. \A c \in AllsatCall :
          Prints(b, u, c, [A |-> Marked(b, u, c), printed |-> {Marked(b, u, c)}])
    BY <2>1, LeafPrints
  <2> QED BY <2>2, <2>3
<1>3. NumVars + 1 \in T
  <2>1. ASSUME NEW u \in N, b.T[u].var >= NumVars + 1
        PROVE  u <= 1
    BY <2>1, NodeFields, NumVarsAssumption
  <2> HIDE DEF Right
  <2> QED BY <1>2, <2>1, NumVarsAssumption
<1>4. ASSUME NEW n \in Var, n + 1 \in T
      PROVE  n \in T
  <2>1. n \in Nat
    BY NumVarsAssumption DEF Var
  <2>2. ASSUME NEW u \in N, b.T[u].var >= n, u >= 2
        PROVE  Right(u)
    <3> DEFINE v == b.T[u].var
               l == b.T[u].low
               h == b.T[u].high
    <3>1. /\ l \in bdd_node(b) /\ h \in bdd_node(b) /\ v \in Var /\ u # 1
          /\ b.T[l].var > v /\ b.T[h].var > v
      BY <2>2, NodeFields
    <3>2. b.T[l].var >= n + 1 /\ b.T[h].var >= n + 1
      BY <2>1, <2>2, <3>1, NodeFields
    <3>3. b.T[l].var >= v + 1 /\ b.T[h].var >= v + 1 /\ v \in Nat
      BY <2>1, <2>2, <3>1, NodeFields
    <3>4. l # 0 => Right(l) /\ R[l] \in [AllsatCall -> Result]
      <4> HIDE DEF Right
      <4> QED BY <1>1, <1>4, <3>1, <3>2
    <3>5. h # 0 => Right(h) /\ R[h] \in [AllsatCall -> Result]
      <4> HIDE DEF Right
      <4> QED BY <1>1, <1>4, <3>1, <3>2
    <3> SUFFICES ASSUME NEW c \in AllsatCall, c.level <= v
                 PROVE  Prints(b, u, c, R[u][c])
      OBVIOUS
    <3>6. l # 0 => \A d \in AllsatCall : d.level = v + 1 => R[l][d] \in Result /\ Prints(b, l, d, R[l][d])
      BY <3>3, <3>4
    <3>7. h # 0 => \A d \in AllsatCall : d.level = v + 1 => R[h][d] \in Result /\ Prints(b, h, d, R[h][d])
      BY <3>3, <3>5
    <3>8. AllsatLow(b, u, R[l], c) \in Result
      BY <3>1, <3>4, <3>5, NodeResult
    <3>9. Prints(b, u, c, AllsatNode(b, u, R[l], R[h], c))
      BY <2>2, <3>6, <3>7, <3>8, NodePrints
    <3> QED BY <1>1, <3>1, <3>9
  <2>3. \A u \in N : u <= 1 \/ u >= 2
    BY NodeFields
  <2> HIDE DEF N, Right
  <2> QED BY <1>2, <2>1, <2>2, <2>3
<1> HIDE DEF T
<1>5. 1 .. NumVars + 1 \subseteq T
  BY <1>3, <1>4, BottomUp
<1>6. 1 \in T /\ \A u \in N : b.T[u].var >= 1
  BY <1>5, NumVarsAssumption, NodeFields
<1>7. \A u \in N : Right(u)
  BY <1>6 DEF T
<1> QED BY <1>7 DEF R

-------------------------------------------------------------------------------
(* The size never exceeds the array, and the array and the hash table hold *)
(* nodes.                                                                  *)
THEOREM TypeCorrect == BddSpec => []TypeOK
BY Inductive, PTL DEF IInv

(* What the loop of is_bdd checks of each node holds after every sequence  *)
(* of calls, so REQUIRES(is_bdd(B)) at the head of the functions of        *)
(* robdd.cpp fails in one case only: make has filled the last slot.        *)
THEOREM StaysBdd == BddSpec => [](ValidNodes /\ (is_bdd <=> B.size # Limit))
<1>1. IInv => ValidNodes /\ (is_bdd <=> B.size # Limit)
  BY LimitAssumption DEF IInv, is_bdd, TypeOK, Bdd
<1> QED BY <1>1, Inductive, PTL

(* The BDD is reduced, which is_bdd leaves unchecked: no redundant test,   *)
(* no node twice.                                                          *)
THEOREM StaysReduced == BddSpec => []Reduced
BY Inductive, PTL DEF IInv

(* make returns the node it was asked for, found or new.                   *)
THEOREM MakeReturnsNode == BddSpec => []MakeFinds
<1>1. IInv => MakeFinds
  <2> SUFFICES ASSUME IInv, NEW v \in Var, NEW l \in bdd_node(B), NEW h \in bdd_node(B),
                      Callable(B, v, l, h), make(B, v, l, h).ok
               PROVE  IF l = h THEN make(B, v, l, h).u = l
                      ELSE make(B, v, l, h).bdd.T[make(B, v, l, h).u]
                              = [var |-> v, low |-> l, high |-> h]
    BY DEF MakeFinds
  <2>1. Good(B)
    BY GoodIInv
  <2> QED BY <2>1, MakeGood DEF Wanted
<1> QED BY <1>1, Inductive, PTL

(* No call changes or removes a node that a client may hold: apply, which  *)
(* memoizes node numbers, relies on it.                                    *)
THEOREM NodesRemain == BddSpec => NodesStay
<1>1. IInv /\ [BddNext]_vars =>
        [bdd_node(B) \subseteq bdd_node(B') /\ \A u \in bdd_node(B) : B'.T[u] = B.T[u]]_vars
  BY GoodIInv, StepGood DEF Extends
<1> QED BY <1>1, Inductive, PTL DEF BddSpec, NodesStay

(* Whatever was built before, two nodes of the diagram never mean the same *)
(* function: the library may test equivalence by comparing numbers.        *)
THEOREM CanonicalForm == BddSpec => []Canonical
<1>1. IInv => Canonical
  <2> SUFFICES ASSUME IInv, NEW u \in bdd_node(B), NEW w \in bdd_node(B),
                      Models(B, u) = Models(B, w)
               PROVE  u = w
    BY DEF Canonical
  <2>1. Good(B)
    BY GoodIInv
  <2> QED BY <2>1, ModelsValue, SameNode
<1> QED BY <1>1, Inductive, PTL

(* apply computes the function it is given, whatever order C++ evaluates   *)
(* make's arguments in, although its memo table was made while the diagram *)
(* grew.                                                                   *)
THEOREM ApplyRight == BddSpec => []ApplyComputes
<1>1. IInv => ApplyComputes
  <2> SUFFICES ASSUME IInv, NEW f \in {my_and, my_xor},
                      NEW u1 \in bdd_node(B), NEW u2 \in bdd_node(B), NEW lowFirst \in BOOLEAN,
                      apply(B, f, u1, u2, lowFirst).ok
               PROVE  Models(apply(B, f, u1, u2, lowFirst).bdd, apply(B, f, u1, u2, lowFirst).u)
                      = Combined(f, Models(B, u1), Models(B, u2))
    BY DEF ApplyComputes
  <2> DEFINE r == apply(B, f, u1, u2, lowFirst)
             Bits(x) == <<IF x \in Models(B, u1) THEN 1 ELSE 0, IF x \in Models(B, u2) THEN 1 ELSE 0>>
  <2>1. Good(B) /\ f \in Function
    BY GoodIInv, Functions
  <2>2. /\ Good(r.bdd) /\ Extends(B, r.bdd)
        /\ Computes(r.bdd, f, u1, u2, r.u)
    BY <2>1, ApplyAnswers
  <2> HIDE DEF r
  <2>3. ASSUME NEW x \in Assignment
        PROVE  Value(r.bdd)[r.u][x] = f[Bits(x)]
    <3>1. Value(B)[u1][x] \in Bit /\ Value(B)[u2][x] \in Bit
      BY <2>1, ValueBit
    <3>2. Value(r.bdd)[u1][x] = Value(B)[u1][x] /\ Value(r.bdd)[u2][x] = Value(B)[u2][x]
      BY <2>1, <2>2, ValueStays
    <3>3. Bits(x) = <<Value(B)[u1][x], Value(B)[u2][x]>>
      BY <3>1 DEF Models, Bit
    <3> HIDE DEF Bits
    <3> QED BY <2>2, <3>2, <3>3 DEF Computes
  <2>4. Combined(f, Models(B, u1), Models(B, u2)) = {x \in Assignment : f[Bits(x)] = 1}
    BY DEF Combined
  <2> HIDE DEF Bits
  <2> QED BY <2>3, <2>4 DEF Models, r
<1> QED BY <1>1, Inductive, PTL

(* satcount returns the number of satisfying assignments, or aborts, just  *)
(* where the result does not fit in an int: none of the checks on shifts   *)
(* and sums in between gives up on a count that does fit.                  *)
THEOREM SatCountRight == BddSpec => []SatCountExact
<1>1. IInv => SatCountExact
  <2> SUFFICES ASSUME IInv, NEW u \in bdd_node(B)
               PROVE  satcount(B, u) = Capped(Cardinality(Models(B, u)))
    BY DEF SatCountExact, Capped
  <2>1. Good(B)
    BY GoodIInv
  <2>2. PICK m : Counts(B, u, m)
    BY <2>1, CountRight
  <2>3. B.T[u].var - 1 \in Nat
    BY <2>1, NodeFields
  <2> QED BY <2>2, <2>3, ShiftCapped DEF Counts, satcount
<1> QED BY <1>1, Inductive, PTL

(* The lines allsat prints divide up the satisfying assignments, although  *)
(* they are all made in one array, and onesat prints the tests of one of   *)
(* them.                                                                   *)
THEOREM PrintedRight == BddSpec => []PrintedAssignments
<1>1. IInv => PrintedAssignments
  <2> SUFFICES ASSUME IInv, NEW u \in bdd_node(B) \ {0}
               PROVE  /\ {x \in Assignment : \E cube \in allsat(B, u) : Agrees(x, cube)} = Models(B, u)
                      /\ \A c, d \in allsat(B, u) : c # d =>
                            ~ \E x \in Assignment : Agrees(x, c) /\ Agrees(x, d)
                      /\ \E cube \in allsat(B, u) : \A i \in Var :
                            \/ \E j \in DOMAIN onesat(B, u) : onesat(B, u)[j] = <<i, cube[i]>>
                            \/ cube[i] = -1
    BY DEF PrintedAssignments
  <2> DEFINE A == [i \in Var |-> 0]
             c == [A |-> A, level |-> 1]
             r == allsat_rec(B)[u][c]
  <2>1. Good(B)
    BY GoodIInv
  <2>2. A \in Array
    BY DEF Array, Bit
  <2>3. c \in AllsatCall /\ c.level = 1
    BY <2>2, NumVarsAssumption DEF AllsatCall
  <2>4. B.T[u].var >= 1
    BY <2>1, NodeFields
  <2>5. Prints(B, u, c, r)
    BY <2>1, <2>3, <2>4, AllsatPrints
  <2>6. allsat(B, u) = r.printed /\ onesat(B, u) = Paths(B)[u]
    BY DEF allsat, onesat
  <2>7. \A i \in Var : i >= 1
    BY NumVarsAssumption DEF Var
  <2> HIDE DEF r, c
  <2>8. \A x, cube : AgreesFrom(c.level, x, cube) <=> Agrees(x, cube)
    BY <2>3, <2>7 DEF Agrees, AgreesFrom
  <2> QED BY <2>3, <2>5, <2>6, <2>7, <2>8 DEF Prints, OnPath, Models
<1> QED BY <1>1, Inductive, PTL

(* The store's hash table has at most one element for a node: the set of   *)
(* elements that RobddStore keeps is a map of the kind the theorems below  *)
(* show table_insert and table_search to implement.                        *)
THEOREM EntriesUnique == BddSpec => [](\A a \in Node : \A e, f \in Entries(B, a) : e = f)
<1>1. IInv => \A a \in Node : \A e, f \in Entries(B, a) : e = f
  <2> SUFFICES ASSUME IInv, NEW a \in Node, NEW e \in Entries(B, a), NEW f \in Entries(B, a)
               PROVE  e = f
    OBVIOUS
  <2>1. Good(B) /\ e \in B.H /\ f \in B.H /\ e.e_node = a /\ f.e_node = a
    BY GoodIInv DEF Entries
  <2>2. e \in Elem /\ f \in Elem
    BY <2>1 DEF Good, Bdd
  <2>3. e.u = f.u
    BY <2>1 DEF Good
  <2> QED BY <2>1, <2>2, <2>3 DEF Elem
<1> QED BY <1>1, Inductive, PTL

-------------------------------------------------------------------------------
(* The hash tables                                                         *)

(* What KeysDistinct says of one chain.                                    *)
Distinct(C) ==
    \A p, q \in DOMAIN C : elem_key[C[p]] = elem_key[C[q]] => p = q

(* In a chain with distinct keys chain_find has one position to choose.    *)
LEMMA FindUnique ==
    ASSUME NEW C \in Seq(ht_elem), Distinct(C), NEW k \in ht_key, NEW p \in Positions(C, k)
    PROVE  chain_find(C, k) = p
<1>1. p \in DOMAIN C /\ IsFirst(C, k, p)
  BY DEF Positions, IsFirst, Distinct
<1>2. \A q \in DOMAIN C : IsFirst(C, k, q) => q = p
  BY DEF Positions, IsFirst, Distinct
<1>. QED
  BY <1>1, <1>2 DEF chain_find

(* A chain with a new element at the beginning.                            *)
LEMMA Prepended ==
    ASSUME NEW C \in Seq(ht_elem), NEW e \in ht_elem
    PROVE  /\ <<e>> \o C \in Seq(ht_elem)
           /\ DOMAIN (<<e>> \o C) = 1 .. Len(C) + 1
           /\ (<<e>> \o C)[1] = e
           /\ \A p \in DOMAIN C : p + 1 \in DOMAIN (<<e>> \o C) /\ (<<e>> \o C)[p + 1] = C[p]
           /\ \A p \in DOMAIN (<<e>> \o C) :
                 p = 1 \/ (p - 1 \in DOMAIN C /\ (<<e>> \o C)[p] = C[p - 1])
OBVIOUS

-------------------------------------------------------------------------------
(* One call of table_insert, on the chain of the key                       *)

LEMMA InsertNewStep ==
    ASSUME TableInv, NEW e \in ht_elem, InsertNew(e)
    PROVE  /\ TableInv'
           /\ \A k \in ht_key : table_search(k)' =
                 IF k = elem_key[e] THEN e ELSE table_search(k)
           /\ table_search(elem_key[e]) = NULL_elem
<1>. DEFINE key == elem_key[e]
            hv == hash[key]
            C == array[hv]
            D == <<e>> \o C
<1>1. key \in ht_key /\ hv \in 0 .. size - 1 /\ C \in Seq(ht_elem) /\ Positions(C, key) = {}
  BY ElemKeyAssumption, HashAssumption DEF TableInv, TableTypeOK, InsertNew
<1>2. /\ D \in Seq(ht_elem)
      /\ DOMAIN D = 1 .. Len(C) + 1
      /\ D[1] = e
      /\ \A p \in DOMAIN C : p + 1 \in DOMAIN D /\ D[p + 1] = C[p]
      /\ \A p \in DOMAIN D : p = 1 \/ (p - 1 \in DOMAIN C /\ D[p] = C[p - 1])
  BY <1>1, Prepended
<1>3. array' = [array EXCEPT ![hv] = D]
  BY DEF InsertNew
<1>. HIDE DEF D
<1>4. TableTypeOK'
  BY <1>1, <1>2, <1>3 DEF TableInv, TableTypeOK, InsertNew
<1>5. is_table'
  <2>. SUFFICES ASSUME NEW h \in 0 .. size - 1, NEW p \in DOMAIN array'[h]
                PROVE  hash[elem_key[array'[h][p]]] = h
    BY DEF is_table
  <2>1. CASE h # hv
    BY <2>1, <1>3 DEF TableInv, TableTypeOK, is_table
  <2>2. CASE h = hv
    <3>1. array'[h] = D
      BY <2>2, <1>1, <1>3 DEF TableInv, TableTypeOK
    <3>. QED
      BY SMTT(30), <2>2, <3>1, <1>1, <1>2 DEF TableInv, is_table
  <2>. QED
    BY <2>1, <2>2
<1>6. \A p \in DOMAIN C : elem_key[C[p]] # key
  BY <1>1 DEF Positions
<1>7. KeysDistinct'
  <2>. SUFFICES ASSUME NEW h \in 0 .. size - 1, NEW p \in DOMAIN array'[h],
                       NEW q \in DOMAIN array'[h],
                       elem_key[array'[h][p]] = elem_key[array'[h][q]]
                PROVE  p = q
    BY DEF KeysDistinct
  <2>1. CASE h # hv
    BY <2>1, <1>3 DEF TableInv, TableTypeOK, KeysDistinct
  <2>2. CASE h = hv
    <3>1. array'[h] = D
      BY <2>2, <1>1, <1>3 DEF TableInv, TableTypeOK
    <3>2. p \in 1 .. Len(C) + 1 /\ q \in 1 .. Len(C) + 1
      BY <3>1, <1>2
    <3>3. Len(C) \in Nat /\ DOMAIN C = 1 .. Len(C)
      BY <1>1
    <3>4. CASE p = 1 \/ q = 1
      BY <3>1, <3>4, <1>2, <1>6
    <3>5. CASE p # 1 /\ q # 1
      <4>1. p - 1 \in DOMAIN C /\ q - 1 \in DOMAIN C
            /\ elem_key[C[p - 1]] = elem_key[C[q - 1]]
        BY <3>1, <3>5, <1>2
      <4>2. p - 1 = q - 1
        BY <4>1, <1>1 DEF TableInv, KeysDistinct
      <4>. QED
        BY <4>2, <3>2, <3>3
    <3>. QED
      BY <3>4, <3>5
  <2>. QED
    BY <2>1, <2>2
<1>8. \A k \in ht_key : table_search(k)' = IF k = elem_key[e] THEN e ELSE table_search(k)
  <2>. SUFFICES ASSUME NEW k \in ht_key
                PROVE  table_search(k)' = IF k = elem_key[e] THEN e ELSE table_search(k)
    OBVIOUS
  <2>0. hash[k] \in 0 .. size - 1
    BY HashAssumption
  <2>1. CASE hash[k] # hv
    <3>1. array'[hash[k]] = array[hash[k]]
      BY <2>0, <2>1, <1>3 DEF TableInv, TableTypeOK
    <3>. QED
      BY <2>1, <3>1 DEF table_search
  <2>2. CASE hash[k] = hv
    <3>1. array'[hash[k]] = D
      BY <2>2, <1>1, <1>3 DEF TableInv, TableTypeOK
    <3>2. Distinct(C) /\ Distinct(D)
      BY <1>1, <1>7, <2>2, <3>1 DEF TableInv, KeysDistinct, Distinct
    <3>3. CASE k = key
      <4>1. 1 \in Positions(D, k)
        BY <3>3, <1>1, <1>2 DEF Positions
      <4>2. chain_find(D, k) = 1
        BY <4>1, <3>2, <1>2, FindUnique
      <4>. QED
        BY <4>1, <4>2, <3>1, <3>3, <1>2 DEF table_search
    <3>4. CASE k # key /\ Positions(C, k) = {}
      <4>1. Positions(D, k) = {}
        BY <3>4, <1>2 DEF Positions
      <4>. QED
        BY <4>1, <3>1, <3>4, <2>2 DEF table_search
    <3>5. CASE k # key /\ Positions(C, k) # {}
      <4>1. PICK p \in Positions(C, k) : TRUE
        BY <3>5
      <4>2. p \in DOMAIN C /\ elem_key[C[p]] = k
        BY <4>1 DEF Positions
      <4>3. p + 1 \in Positions(D, k) /\ D[p + 1] = C[p]
        BY <4>2, <1>2 DEF Positions
      <4>4. chain_find(C, k) = p /\ chain_find(D, k) = p + 1
        BY <4>1, <4>3, <3>2, <1>1, <1>2, FindUnique
      <4>. QED
        BY <4>3, <4>4, <3>1, <3>5, <2>2 DEF table_search
    <3>. QED
      BY <3>3, <3>4, <3>5
  <2>. QED
    BY <2>1, <2>2
<1>9. table_search(elem_key[e]) = NULL_elem
  BY <1>1 DEF table_search
<1>. QED
  BY <1>4, <1>5, <1>7, <1>8, <1>9 DEF TableInv

LEMMA OverwriteStep ==
    ASSUME TableInv, NEW e \in ht_elem, Overwrite(e)
    PROVE  /\ TableInv'
           /\ \A k \in ht_key : table_search(k)' =
                 IF k = elem_key[e] THEN e ELSE table_search(k)
           /\ old_e' = table_search(elem_key[e])
<1>. DEFINE key == elem_key[e]
            hv == hash[key]
            C == array[hv]
            at == chain_find(C, key)
            D == [C EXCEPT ![at] = e]
<1>1. key \in ht_key /\ hv \in 0 .. size - 1 /\ C \in Seq(ht_elem) /\ Positions(C, key) # {}
  BY ElemKeyAssumption, HashAssumption DEF TableInv, TableTypeOK, Overwrite
<1>2. Distinct(C)
  BY <1>1 DEF TableInv, KeysDistinct, Distinct
<1>3. at \in DOMAIN C /\ elem_key[C[at]] = key
  <2>1. PICK p \in Positions(C, key) : TRUE
    BY <1>1
  <2>2. at = p
    BY <1>1, <1>2, <2>1, FindUnique
  <2>. QED
    BY <2>1, <2>2 DEF Positions
<1>4. array' = [array EXCEPT ![hv] = D]
  BY DEF Overwrite
<1>5. old_e' = C[at] /\ num_elems' = num_elems
  BY DEF Overwrite
<1>. HIDE DEF at
<1>6. /\ D \in Seq(ht_elem)
      /\ DOMAIN D = DOMAIN C
      /\ \A p \in DOMAIN C : elem_key[D[p]] = elem_key[C[p]]
      /\ \A p \in DOMAIN C : D[p] = IF p = at THEN e ELSE C[p]
  BY <1>1, <1>3
<1>. HIDE DEF D
<1>7. array'[hv] = D /\ \A h \in 0 .. size - 1 : h # hv => array'[h] = array[h]
  BY <1>1, <1>4 DEF TableInv, TableTypeOK
<1>8. TableTypeOK'
  BY SMTT(30), <1>1, <1>3, <1>4, <1>5, <1>6 DEF TableInv, TableTypeOK
<1>9. is_table'
  BY <1>1, <1>6, <1>7 DEF TableInv, is_table
<1>10. KeysDistinct'
  BY <1>1, <1>6, <1>7 DEF TableInv, KeysDistinct
<1>11. \A k \in ht_key : table_search(k)' = IF k = elem_key[e] THEN e ELSE table_search(k)
  <2>. SUFFICES ASSUME NEW k \in ht_key
                PROVE  table_search(k)' = IF k = elem_key[e] THEN e ELSE table_search(k)
    OBVIOUS
  <2>0. hash[k] \in 0 .. size - 1
    BY HashAssumption
  <2>1. CASE hash[k] # hv
    BY <2>0, <2>1, <1>7 DEF table_search
  <2>2. CASE hash[k] = hv
    <3>1. Positions(D, k) = Positions(C, k)
      BY <1>6 DEF Positions
    <3>2. Distinct(D)
      BY <1>2, <1>6 DEF Distinct
    <3>3. CASE Positions(C, k) = {}
      BY <3>1, <3>3, <2>2, <1>1, <1>7 DEF table_search
    <3>4. CASE Positions(C, k) # {}
      <4>1. PICK p \in Positions(C, k) : TRUE
        BY <3>4
      <4>2. chain_find(C, k) = p /\ chain_find(D, k) = p
        BY <4>1, <3>1, <3>2, <1>1, <1>2, <1>6, FindUnique
      <4>3. p \in DOMAIN C /\ elem_key[C[p]] = k
        BY <4>1 DEF Positions
      <4>4. D[p] = IF k = key THEN e ELSE C[p]
        BY <4>3, <1>2, <1>3, <1>6 DEF Distinct
      <4>. QED
        BY <4>2, <4>4, <3>1, <3>4, <2>2, <1>7 DEF table_search
    <3>. QED
      BY <3>3, <3>4
  <2>. QED
    BY <2>1, <2>2
<1>12. table_search(elem_key[e]) = C[at]
  BY <1>1 DEF table_search, at
<1>. QED
  BY <1>5, <1>8, <1>9, <1>10, <1>11, <1>12 DEF TableInv

-------------------------------------------------------------------------------
LEMMA TableInductive == TableSpec => []TableInv
<1>1. table_new => TableInv
  BY SizeAssumption DEF table_new, TableInv, TableTypeOK, is_table, KeysDistinct
<1>2. TableInv /\ [TableNext]_tableVars => TableInv'
  <2>. SUFFICES ASSUME TableInv, [TableNext]_tableVars PROVE TableInv'
    OBVIOUS
  <2>1. ASSUME NEW e \in ht_elem, table_insert(e) PROVE TableInv'
    BY <2>1, InsertNewStep, OverwriteStep DEF table_insert
  <2>2. CASE UNCHANGED tableVars
    BY <2>2 DEF tableVars, TableInv, TableTypeOK, is_table, KeysDistinct
  <2>. QED
    BY <2>1, <2>2 DEF TableNext
<1>. QED
  BY <1>1, <1>2, PTL DEF TableSpec

(* The arrays hold sequences of elements, and the results are elements.    *)
THEOREM TableTypeCorrect == TableSpec => []TableTypeOK
BY TableInductive, PTL DEF TableInv

(* Every element stays in the chain of its hash value: is_table, which the *)
(* contracts of every function of hashtable.c require and ensure.          *)
THEOREM IsTable == TableSpec => []is_table
BY TableInductive, PTL DEF TableInv

(* The keys of a chain are pairwise distinct, which is_h_chain says it     *)
(* does not check.                                                         *)
THEOREM KeysAreDistinct == TableSpec => []KeysDistinct
BY TableInductive, PTL DEF TableInv

(* The table implements the map of hashtable.h.                            *)
THEOREM TableRefinement == TableSpec => MapSpec
<1>1. table_new => Map!Init
  <2>. SUFFICES ASSUME table_new PROVE Map!Init
    OBVIOUS
  <2>1. ASSUME NEW k \in ht_key PROVE table_search(k) = NULL_elem
    <3>1. hash[k] \in 0 .. size - 1
      BY HashAssumption
    <3>2. array[hash[k]] = <<>>
      BY <3>1 DEF table_new
    <3>. QED
      BY <3>2 DEF table_search, Positions
  <2>. QED
    BY <2>1 DEF table_new, Map!Init
<1>2. TableInv /\ [TableNext]_tableVars => [Map!Next]_<<[k \in ht_key |-> table_search(k)], old_e>>
  <2>. SUFFICES ASSUME TableInv, [TableNext]_tableVars
                PROVE  [Map!Next]_<<[k \in ht_key |-> table_search(k)], old_e>>
    OBVIOUS
  <2>1. ASSUME NEW e \in ht_elem, table_insert(e) PROVE Map!Insert(e)
    <3>1. /\ \A k \in ht_key : table_search(k)' =
                IF k = elem_key[e] THEN e ELSE table_search(k)
          /\ old_e' = table_search(elem_key[e])
      BY <2>1, InsertNewStep, OverwriteStep DEF table_insert, InsertNew
    <3>2. elem_key[e] \in ht_key
      BY ElemKeyAssumption
    <3>. QED
      BY <3>1, <3>2 DEF Map!Insert
  <2>2. CASE UNCHANGED tableVars
    BY <2>2 DEF tableVars, table_search
  <2>. QED
    BY <2>1, <2>2 DEF TableNext, Map!Next
<1>. QED
  BY <1>1, <1>2, TableInductive, PTL DEF TableSpec, MapSpec, Map!Spec
===============================================================================
