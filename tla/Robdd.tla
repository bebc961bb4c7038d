--------------------------------- MODULE Robdd ---------------------------------
(***************************************************************************)
(* The operations of the BDD library (robdd/robdd.cpp) on top of make.     *)
(* The recursive functions of the code are recursive here, over the nodes  *)
(* or the depth of the recursion, and are compared with the meaning of a   *)
(* node, the set of assignments it is 1 for.                               *)
(*                                                                         *)
(* The memo table of satcount_rec only saves time and is left out; that of *)
(* apply_rec is kept, as its entries were made in a smaller bdd.           *)
(***************************************************************************)
EXTENDS RobddStore, FiniteSets, Sequences

CONSTANT IntBits          \* 8 * sizeof(int)

ASSUME IntBitsAssumption == IntBits \in Nat /\ IntBits >= 2

INT_MAX == 2 ^ (IntBits - 1) - 1

Bit == {0, 1}
Assignment == [Var -> Bit]

-------------------------------------------------------------------------------
(* The value of each node under an assignment, and the meaning of node u,  *)
(* for reference.                                                          *)
Value(b) ==
    LET value[u \in bdd_node(b)] ==
            [x \in Assignment |->
                IF u <= 1 THEN u
                ELSE IF x[b.T[u].var] = 0 THEN value[b.T[u].low][x]
                ELSE value[b.T[u].high][x]]
    IN  value

Models(b, u) == LET value == Value(b)[u] IN {x \in Assignment : value[x] = 1}

-------------------------------------------------------------------------------
(* The Boolean functions passed to apply; my_or differs in its table only, *)
(* and is left out.                                                        *)
my_and == [p \in Bit \X Bit |-> IF p = <<1, 1>> THEN 1 ELSE 0]
my_xor == [p \in Bit \X Bit |-> IF p[1] = p[2] THEN 0 ELSE 1]

(* struct apfun: an entry of the memo table.                               *)
ApFun == [u1 : Nat, u2 : Nat, u12 : Nat]

(* A call of apply_rec, with the bdd and the memo table it works on.       *)
ApplyCall == [b : Bdd, u1 : Nat, u2 : Nat, S : SUBSET ApFun]

(* The results of apply_rec carry the memo table S on.                     *)
With(r, S) == [bdd |-> r.bdd, u |-> r.u, ok |-> r.ok, S |-> S]

Memo(S, u1, u2) == {ap \in S : ap.u1 = u1 /\ ap.u2 = u2}

(* Mutant: the cases v1 < v2 and v1 > v2 are not told from v1 = v2.        *)
LowOfBoth(b, u, v) == IF u > 1 THEN b.T[u].low ELSE u

(* The successors of u under the variable v: u itself where v is not       *)
(* tested.                                                                 *)
Low(b, u, v) == IF b.T[u].var = v THEN b.T[u].low ELSE u
High(b, u, v) == IF b.T[u].var = v THEN b.T[u].high ELSE u

Top(b, u1, u2) ==
    IF b.T[u1].var <= b.T[u2].var THEN b.T[u1].var ELSE b.T[u2].var

(* The body of apply_rec, its calls of itself through rec.  C++ does not   *)
(* say which of make's two arguments is computed first.                    *)
apply_body(f, lowFirst, rec, c) ==
    IF Memo(c.S, c.u1, c.u2) # {}
    THEN With(Returns(c.b, (CHOOSE ap \in Memo(c.S, c.u1, c.u2) : TRUE).u12), c.S)
    ELSE LET v == Top(c.b, c.u1, c.u2)
             low(b, S) == rec[[b |-> b, u1 |-> Low(c.b, c.u1, v),
                               u2 |-> Low(c.b, c.u2, v), S |-> S]]
             high(b, S) == rec[[b |-> b, u1 |-> High(c.b, c.u1, v),
                                u2 |-> High(c.b, c.u2, v), S |-> S]]
             r1 == IF lowFirst THEN low(c.b, c.S) ELSE high(c.b, c.S)
             r2 == IF lowFirst THEN high(r1.bdd, r1.S) ELSE low(r1.bdd, r1.S)
             r == IF lowFirst THEN make(r2.bdd, v, r1.u, r2.u)
                  ELSE make(r2.bdd, v, r2.u, r1.u)
         IN  IF ~ r1.ok THEN r1
             ELSE IF ~ r2.ok THEN r2
             ELSE With(r, r2.S \cup {[u1 |-> c.u1, u2 |-> c.u2, u12 |-> r.u]})

(* rec[n] is apply_rec where n variables are left to test, at most; with   *)
(* none left, both nodes are terminals.                                    *)
apply_rec(f, lowFirst) ==
    LET rec[n \in 0 .. NumVars] ==
            [c \in ApplyCall |->
                IF n = 0 \/ (c.u1 <= 1 /\ c.u2 <= 1)
                THEN With(Returns(c.b, f[<<c.u1, c.u2>>]), c.S)
                ELSE apply_body(f, lowFirst, rec[n - 1], c)]
    IN  rec[NumVars]

apply(b, f, u1, u2, lowFirst) ==
    apply_rec(f, lowFirst)[[b |-> b, u1 |-> u1, u2 |-> u2, S |-> {}]]

-------------------------------------------------------------------------------
(* Counting: -1 stands for the abort() on overflow.                        *)
Overflow == -1

(* Mutant: the bound itself counts as an overflow.                         *)
ShiftStrict(n, k) ==
    IF n = Overflow \/ (n > 0 /\ k >= IntBits) \/ n >= INT_MAX \div 2 ^ k
    THEN Overflow ELSE n * 2 ^ k

safe_shiftl(n, k) ==
    IF n = Overflow \/ (n > 0 /\ k >= IntBits) \/ n > INT_MAX \div 2 ^ k
    THEN Overflow ELSE n * 2 ^ k

safe_plus(m, n) ==
    IF Overflow \in {m, n} \/ n > INT_MAX - m THEN Overflow ELSE m + n

satcount_rec(b) ==
    LET count[u \in bdd_node(b)] ==
            IF u <= 1 THEN u
            ELSE LET a == b.T[u]
                     below(w) == safe_shiftl(count[w], b.T[w].var - a.var - 1)
                 IN  safe_plus(below(a.low), below(a.high))
    IN  count

satcount(b, u) == safe_shiftl(satcount_rec(b)[u], b.T[u].var - 1)

-------------------------------------------------------------------------------
(* Printing assignments.  A is the array the recursion shares, -1 for a    *)
(* redundant test; the result is A as it is left and the lines printed.    *)

(* Mutant: the entries of the variables in between are left as they are.   *)
LeaveRedundant(A, level, v) == A

MarkRedundant(A, level, v) ==
    [i \in Var |-> IF level <= i /\ i < v THEN -1 ELSE A[i]]

Array == [Var -> {-1} \cup Bit]

AllsatCall == [A : Array, level : 1 .. NumVars + 1]

allsat_rec(b) ==
    LET rec[u \in bdd_node(b) \ {0}] ==
            [c \in AllsatCall |->
                LET a == b.T[u]
                    marked == MarkRedundant(c.A, c.level, a.var)
                    branch(r, bit, w) ==
                        IF w = 0 THEN r
                        ELSE LET s == rec[w][[A |-> [r.A EXCEPT ![a.var] = bit],
                                              level |-> a.var + 1]]
                             IN  [A |-> s.A, printed |-> r.printed \cup s.printed]
                IN  IF u = 1 THEN [A |-> marked, printed |-> {marked}]
                    ELSE branch(branch([A |-> marked, printed |-> {}], 0, a.low), 1, a.high)]
    IN  rec

allsat(b, u) == allsat_rec(b)[u][[A |-> [i \in Var |-> 0], level |-> 1]].printed

(* The path onesat follows from each node: low unless that is the node 0.  *)
(* It is the sequence of pairs printed.                                    *)
Paths(b) ==
    LET path[w \in bdd_node(b)] ==
            LET a == b.T[w]
            IN  IF a.var > NumVars THEN <<>>
                ELSE IF a.low # 0 THEN <<<<a.var, 0>>>> \o path[a.low]
                ELSE <<<<a.var, 1>>>> \o path[a.high]
    IN  path

onesat(b, u) == Paths(b)[u]

-------------------------------------------------------------------------------
(* The state machine: a client builds nodes with make and apply, in any    *)
(* order, until make runs out of space.  scImpl.cpp uses my_and and my_xor *)
(* (of 1, for the negation).                                               *)
Apply(f, u1, u2, lowFirst) == Call(apply(B, f, u1, u2, lowFirst))

BddNext ==
    \/ Next
    \/ \E f \in {my_and, my_xor}, u1, u2 \in bdd_node(B), lowFirst \in BOOLEAN :
          Apply(f, u1, u2, lowFirst)

BddSpec == Init /\ [][BddNext]_vars
-------------------------------------------------------------------------------
(* Properties                                                              *)

(* Whatever was built before, two different nodes mean different           *)
(* functions; so a node is unsatisfiable only if it is the node 0.         *)
Canonical ==
    LET M == [u \in bdd_node(B) |-> Models(B, u)]
    IN  \A u, w \in bdd_node(B) : M[u] = M[w] => u = w

(* The function f of the functions with the models X and Y.                *)
Combined(f, X, Y) ==
    LET Bits(x) == <<IF x \in X THEN 1 ELSE 0, IF x \in Y THEN 1 ELSE 0>>
    IN  {x \in Assignment : f[Bits(x)] = 1}

(* apply computes f of the two functions, with either order of evaluation, *)
(* unless it runs out of space, and leaves a reduced diagram.              *)
ApplyComputes ==
    \A f \in {my_and, my_xor}, u1, u2 \in bdd_node(B), lowFirst \in BOOLEAN :
        LET r == apply(B, f, u1, u2, lowFirst)
        IN  r.ok => Models(r.bdd, r.u) = Combined(f, Models(B, u1), Models(B, u2))

(* satcount is the number of satisfying assignments, and aborts exactly    *)
(* when an int cannot hold it.                                             *)
SatCountExact ==
    \A u \in bdd_node(B) :
        satcount(B, u) = IF Cardinality(Models(B, u)) > INT_MAX THEN Overflow
                         ELSE Cardinality(Models(B, u))

Agrees(x, cube) == \A i \in Var : cube[i] \in {-1, x[i]}

(* The lines allsat prints divide up the satisfying assignments: each is   *)
(* on exactly one line, although all lines are made in one array.  onesat  *)
(* prints the tests of one of them.                                        *)
PrintedAssignments ==
    \A u \in bdd_node(B) \ {0} :
        /\ {x \in Assignment : \E cube \in allsat(B, u) : Agrees(x, cube)} = Models(B, u)
        /\ \A c, d \in allsat(B, u) : c # d =>
              ~ \E x \in Assignment : Agrees(x, c) /\ Agrees(x, d)
        /\ \E cube \in allsat(B, u) : \A i \in Var :
              \/ \E j \in DOMAIN onesat(B, u) : onesat(B, u)[j] = <<i, cube[i]>>
              \/ cube[i] = -1
===============================================================================
