------------------------------- MODULE RobddStore -------------------------------
(***************************************************************************)
(* The node store of a reduced ordered binary decision diagram             *)
(* (robdd/robdd.cpp): the node array T, the hash table H of the nodes in   *)
(* it, and make, the only operation that adds a node.                      *)
(*                                                                         *)
(* The hash table is the set of its elements, as module HashTable shows it *)
(* to be a map.  The fields low and high of the terminal nodes 0 and 1 are *)
(* never set, nor read; they are 0 here.                                   *)
(***************************************************************************)
EXTENDS Integers

CONSTANTS
    NumVars,      \* num_vars
    Limit,        \* BDD_LIMIT, the length of T
    NULL          \* the entries of T that are not in use

ASSUME NumVarsAssumption == NumVars \in Nat
ASSUME LimitAssumption == Limit \in Nat /\ Limit >= 2

Var == 1 .. NumVars

(* The terminals have the variable NumVars + 1.                            *)
Node == [var : 1 .. NumVars + 1, low : Nat, high : Nat]
Terminal == [var |-> NumVars + 1, low |-> 0, high |-> 0]

(* struct elem: a node and its index.                                      *)
Elem == [e_node : Node, u : Nat]

Bdd == [size : 2 .. Limit, T : [0 .. Limit - 1 -> Node \cup {NULL}], H : SUBSET Elem]

VARIABLES
    B,            \* the bdd: size, T and H
    aborted       \* make ran out of space and called abort()

vars == <<B, aborted>>

bdd_node(b) == 0 .. b.size - 1

TypeOK ==
    /\ B \in Bdd
    /\ \A u \in bdd_node(B) : B.T[u] \in Node
    /\ aborted \in BOOLEAN

bdd_new ==
    [size |-> 2,
     T |-> [u \in 0 .. Limit - 1 |-> IF u < 2 THEN Terminal ELSE NULL],
     H |-> {}]

Init == B = bdd_new /\ aborted = FALSE

-------------------------------------------------------------------------------
Returns(b, u) == [bdd |-> b, u |-> u, ok |-> TRUE]
Aborts(b) == [bdd |-> b, u |-> 0, ok |-> FALSE]

(* Mutant: the node is not entered into the hash table.                    *)
AddUnhashed(b, a) ==
    [size |-> b.size + 1,
     T |-> [b.T EXCEPT ![b.size] = a],
     H |-> b.H]

(* Mutant: size is not incremented before it is used again.                *)
AddOverLast(b, a) ==
    [size |-> b.size,
     T |-> [b.T EXCEPT ![b.size - 1] = a],
     H |-> b.H \cup {[e_node |-> a, u |-> b.size - 1]}]

(* T[size] = a; size++; and the new element in the hash table.             *)
AddNode(b, a) ==
    [size |-> b.size + 1,
     T |-> [b.T EXCEPT ![b.size] = a],
     H |-> b.H \cup {[e_node |-> a, u |-> b.size]}]

Entries(b, a) == {e \in b.H : e.e_node = a}

(* Mutant: a redundant test gets a node.                                   *)
MakeRedundant(b, v, l, h) ==
    LET a == [var |-> v, low |-> l, high |-> h]
    IN  IF \E e \in Entries(b, a) : TRUE
        THEN Returns(b, (CHOOSE e \in Entries(b, a) : TRUE).u)
        ELSE IF b.size < Limit THEN Returns(AddNode(b, a), b.size) ELSE Aborts(b)

(* Mutant: the table is not searched, and space is not checked.            *)
MakeAlways(b, v, l, h) ==
    IF l = h THEN Returns(b, l)
    ELSE Returns(AddNode(b, [var |-> v, low |-> l, high |-> h]), b.size)

make(b, v, l, h) ==
    LET a == [var |-> v, low |-> l, high |-> h]
    IN  IF l = h
        THEN Returns(b, l)
        ELSE IF \E e \in Entries(b, a) : TRUE
        THEN Returns(b, (CHOOSE e \in Entries(b, a) : TRUE).u)
        ELSE IF b.size < Limit THEN Returns(AddNode(b, a), b.size) ELSE Aborts(b)

(* What make asserts of its arguments, and what every caller in the        *)
(* repository sees to besides: the successors test later variables.        *)
Callable(b, v, l, h) ==
    /\ v \in Var
    /\ l \in bdd_node(b) /\ h \in bdd_node(b)
    /\ b.T[l].var > v /\ b.T[h].var > v

(* A call of an operation of the bdd, with result r.  Which nodes the      *)
(* client keeps is left open: it may go on with any of them.               *)
Call(r) ==
    /\ ~ aborted
    /\ B' = r.bdd
    /\ aborted' = ~ r.ok

Make(v, l, h) == Callable(B, v, l, h) /\ Call(make(B, v, l, h))

Next == \E v \in Var, l, h \in bdd_node(B) : Make(v, l, h)

Spec == Init /\ [][Next]_vars
-------------------------------------------------------------------------------
(* Properties                                                              *)

(* The loop of is_bdd: variables increase downwards, the successors exist, *)
(* and the hash table finds each node at its own index.                    *)
ValidNodes ==
    \A u \in bdd_node(B) :
        /\ u < 2 => B.T[u].var = NumVars + 1
        /\ u >= 2 =>
              /\ B.T[u].var \in Var
              /\ B.T[u].low \in bdd_node(B) /\ B.T[u].high \in bdd_node(B)
              /\ B.T[B.T[u].low].var > B.T[u].var
              /\ B.T[B.T[u].high].var > B.T[u].var
              /\ [e_node |-> B.T[u], u |-> u] \in B.H

(* is_bdd, which every function of the library requires of the bdd it gets *)
(* and make promises of the bdd it leaves: a slot is free besides.  That   *)
(* 0 <= size is part of TypeOK; num_vars never changes after bdd_new.      *)
is_bdd == B.size < Limit /\ ValidNodes

(* The hash table holds nothing else.                                      *)
TableExact ==
    \A e \in B.H : e.u \in bdd_node(B) /\ e.u >= 2 /\ B.T[e.u] = e.e_node

(* What is_bdd `does not check': there is no redundant test, and no node   *)
(* is there twice, after any sequence of calls.                            *)
Reduced ==
    /\ \A u \in bdd_node(B) : u >= 2 => B.T[u].low # B.T[u].high
    /\ \A u, w \in bdd_node(B) : u >= 2 /\ w >= 2 /\ B.T[u] = B.T[w] => u = w

(* make returns the node for its arguments, or the common successor.       *)
MakeFinds ==
    \A v \in Var, l, h \in bdd_node(B) :
        LET r == make(B, v, l, h)
        IN  Callable(B, v, l, h) /\ r.ok =>
                IF l = h THEN r.u = l
                ELSE r.bdd.T[r.u] = [var |-> v, low |-> l, high |-> h]

(* Nodes are never changed nor removed: what a client holds stays what it  *)
(* was.                                                                    *)
NodesStay ==
    [][bdd_node(B) \subseteq bdd_node(B') /\ \A u \in bdd_node(B) : B'.T[u] = B.T[u]]_vars

-------------------------------------------------------------------------------
IInv == TypeOK /\ ValidNodes /\ TableExact /\ Reduced
===============================================================================
