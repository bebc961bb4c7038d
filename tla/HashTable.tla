------------------------------- MODULE HashTable -------------------------------
(***************************************************************************)
(* The hash tables of the BDD library (robdd/hashtable.c): an array of     *)
(* chains, which are linked lists, fixed in size.  The three tables in     *)
(* robdd.cpp differ in their elements, keys and hash functions.            *)
(***************************************************************************)
EXTENDS Integers, Sequences, FiniteSets

CONSTANTS
    ht_key, ht_elem,
    elem_key,     \* the key of each element
    size,         \* the length of array
    hash,         \* hash(k, size) of each key k
    NULL_elem     \* the NULL that is returned for no element

ASSUME ElemKeyAssumption == elem_key \in [ht_elem -> ht_key]
ASSUME SizeAssumption == size \in Nat /\ size > 0
ASSUME HashAssumption == hash \in [ht_key -> 0 .. size - 1]
ASSUME NULLElemAssumption == NULL_elem \notin ht_elem

VARIABLES
    array,        \* a chain is the sequence of its elements; chains that do not
                  \* exist yet are empty
    num_elems,
    old_e         \* what the last call of table_insert returned

tableVars == <<array, num_elems, old_e>>

TableTypeOK ==
    /\ array \in [0 .. size - 1 -> Seq(ht_elem)]
    /\ num_elems \in Nat
    /\ old_e \in ht_elem \cup {NULL_elem}

(* table_new                                                               *)
table_new ==
    /\ array = [h \in 0 .. size - 1 |-> <<>>]
    /\ num_elems = 0
    /\ old_e = NULL_elem

(* The positions of k in a chain, and chain_find, the first of them.       *)
Positions(C, k) == {p \in DOMAIN C : elem_key[C[p]] = k}

IsFirst(C, k, p) == p \in Positions(C, k) /\ \A q \in Positions(C, k) : p <= q

chain_find(C, k) == CHOOSE p \in DOMAIN C : IsFirst(C, k, p)

table_search(k) ==
    LET C == array[hash[k]]
    IN  IF Positions(C, k) = {} THEN NULL_elem ELSE C[chain_find(C, k)]

(* Mutant: the new item goes into the first chain.                         *)
InsertFirstChain(e) ==
    LET k == elem_key[e]
        C == array[hash[k]]
    IN  /\ Positions(C, k) = {}
        /\ array' = [array EXCEPT ![0] = <<e>> \o C]
        /\ num_elems' = num_elems + 1
        /\ old_e' = NULL_elem

(* chain_insert of a key the chain does not have: at the beginning.        *)
InsertNew(e) ==
    LET k == elem_key[e]
        C == array[hash[k]]
    IN  /\ Positions(C, k) = {}
        /\ array' = [array EXCEPT ![hash[k]] = <<e>> \o C]
        /\ num_elems' = num_elems + 1
        /\ old_e' = NULL_elem

(* Mutant: elements are compared, not their keys.                          *)
OverwriteSame(e) ==
    LET k == elem_key[e]
        C == array[hash[k]]
    IN  /\ Positions(C, k) # {}
        /\ IF \E p \in DOMAIN C : C[p] = e
           THEN UNCHANGED array
           ELSE array' = [array EXCEPT ![hash[k]] = <<e>> \o C]
        /\ old_e' = C[chain_find(C, k)]
        /\ UNCHANGED num_elems

(* Mutant: the new element is returned.                                    *)
OverwriteReturnsNew(e) ==
    LET k == elem_key[e]
        C == array[hash[k]]
    IN  /\ Positions(C, k) # {}
        /\ array' = [array EXCEPT ![hash[k]][chain_find(C, k)] = e]
        /\ old_e' = e
        /\ UNCHANGED num_elems

(* chain_insert of a key it has: the element there is overwritten.         *)
Overwrite(e) ==
    LET k == elem_key[e]
        C == array[hash[k]]
    IN  /\ Positions(C, k) # {}
        /\ array' = [array EXCEPT ![hash[k]][chain_find(C, k)] = e]
        /\ old_e' = C[chain_find(C, k)]
        /\ UNCHANGED num_elems

table_insert(e) == InsertNew(e) \/ Overwrite(e)

TableNext == \E e \in ht_elem : table_insert(e)

TableSpec == table_new /\ [][TableNext]_tableVars
-------------------------------------------------------------------------------
(* Properties                                                              *)

(* is_table: each element is in the chain of its hash value.               *)
is_table ==
    \A h \in 0 .. size - 1 : \A p \in DOMAIN array[h] :
        hash[elem_key[array[h][p]]] = h

(* What is_h_chain says `we do not check': the keys of a chain are         *)
(* pairwise distinct.                                                      *)
KeysDistinct ==
    \A h \in 0 .. size - 1 : \A p, q \in DOMAIN array[h] :
        elem_key[array[h][p]] = elem_key[array[h][q]] => p = q

(* The table is the map hashtable.h promises: table_search finds the last  *)
(* element inserted with the key, and table_insert gives back the one it   *)
(* replaces.                                                               *)
Map == INSTANCE TableMap WITH
    map <- [k \in ht_key |-> table_search(k)], old <- old_e

MapSpec == Map!Spec

TableInv == TableTypeOK /\ is_table /\ KeysDistinct
===============================================================================
