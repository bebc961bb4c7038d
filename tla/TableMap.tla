-------------------------------- MODULE TableMap --------------------------------
(***************************************************************************)
(* What hashtable.h promises: a table maps each key to at most one         *)
(* element.  Inserting replaces the element of the same key and gives back *)
(* the old one; searching changes nothing.                                 *)
(***************************************************************************)
EXTENDS Integers

CONSTANTS ht_key, ht_elem, elem_key, NULL_elem

VARIABLES
    map,      \* the element of each key, or NULL_elem
    old       \* what the last insertion gave back

Init == map = [k \in ht_key |-> NULL_elem] /\ old = NULL_elem

Insert(e) ==
    /\ map' = [map EXCEPT ![elem_key[e]] = e]
    /\ old' = map[elem_key[e]]

Next == \E e \in ht_elem : Insert(e)

Spec == Init /\ [][Next]_<<map, old>>
===============================================================================
