------------------------------- MODULE MCRobdd -------------------------------
(* The two parts of the BDD library, each in runs of its own: diagrams,    *)
(* and a hash table of elements <<key, version>>, of which keys 1 and 3    *)
(* share a chain.                                                          *)
EXTENDS Robdd, HashTable

Keys == 1 .. 3
Elems == Keys \X (1 .. 2)
KeyOf == [e \in Elems |-> e[1]]
Parity == [k \in Keys |-> k % 2]

MCInit == Init /\ table_new

MCNext ==
    \/ BddNext /\ num_elems = 0 /\ UNCHANGED tableVars
    \/ TableNext /\ B = bdd_new /\ ~ aborted /\ UNCHANGED vars

MCSpec == MCInit /\ [][MCNext]_<<vars, tableVars>>
===============================================================================
