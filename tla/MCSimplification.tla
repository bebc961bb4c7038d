---------------------------- MODULE MCSimplification ----------------------------
(* Instances of Simplification for TLC.                                    *)
EXTENDS Simplification

AllSets == SUBSET Evaluation

(* An odd number of formulae holds: no two accepted evaluations can be     *)
(* joined.                                                                 *)
OddSet == {{e \in Evaluation : Cardinality({i \in Idx : e[i] = vtt}) % 2 = 1}}
===============================================================================
