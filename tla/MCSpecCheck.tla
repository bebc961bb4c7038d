------------------------------ MODULE MCSpecCheck ------------------------------
(* Instances of SpecCheck for TLC.                                         *)
EXTENDS SpecCheck, FiniteSets

CONSTANT MaxPatterns      \* bound on what one dialogue may fill unsat_cores to

(* <<x <= y, y <= x, x = y>>.                                              *)
OrderAndEquality ==
    {e \in Evaluation : (e[0] = vtt \/ e[1] = vtt)
                        /\ (e[2] = vtt <=> (e[0] = vtt /\ e[1] = vtt))}

(* Action constraint: the user stops selecting patterns in a dialogue when *)
(* there are MaxPatterns of them.  The solver and answer V are not bounded.*)
FewPatterns ==
    mode = "dialog" /\ mode' = "dialog" => Cardinality(unsat_cores') <= MaxPatterns
===============================================================================
