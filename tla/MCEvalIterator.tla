----------------------------- MODULE MCEvalIterator -----------------------------
(* Instances of EvalIterator for TLC.                                      *)
EXTENDS EvalIterator, FiniteSets

AllSatisfiable == Evaluation

(* <<x <= y, y <= x, x = y>>.                                              *)
OrderAndEquality ==
    {e \in Evaluation : (e[0] = vtt \/ e[1] = vtt)
                        /\ (e[2] = vtt <=> (e[0] = vtt /\ e[1] = vtt))}

(* Action constraints: the user rejects with at most MaxPatterns patterns,  *)
(* and the solver gives up only on evaluations with x <= y and not y <= x, *)
(* of which one has a model and one has none.                              *)
CONSTANT MaxPatterns
FewPatterns ==
    AnswerNo /\ unsat_cores' # unsat_cores => Cardinality(unsat_cores') <= MaxPatterns
HardOnly == Z3CheckUndef => choice[0] = vtt /\ choice[1] = vff
===============================================================================
