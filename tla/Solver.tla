--------------------------------- MODULE Solver ---------------------------------
(***************************************************************************)
(* Z3 as the traversals use it.  The solver is external: it is described   *)
(* by the set Satisfiable of evaluations that have a model.  A query is    *)
(* satisfiable iff some of them agrees with every assumption, and an unsat *)
(* core is any unsatisfiable part of the assumptions.                      *)
(***************************************************************************)
EXTENDS Vocabulary

CONSTANTS
    Satisfiable,      \* the evaluations of the vocabulary that have a model
    SolverMayGiveUp   \* Z3 may answer Z3_L_UNDEF

ASSUME SatisfiableAssumption == Satisfiable \subseteq Evaluation
ASSUME SolverAssumption == SolverMayGiveUp \in BOOLEAN

IsSat(A) == \E e \in Satisfiable : Matches(e, A)

(* The assumptions of a query are the answer literals whose m_retracted    *)
(* flag is Z3_FALSE: the set A of the next definitions.                    *)

(* Mutant: only the vtt branch touches the flags.                          *)
OnlyTrueBranch(A, ch) ==
    {l \in A : ch[l[1]] # vtt} \cup {l \in Literal : ch[l[1]] = vtt /\ l[2] = vtt}

(* Mutant: reassert_cnstr is never called.                                 *)
NeverReassert(A, ch) == {l \in A : ch[l[1]] \in {vuu, l[2]}}

(* choiceAssertRetract: the flags of the formulae that have a value are    *)
(* set from it, the others are left as they are.                           *)
choiceAssertRetract(A, ch) ==
    {l \in A : ch[l[1]] = vuu} \cup {l \in Literal : ch[l[1]] = l[2]}
================================================================================
