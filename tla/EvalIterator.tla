------------------------------ MODULE EvalIterator ------------------------------
(***************************************************************************)
(* The enumeration of vocabulary evaluations as an iterator, made for a    *)
(* graphical client: class traverse (traverse.cpp), whose nextEvaluation   *)
(* runs until it has a complete evaluation, and class checkchoice          *)
(* (checkchoice.cpp), which checks one evaluation and records one answer.  *)
(*                                                                         *)
(* Each turn of the while loop of nextEvaluation is an action.  The client *)
(* is not in the repository: it is taken to pass every evaluation it gets  *)
(* to checkchoice, as checkChoiceMS does, and to stop, or call reset, once *)
(* allTraversed is set.                                                    *)
(***************************************************************************)
EXTENDS Solver

(* nextEvaluation reads choice[0] first of all.                            *)
ASSUME NonEmptyVocab == VocabSize > 0

VARIABLES
    phase,         \* loop: inside nextEvaluation; returned; ask: the answer is
                   \* awaited; stopped
    depth,
    choice,        \* of the iterator; the client copies it to SpecCheckVocab
    allTraversed,
    unsat_cores,
    asserted,
    model,         \* what Z3Check left for ReadAnswer: {} for no model, else
                   \* the set of the evaluation the model gives
    yesChoices,
    noChoices,
    given          \* history: the evaluations returned since the last reset

vars == <<phase, depth, choice, allTraversed, unsat_cores, asserted, model,
          yesChoices, noChoices, given>>
iterator == <<depth, choice, allTraversed, given>>
answers == <<yesChoices, noChoices>>

TypeOK ==
    /\ phase \in {"loop", "returned", "ask", "stopped"}
    /\ depth \in Idx
    /\ choice \in PartialEvaluation
    /\ allTraversed \in BOOLEAN
    /\ unsat_cores \subseteq Pattern
    /\ asserted \subseteq Literal
    /\ model \in SUBSET Evaluation
    /\ yesChoices \subseteq PartialEvaluation
    /\ noChoices \subseteq PartialEvaluation
    /\ given \subseteq PartialEvaluation

Init ==
    /\ phase = "loop"
    /\ depth = 0
    /\ choice = NoChoice
    /\ allTraversed = FALSE
    /\ unsat_cores = {}
    /\ asserted = Literal
    /\ model = {}
    /\ yesChoices = {}
    /\ noChoices = {}
    /\ given = {}

-------------------------------------------------------------------------------
(* One turn of the loop in nextEvaluation                                  *)

(* Mutant: depth-- is missing before the return.                           *)
GoDownPastLeaf ==
    /\ depth' = depth + 1
    /\ IF depth' = VocabSize
       THEN phase' = "returned" /\ given' = given \cup {choice'}
       ELSE UNCHANGED <<phase, given>>
    /\ UNCHANGED allTraversed

(* depth++ and, past the last formula, depth-- and the return of choice.   *)
GoDown ==
    /\ IF depth + 1 = VocabSize
       THEN /\ phase' = "returned"
            /\ given' = given \cup {choice'}
            /\ UNCHANGED depth
       ELSE /\ depth' = depth + 1
            /\ UNCHANGED <<phase, given>>
    /\ UNCHANGED allTraversed

(* traverseUp, and the test of allTraversed after it.                      *)
traverseUp ==
    /\ choice' = [choice EXCEPT ![depth] = vuu]
    /\ depth' = IF depth = 0 THEN 0 ELSE depth - 1
    /\ allTraversed' = (allTraversed \/ depth = 0)
    /\ phase' = IF allTraversed' THEN "returned" ELSE "loop"
    /\ UNCHANGED given

(* Mutant: the value vtt is tried only when a pattern eliminates it.       *)
SkipTrueBranch ==
    /\ phase = "loop"
    /\ choice[depth] = vuu
    /\ choice' = [choice EXCEPT ![depth] = vff]
    /\ GoDown
    /\ UNCHANGED <<unsat_cores, asserted, model, answers>>

(* From vuu to vtt; if a pattern matches, straight on to vff, which is not *)
(* checked.                                                                *)
FirstBranch ==
    /\ phase = "loop"
    /\ choice[depth] = vuu
    /\ LET tried == [choice EXCEPT ![depth] = vtt]
       IN  choice' = IF matchesUnsatCore(tried, unsat_cores)
                     THEN [choice EXCEPT ![depth] = vff] ELSE tried
    /\ GoDown
    /\ UNCHANGED <<unsat_cores, asserted, model, answers>>

(* Mutant: the value stays vtt.                                            *)
SecondBranchTrue ==
    /\ phase = "loop"
    /\ choice[depth] = vtt
    /\ UNCHANGED choice
    /\ GoDown
    /\ UNCHANGED <<unsat_cores, asserted, model, answers>>

(* From vtt to vff; if a pattern matches, up again.                        *)
SecondBranch ==
    /\ phase = "loop"
    /\ choice[depth] = vtt
    /\ LET tried == [choice EXCEPT ![depth] = vff]
       IN  IF matchesUnsatCore(tried, unsat_cores)
           THEN traverseUp
           ELSE choice' = tried /\ GoDown
    /\ UNCHANGED <<unsat_cores, asserted, model, answers>>

(* Both values have been tried.                                            *)
BranchesDone ==
    /\ phase = "loop"
    /\ choice[depth] = vff
    /\ traverseUp
    /\ UNCHANGED <<unsat_cores, asserted, model, answers>>

nextEvaluation == FirstBranch \/ SecondBranch \/ BranchesDone

-------------------------------------------------------------------------------
(* The client                                                              *)

Stop ==
    /\ phase = "returned"
    /\ allTraversed
    /\ phase' = "stopped"
    /\ UNCHANGED <<iterator, unsat_cores, asserted, model, answers>>

(* reset(), and a first call.                                              *)
reset ==
    /\ phase = "returned"
    /\ allTraversed
    /\ depth' = 0
    /\ choice' = NoChoice
    /\ allTraversed' = FALSE
    /\ given' = {}
    /\ phase' = "loop"
    /\ UNCHANGED <<unsat_cores, asserted, model, answers>>

(* Z3Check.  Its UNDEF answer is reported and otherwise like an evaluation *)
(* without a model, but no pattern is added.                               *)
Z3CheckTrue ==
    /\ phase = "returned"
    /\ ~ allTraversed
    /\ asserted' = choiceAssertRetract(asserted, choice)
    /\ \E e \in Satisfiable : Matches(e, asserted') /\ model' = {e}
    /\ phase' = "ask"
    /\ UNCHANGED <<iterator, unsat_cores, answers>>

Z3CheckFalse ==
    /\ phase = "returned"
    /\ ~ allTraversed
    /\ asserted' = choiceAssertRetract(asserted, choice)
    /\ \E core \in SUBSET asserted' :
          /\ ~ IsSat(core)
          /\ unsat_cores' = unsat_cores \cup {core}
    /\ model' = {}
    /\ phase' = "loop"
    /\ UNCHANGED <<iterator, answers>>

Z3CheckUndef ==
    /\ phase = "returned"
    /\ ~ allTraversed
    /\ SolverMayGiveUp
    /\ asserted' = choiceAssertRetract(asserted, choice)
    /\ model' = {}
    /\ phase' = "loop"
    /\ UNCHANGED <<iterator, unsat_cores, answers>>

(* ReadAnswer with answer Y; N, V or B, the last two with a selection that *)
(* may be empty and then adds no pattern; or another string, which is      *)
(* ignored.  The model is deleted in any case, and the client goes on to   *)
(* the next evaluation.                                                    *)
Answered ==
    /\ phase = "ask"
    /\ model' = {}
    /\ phase' = "loop"
    /\ UNCHANGED <<iterator, asserted>>

AnswerYes ==
    /\ Answered
    /\ yesChoices' = yesChoices \cup {choice}
    /\ UNCHANGED <<noChoices, unsat_cores>>

AnswerNo ==
    /\ Answered
    /\ noChoices' = noChoices \cup {choice}
    /\ \E bad \in SUBSET Idx :
          unsat_cores' = IF bad = {} THEN unsat_cores
                         ELSE unsat_cores \cup {SubPattern(choice, bad)}
    /\ UNCHANGED yesChoices

AnswerOther ==
    /\ Answered
    /\ UNCHANGED <<answers, unsat_cores>>

Client ==
    \/ Stop \/ reset
    \/ Z3CheckTrue \/ Z3CheckFalse \/ Z3CheckUndef
    \/ AnswerYes \/ AnswerNo \/ AnswerOther

Next == nextEvaluation \/ Client

(* The program runs on and so does the client: it checks the evaluation it *)
(* gets, passes on the user's answer, and stops or resets after a pass.    *)
Fairness == WF_vars(nextEvaluation) /\ WF_vars(Client)

Spec == Init /\ [][Next]_vars /\ Fairness
-------------------------------------------------------------------------------
(* Properties                                                              *)

(* traverse.h: nextEvaluation `ensures that given choices cover all        *)
(* evaluation tree'.  When it sets allTraversed, every evaluation was      *)
(* given since the last reset or matches an eliminated pattern, although   *)
(* patterns were added between the calls and the vff branch is sometimes   *)
(* taken unchecked.                                                        *)
CoversTree ==
    phase # "loop" /\ allTraversed =>
        \A e \in Evaluation : e \in given \/ matchesUnsatCore(e, unsat_cores)

(* A call that does not end the pass gives a complete evaluation that was  *)
(* not given before in it, so the client never asks twice.                 *)
GivesNew ==
    [][nextEvaluation /\ phase' = "returned" /\ ~ allTraversed' =>
          choice' \in Evaluation \ given]_vars

(* The client's copy of choice, the retraction flags and the model that    *)
(* ReadAnswer explains the rejection with belong to the same evaluation.   *)
ModelOfChoice == phase = "ask" => model = {choice}

(* Every pass ends: nextEvaluation gets through the tree and sets          *)
(* allTraversed, whatever the solver and the user answer.                  *)
PassEnds == []<>allTraversed

-------------------------------------------------------------------------------
(* The inductive invariant                                                 *)

Last == VocabSize - 1

(* choice has values exactly below depth, and perhaps one at depth.        *)
Cursor ==
    /\ \A i \in Idx : i < depth => choice[i] # vuu
    /\ \A i \in Idx : i > depth => choice[i] = vuu
    /\ phase = "loop" => ~ allTraversed
    /\ phase = "stopped" => allTraversed
    /\ phase = "ask" => ~ allTraversed
    /\ phase # "loop" /\ ~ allTraversed => depth = Last /\ choice[Last] # vuu

Agrees(e, d) == \A i \in 0 .. d - 1 : e[i] = choice[i]

(* The tree cursor has left e behind: e lies in the true subtree of a      *)
(* formula that is at its second value, or in the subtree of the values up *)
(* to depth, which is through when the loop is at depth again.             *)
Passed(e) ==
    \/ allTraversed
    \/ \E i \in 0 .. depth : choice[i] = vff /\ e[i] = vtt /\ Agrees(e, i)
    \/ choice[depth] # vuu /\ Agrees(e, depth + 1)

(* What is behind was given or matches a pattern, and what was given is    *)
(* behind.                                                                 *)
PassedCovered ==
    \A e \in Evaluation : Passed(e) => e \in given \/ matchesUnsatCore(e, unsat_cores)

GivenPassed == given \subseteq Evaluation /\ \A e \in given : Passed(e)

IInv == TypeOK /\ Cursor /\ PassedCovered /\ GivenPassed /\ ModelOfChoice
===============================================================================
