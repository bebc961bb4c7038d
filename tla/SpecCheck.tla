------------------------------- MODULE SpecCheck -------------------------------
(***************************************************************************)
(* SpecConstruct's enumeration of vocabulary evaluations: the recursive    *)
(* SpecCheckVocab::traverse, the checkChoice it calls at each leaf, the    *)
(* user's answers, and the pruning patterns both the solver and the user   *)
(* add while the recursion is under way (scImpl.cpp).                      *)
(*                                                                         *)
(* The call stack is not a variable: the frames of traverse are exactly    *)
(* the prefix of choice below depth, and choice[d] tells which of its two  *)
(* recursive calls the frame at depth d is in.                             *)
(***************************************************************************)
EXTENDS Solver

VARIABLES
    mode,         \* where the traversal is, see Modes
    depth,        \* the recursion depth
    choice,       \* the partial evaluation under construction
    unsat_cores,  \* the eliminated patterns
    asserted,     \* the answer literals whose m_retracted flag is Z3_FALSE
    yesChoices,   \* the evaluations the user accepted
    noChoices,    \* the evaluations the user rejected
    main_node,    \* the function the ROBDD node main_node stands for, as a set
    th            \* th is a theory (option -t was given), not NULL

vars == <<mode, depth, choice, unsat_cores, asserted, yesChoices, noChoices,
          main_node, th>>

(* call: traverse() is entered; return: it has returned to its caller;     *)
(* ask: the Y/N question; reason: the V/B/C question; dialog: the          *)
(* selection of bad vocabulary values.                                     *)
Waiting == {"ask", "reason", "dialog"}
Ended == {"done", "exited", "crashed"}
Modes == {"call", "return"} \cup Waiting \cup Ended

TypeOK ==
    /\ mode \in Modes
    /\ depth \in 0 .. VocabSize
    /\ choice \in PartialEvaluation
    /\ unsat_cores \subseteq Pattern
    /\ asserted \subseteq Literal
    /\ yesChoices \subseteq Evaluation
    /\ noChoices \subseteq Evaluation
    /\ main_node \subseteq Evaluation
    /\ th \in BOOLEAN

(* initTraversal after assertParsedFormulae: every answer literal starts   *)
(* out asserted, and conjoining x \/ ~x for each x leaves the BDD true.    *)
Init ==
    /\ mode = "call"
    /\ depth = 0
    /\ choice = NoChoice
    /\ unsat_cores = {}
    /\ asserted = Literal
    /\ yesChoices = {}
    /\ noChoices = {}
    /\ main_node = Evaluation
    /\ th \in BOOLEAN

-------------------------------------------------------------------------------
(* What checkChoice does with the solver's answers                         *)

(* printUnsatCore builds this evaluation from the core ...                 *)
CorePattern(core) ==
    [i \in Idx |-> IF <<i, vtt>> \in core THEN vtt
                   ELSE IF <<i, vff>> \in core THEN vff ELSE vuu]

(* C's logical negation of a vocab_value_t.                                *)
CNot(v) == IF v = 0 THEN 1 ELSE 0

(* ... and my_ROBDD_eliminate_UNSATCORES conjoins x = pattern[x] for the   *)
(* formulae that pass its test `!choice[i] == vuu', then removes the       *)
(* result from main_node.                                                  *)
my_ROBDD_eliminate_UNSATCORES(node, pattern) ==
    LET tested == {i \in Idx : CNot(pattern[i]) = vuu}
    IN  node \ {e \in Evaluation : \A i \in tested : e[i] = pattern[i]}

(* The leaf of the recursion: depth == choice.size() and no pattern        *)
(* matches.                                                                *)
AtLeaf ==
    /\ mode = "call"
    /\ th
    /\ ~ matchesUnsatCore(choice, unsat_cores)
    /\ depth = VocabSize

CheckSat ==
    /\ AtLeaf
    /\ asserted' = choiceAssertRetract(asserted, choice)
    /\ IsSat(asserted')
    /\ mode' = "ask"
    /\ UNCHANGED <<depth, choice, unsat_cores, yesChoices, noChoices, main_node, th>>

(* An empty core (core_size == 0) adds no pattern.                         *)
CheckUnsat ==
    /\ AtLeaf
    /\ asserted' = choiceAssertRetract(asserted, choice)
    /\ \E core \in SUBSET asserted' :
          /\ ~ IsSat(core)
          /\ IF core = {}
             THEN UNCHANGED <<unsat_cores, main_node>>
             ELSE /\ main_node' = my_ROBDD_eliminate_UNSATCORES(
                                      main_node, CorePattern(core))
                  /\ unsat_cores' = unsat_cores \cup {core}
    /\ mode' = "return"
    /\ UNCHANGED <<depth, choice, yesChoices, noChoices, th>>

(* Z3_L_UNDEF: checkChoice calls exit(0).                                  *)
CheckUndef ==
    /\ AtLeaf
    /\ SolverMayGiveUp
    /\ asserted' = choiceAssertRetract(asserted, choice)
    /\ mode' = "exited"
    /\ UNCHANGED <<depth, choice, unsat_cores, yesChoices, noChoices, main_node, th>>

-------------------------------------------------------------------------------
(* The recursion                                                           *)

(* matchesUnsatCore prints th->name first: without a theory this reads     *)
(* through the NULL pointer th.                                            *)
NullTheory ==
    /\ mode = "call"
    /\ ~ th
    /\ mode' = "crashed"
    /\ UNCHANGED <<depth, choice, unsat_cores, asserted, yesChoices, noChoices,
                   main_node, th>>

(* The subtree satisfies an eliminated pattern: return at once.            *)
IgnoreSubtree ==
    /\ mode = "call"
    /\ th
    /\ matchesUnsatCore(choice, unsat_cores)
    /\ mode' = "return"
    /\ UNCHANGED <<depth, choice, unsat_cores, asserted, yesChoices, noChoices,
                   main_node, th>>

(* Mutant: off by one, the leaf descends once more.                        *)
DescendPastLeaf ==
    /\ mode = "call"
    /\ th
    /\ ~ matchesUnsatCore(choice, unsat_cores)
    /\ depth <= VocabSize
    /\ choice' = [choice EXCEPT ![depth] = vtt]
    /\ depth' = depth + 1
    /\ UNCHANGED <<mode, unsat_cores, asserted, yesChoices, noChoices, main_node, th>>

DescendTrue ==
    /\ mode = "call"
    /\ th
    /\ ~ matchesUnsatCore(choice, unsat_cores)
    /\ depth < VocabSize
    /\ choice' = [choice EXCEPT ![depth] = vtt]
    /\ depth' = depth + 1
    /\ UNCHANGED <<mode, unsat_cores, asserted, yesChoices, noChoices, main_node, th>>

(* Mutant: both calls are made with vtt.                                   *)
DescendTrueTwice ==
    /\ mode = "return"
    /\ depth > 0
    /\ choice[depth - 1] = vtt
    /\ mode' = "call"
    /\ UNCHANGED <<depth, choice, unsat_cores, asserted, yesChoices, noChoices,
                   main_node, th>>

(* Back from the call made with vtt: depth is decremented, the value set   *)
(* to vff, and depth incremented again for the second call.                *)
DescendFalse ==
    /\ mode = "return"
    /\ depth > 0
    /\ choice[depth - 1] = vtt
    /\ choice' = [choice EXCEPT ![depth - 1] = vff]
    /\ mode' = "call"
    /\ UNCHANGED <<depth, unsat_cores, asserted, yesChoices, noChoices, main_node, th>>

(* Mutant: the frame does not clear its entry.                             *)
AscendKeepsValue ==
    /\ mode = "return"
    /\ depth > 0
    /\ choice[depth - 1] = vff
    /\ depth' = depth - 1
    /\ UNCHANGED <<mode, choice, unsat_cores, asserted, yesChoices, noChoices,
                   main_node, th>>

(* Back from the call made with vff: the frame clears its entry and        *)
(* returns in its turn.                                                    *)
Ascend ==
    /\ mode = "return"
    /\ depth > 0
    /\ choice[depth - 1] = vff
    /\ choice' = [choice EXCEPT ![depth - 1] = vuu]
    /\ depth' = depth - 1
    /\ UNCHANGED <<mode, unsat_cores, asserted, yesChoices, noChoices, main_node, th>>

(* The outermost call returns to spchk_main.                               *)
Finish ==
    /\ mode = "return"
    /\ depth = 0
    /\ mode' = "done"
    /\ UNCHANGED <<depth, choice, unsat_cores, asserted, yesChoices, noChoices,
                   main_node, th>>

-------------------------------------------------------------------------------
(* The user's answers.  M prints the model again and anything else is      *)
(* asked again; neither changes state.                                     *)

(* Y: addChoiceToSpec.  The specification return_val is the disjunction of *)
(* the accepted evaluations, that is, yesChoices.                          *)
AnswerYes ==
    /\ mode = "ask"
    /\ yesChoices' = yesChoices \cup {choice}
    /\ mode' = "return"
    /\ UNCHANGED <<depth, choice, unsat_cores, asserted, noChoices, main_node, th>>

AnswerNo ==
    /\ mode = "ask"
    /\ noChoices' = noChoices \cup {choice}
    /\ mode' = "reason"
    /\ UNCHANGED <<depth, choice, unsat_cores, asserted, yesChoices, main_node, th>>

(* C: the rejection is of this evaluation only.                            *)
ReasonContinue ==
    /\ mode = "reason"
    /\ mode' = "return"
    /\ UNCHANGED <<depth, choice, unsat_cores, asserted, yesChoices, noChoices,
                   main_node, th>>

(* Mutant: the test bad.size() > 0 is missing.                             *)
ReasonAnyVariables ==
    /\ mode = "reason"
    /\ \E bad \in SUBSET Idx :
          unsat_cores' = unsat_cores \cup {SubPattern(choice, bad)}
    /\ mode' = "return"
    /\ UNCHANGED <<depth, choice, asserted, yesChoices, noChoices, main_node, th>>

(* V: computeEliminatedPatternsFromBadPartialAssignments.  Which formulae  *)
(* the values of the named variables decide is the solver's business; the  *)
(* pattern is made of their current values, and none is added when there   *)
(* is no such formula or no variable was named.                            *)
ReasonVariables ==
    /\ mode = "reason"
    /\ \E bad \in SUBSET Idx :
          unsat_cores' = IF bad = {} THEN unsat_cores
                         ELSE unsat_cores \cup {SubPattern(choice, bad)}
    /\ mode' = "return"
    /\ UNCHANGED <<depth, choice, asserted, yesChoices, noChoices, main_node, th>>

(* B: getVocabPartialBadAssignments, module VocabDialog.  It may add       *)
(* several patterns before it ends.                                        *)
ReasonVocab ==
    /\ mode = "reason"
    /\ mode' = "dialog"
    /\ UNCHANGED <<depth, choice, unsat_cores, asserted, yesChoices, noChoices,
                   main_node, th>>

DialogAdd ==
    /\ mode = "dialog"
    /\ \E bad \in (SUBSET Idx) \ {{}} :
          unsat_cores' = unsat_cores \cup {SubPattern(choice, bad)}
    /\ UNCHANGED <<mode, depth, choice, asserted, yesChoices, noChoices, main_node, th>>

DialogEnd ==
    /\ mode = "dialog"
    /\ mode' = "return"
    /\ UNCHANGED <<depth, choice, unsat_cores, asserted, yesChoices, noChoices,
                   main_node, th>>

-------------------------------------------------------------------------------
checkChoice == CheckSat \/ CheckUnsat \/ CheckUndef

traverse ==
    \/ NullTheory \/ IgnoreSubtree \/ checkChoice
    \/ DescendTrue \/ DescendFalse \/ Ascend \/ Finish

(* getVocabPartialBadAssignments as the traversal sees it.                 *)
VocabReason == ReasonVocab \/ DialogAdd \/ DialogEnd

Answer ==
    AnswerYes \/ AnswerNo \/ ReasonContinue \/ ReasonVariables \/ VocabReason

Next == traverse \/ Answer

(* The program runs on, and the user answers what is asked and leaves the  *)
(* dialogue some time.                                                     *)
Fairness ==
    /\ WF_vars(traverse)
    /\ WF_vars(AnswerYes \/ AnswerNo)
    /\ WF_vars(ReasonContinue \/ ReasonVariables \/ ReasonVocab)
    /\ WF_vars(DialogEnd)

Spec == Init /\ [][Next]_vars /\ Fairness
-------------------------------------------------------------------------------
(* Properties                                                              *)

(* e is behind the traversal: it lies in the vtt subtree of a formula whose *)
(* vff subtree is being visited, or in the subtree that was just left.     *)
Agrees(e, n) == \A i \in 0 .. n - 1 : e[i] = choice[i]

Passed(e) ==
    \/ \E i \in 0 .. depth - 1 :
          choice[i] = vff /\ e[i] = vtt /\ Agrees(e, i)
    \/ mode \in {"return", "done"} /\ Agrees(e, depth)

Settled(e) ==
    e \in yesChoices \cup noChoices \/ matchesUnsatCore(e, unsat_cores)

(* Whatever subtrees traverse ignores, and whatever patterns are added     *)
(* while it is in the middle of them, an evaluation with a model that the  *)
(* traversal has left behind was answered by the user or matches a         *)
(* pattern.  At the end all evaluations are behind it.                     *)
NothingSkipped == \A e \in Satisfiable : Passed(e) => Settled(e)

(* checkChoice puts an evaluation to the user once, and only when no       *)
(* pattern found so far covers it.                                         *)
AskedOnce ==
    mode = "ask" => ~ Settled(choice)

(* The model shown is a model of the evaluation being asked about: the     *)
(* m_retracted flags, updated leaf by leaf from choice, leave exactly the  *)
(* literals of choice in assumptions.                                      *)
AskedWhatIsChecked ==
    mode \in Waiting => asserted = SubPattern(choice, Idx) /\ choice \in Satisfiable

(* unsat_cores mixes the solver's cores with the user's partial            *)
(* assignments.  A pattern that covers an evaluation with a model also     *)
(* covers an evaluation the user rejected: a model is never dropped on the *)
(* solver's word.                                                          *)
PatternsJustified ==
    \A core \in unsat_cores :
        \/ \A e \in Satisfiable : ~ Matches(e, core)
        \/ \E e \in noChoices : Matches(e, core)

(* yesChoices, the specification, is made of evaluations with a model, and *)
(* none of them was also rejected.                                         *)
SpecificationSound ==
    yesChoices \subseteq Satisfiable /\ yesChoices \cap noChoices = {}

(* The enumeration promised by SpecConstruct.                              *)
Construct == INSTANCE SpecConstruct WITH
    accepted <- yesChoices,
    rejected <- noChoices,
    eliminated <- unsat_cores,
    finished <- (mode = "done")

ConstructSpec == Construct!ASpec

(* When the user keeps answering, the traversal comes to an end.           *)
Termination == <>(mode \in Ended)

-------------------------------------------------------------------------------
(* The inductive invariant                                                 *)

(* The frames on the call stack: choice has a value exactly below depth,   *)
(* and the user is asked at leaves only.                                   *)
Stack ==
    /\ \A i \in 0 .. depth - 1 : choice[i] \in {vff, vtt}
    /\ \A i \in depth .. VocabSize - 1 : choice[i] = vuu
    /\ mode \in Waiting => depth = VocabSize
    /\ mode = "done" => depth = 0

(* An answered evaluation is behind the traversal, or being discussed; the *)
(* one being discussed has been rejected.                                  *)
AnsweredBehind ==
    /\ \A e \in yesChoices \cup noChoices :
          \/ Passed(e)
          \/ mode \in {"reason", "dialog"} /\ e = choice
    /\ mode \in {"reason", "dialog"} => choice \in noChoices \ yesChoices

IInv ==
    /\ TypeOK
    /\ Stack
    /\ AskedWhatIsChecked
    /\ AnsweredBehind
    /\ AskedOnce
    /\ NothingSkipped
    /\ PatternsJustified
    /\ SpecificationSound
===============================================================================
