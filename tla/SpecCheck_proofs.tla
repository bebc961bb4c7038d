---------------------------- MODULE SpecCheck_proofs ----------------------------
(***************************************************************************)
(* Proofs about the traversal, for every vocabulary size, every set of     *)
(* evaluations with a model and every sequence of answers.                 *)
(***************************************************************************)
EXTENDS VocabDialog, TLAPS

(* The call stack and the state's types, the part of the invariant that    *)
(* needs nothing else.                                                     *)
StackInv == TypeOK /\ Stack

(* At a leaf, and while the user is asked, choice is a full evaluation.    *)
LEMMA LeafIsEvaluation ==
    ASSUME StackInv, depth = VocabSize
    PROVE  choice \in Evaluation
BY VocabSizeAssumption
   DEF StackInv, TypeOK, Stack, Idx, Evaluation, PartialEvaluation, vuu, vff, vtt

(* A pattern made of current values is a pattern.                          *)
LEMMA SubPatternIsPattern ==
    ASSUME NEW e \in Evaluation, NEW D \in SUBSET Idx
    PROVE  SubPattern(e, D) \in Pattern
BY DEF SubPattern, Pattern, Literal, Evaluation

LEMMA StackInit == Init => StackInv
BY VocabSizeAssumption
   DEF Init, NoChoice, StackInv, TypeOK, Stack, Idx, PartialEvaluation,
       Evaluation, Literal, Pattern, vuu, vff, vtt, Modes, Waiting, Ended

LEMMA StackStep ==
    ASSUME StackInv, [Next]_vars
    PROVE  StackInv'
<1> USE VocabSizeAssumption
    DEF StackInv, TypeOK, Stack, Idx, PartialEvaluation, vuu, vff, vtt,
        Modes, Waiting, Ended
<1>0. \A A, ch : choiceAssertRetract(A, ch) \subseteq A \cup Literal
  BY DEF choiceAssertRetract
<1>1. CASE CheckSat
  BY <1>0, <1>1 DEF CheckSat, AtLeaf
<1>2. CASE CheckUnsat
  <2>1. asserted' \subseteq Literal
    BY <1>0, <1>2 DEF CheckUnsat
  <2>2. main_node' \subseteq Evaluation
    BY <1>2 DEF CheckUnsat, my_ROBDD_eliminate_UNSATCORES
  <2>3. unsat_cores' \subseteq Pattern
    BY <1>2, <2>1 DEF CheckUnsat, Pattern
  <2> QED BY <1>2, <2>1, <2>2, <2>3 DEF CheckUnsat, AtLeaf
<1>3. CASE CheckUndef
  BY <1>0, <1>3 DEF CheckUndef, AtLeaf
<1>4. CASE NullTheory
  BY <1>4 DEF NullTheory
<1>5. CASE IgnoreSubtree
  BY <1>5 DEF IgnoreSubtree
<1>6. CASE DescendTrue
  BY <1>6 DEF DescendTrue
<1>7. CASE DescendFalse
  BY <1>7 DEF DescendFalse
<1>8. CASE Ascend
  BY <1>8 DEF Ascend
<1>9. CASE Finish
  BY <1>9 DEF Finish
<1>10. CASE Answer
  <2>1. mode \in Waiting
    BY <1>10 DEF Answer, AnswerYes, AnswerNo, ReasonContinue, ReasonVariables,
                 ReasonVocab, VocabReason, DialogAdd, DialogEnd
  <2>2. choice \in Evaluation
    BY <2>1, LeafIsEvaluation
  <2>3. \A D \in SUBSET Idx : SubPattern(choice, D) \in Pattern
    BY <2>2, SubPatternIsPattern
  <2>4. unsat_cores' \subseteq Pattern
    BY <1>10, <2>3 DEF Answer, AnswerYes, AnswerNo, ReasonContinue,
         ReasonVariables, ReasonVocab, VocabReason, DialogAdd, DialogEnd
  <2>5. yesChoices' \subseteq Evaluation /\ noChoices' \subseteq Evaluation
    BY <1>10, <2>2 DEF Answer, AnswerYes, AnswerNo, ReasonContinue,
         ReasonVariables, ReasonVocab, VocabReason, DialogAdd, DialogEnd
  <2> QED BY <1>10, <2>4, <2>5 DEF Answer, AnswerYes, AnswerNo, ReasonContinue,
             ReasonVariables, ReasonVocab, VocabReason, DialogAdd, DialogEnd
<1>11. CASE UNCHANGED vars
  BY <1>11 DEF vars
<1> QED BY <1>1, <1>2, <1>3, <1>4, <1>5, <1>6, <1>7, <1>8, <1>9, <1>10, <1>11
        DEF Next, traverse, checkChoice

(* The state of traverse and checkChoice keeps its type; in particular     *)
(* depth never leaves choice.                                              *)
THEOREM TypeCorrect == Spec => []TypeOK
<1>1. StackInv => TypeOK
  BY DEF StackInv
<1> QED BY StackInit, StackStep, <1>1, PTL DEF Spec

-------------------------------------------------------------------------------
(* What the traversal has left behind                                      *)

(* traverse never goes back: what is behind it stays behind it, and an     *)
(* evaluation comes behind it only when the call on a subtree that         *)
(* contains it returns.                                                    *)
LEMMA PassedStep ==
    ASSUME StackInv, [Next]_vars, NEW e \in Evaluation
    PROVE  /\ Passed(e) => Passed(e)'
           /\ Passed(e)' => \/ Passed(e)
                            \/ /\ mode \in {"call"} \cup Waiting
                               /\ mode' = "return"
                               /\ Agrees(e, depth)
<1> USE VocabSizeAssumption
    DEF StackInv, TypeOK, Stack, Idx, PartialEvaluation, Evaluation,
        vuu, vff, vtt, Passed, Agrees, Waiting
<1>1. CASE /\ UNCHANGED <<depth, choice>>
           /\ mode \in {"call"} \cup Waiting /\ mode' # "done"
  BY <1>1
<1>2. CASE UNCHANGED <<depth, choice>> /\ mode = "return" /\ mode' = "done"
  BY <1>2
<1>3. CASE DescendTrue
  <2> USE <1>3 DEF DescendTrue
  <2>1. \A i \in 0 .. depth - 1 : choice'[i] = choice[i]
    OBVIOUS
  <2>2. choice'[depth] = vtt /\ 0 .. depth' - 1 = 0 .. depth - 1 \cup {depth}
    OBVIOUS
  <2>3. \A i \in 0 .. depth : Agrees(e, i)' <=> Agrees(e, i)
    BY <2>1
  <2> QED BY SMTT(30), <2>1, <2>2, <2>3
<1>4. CASE DescendFalse
  <2> USE <1>4 DEF DescendFalse
  <2>1. \A i \in 0 .. depth - 2 : choice'[i] = choice[i]
    OBVIOUS
  <2>2. choice'[depth - 1] = vff /\ depth - 1 \in 0 .. depth' - 1
    OBVIOUS
  <2>3. Passed(e) => Passed(e)'
    <3>1. ASSUME Agrees(e, depth)
          PROVE  e[depth - 1] = vtt /\ Agrees(e, depth - 1)'
      BY <3>1, <2>1
    <3>2. ASSUME NEW i \in 0 .. depth - 1, choice[i] = vff, e[i] = vtt,
                 Agrees(e, i)
          PROVE  Passed(e)'
      BY <3>2, <2>1
    <3> QED BY <3>1, <3>2, <2>2
  <2>4. Passed(e)' => Passed(e)
    <3>1. ASSUME NEW i \in 0 .. depth - 1, choice'[i] = vff, e[i] = vtt,
                 Agrees(e, i)'
          PROVE  Passed(e)
      <4>1. CASE i = depth - 1
        BY <3>1, <4>1, <2>1
      <4>2. CASE i < depth - 1
        BY <3>1, <4>2, <2>1
      <4> QED BY <4>1, <4>2
    <3> QED BY <3>1
  <2> QED BY <2>3, <2>4
<1>5. CASE Ascend
  <2> USE <1>5 DEF Ascend
  <2>1. \A i \in 0 .. depth - 2 : choice'[i] = choice[i]
    OBVIOUS
  <2>2. Passed(e) => Passed(e)'
    <3>1. ASSUME Agrees(e, depth)
          PROVE  Agrees(e, depth)'
      BY <3>1, <2>1
    <3>2. ASSUME NEW i \in 0 .. depth - 1, choice[i] = vff, e[i] = vtt,
                 Agrees(e, i)
          PROVE  Passed(e)'
      <4>1. CASE i = depth - 1
        BY <3>2, <4>1, <2>1
      <4>2. CASE i < depth - 1
        BY <3>2, <4>2, <2>1
      <4> QED BY <4>1, <4>2
    <3> QED BY <3>1, <3>2
  <2>3. Passed(e)' => Passed(e)
    <3>1. ASSUME NEW i \in 0 .. depth - 2, choice'[i] = vff, e[i] = vtt,
                 Agrees(e, i)'
          PROVE  Passed(e)
      BY <3>1, <2>1
    <3>2. ASSUME Agrees(e, depth)'
          PROVE  Passed(e)
      <4>1. Agrees(e, depth - 1)
        BY <3>2, <2>1
      <4>2. CASE e[depth - 1] = vtt
        BY <4>1, <4>2
      <4>3. CASE e[depth - 1] = vff
        BY <4>1, <4>3
      <4> QED BY <4>2, <4>3
    <3> QED BY <3>1, <3>2
  <2> QED BY <2>2, <2>3
<1>6. CASE UNCHANGED vars
  BY <1>6 DEF vars
<1>7. \/ /\ UNCHANGED <<depth, choice>>
         /\ mode \in {"call"} \cup Waiting /\ mode' # "done"
      \/ UNCHANGED <<depth, choice>> /\ mode = "return" /\ mode' = "done"
      \/ DescendTrue \/ DescendFalse \/ Ascend \/ UNCHANGED vars
  BY DEF Next, traverse, checkChoice, NullTheory, IgnoreSubtree, CheckSat,
         CheckUnsat, CheckUndef, AtLeaf, Finish, Answer, AnswerYes, AnswerNo,
         ReasonContinue, ReasonVariables, VocabReason, ReasonVocab, DialogAdd,
         DialogEnd
<1> QED BY <1>1, <1>2, <1>3, <1>4, <1>5, <1>6, <1>7

(* A full evaluation that agrees with a leaf is that leaf.                 *)
LEMMA LeafIsChoice ==
    ASSUME StackInv, depth = VocabSize, NEW e \in Evaluation, Agrees(e, depth)
    PROVE  e = choice
BY VocabSizeAssumption, LeafIsEvaluation DEF Agrees, Evaluation, Idx

(* The leaf being visited is not behind the traversal.                     *)
LEMMA LeafNotPassed ==
    ASSUME StackInv, mode \in {"call"} \cup Waiting
    PROVE  ~ Passed(choice)
BY DEF Passed, Waiting, vff, vtt

(* A pattern that matches the partial evaluation of a subtree matches      *)
(* every evaluation in the subtree: it has no literal on an unknown value. *)
LEMMA MatchDownwards ==
    ASSUME StackInv, NEW core \in Pattern, Matches(choice, core),
           NEW e \in Evaluation, Agrees(e, depth)
    PROVE  Matches(e, core)
BY VocabSizeAssumption
   DEF StackInv, TypeOK, Stack, Idx, Pattern, Literal, Matches, Agrees,
       vuu, vff, vtt


-------------------------------------------------------------------------------
(* The query at a leaf                                                     *)

(* The answer literals left asserted are those of choice, and the query is *)
(* satisfiable exactly when choice has a model.                            *)
LEMMA LeafQuery ==
    ASSUME StackInv, depth = VocabSize
    PROVE  /\ choiceAssertRetract(asserted, choice) = SubPattern(choice, Idx)
           /\ IsSat(SubPattern(choice, Idx)) <=> choice \in Satisfiable
<1>1. choice \in Evaluation
  BY LeafIsEvaluation
<1>2. asserted \subseteq Literal
  BY DEF StackInv, TypeOK
<1>3. choiceAssertRetract(asserted, choice) = SubPattern(choice, Idx)
  BY <1>1, <1>2 DEF choiceAssertRetract, SubPattern, Evaluation, Literal,
                    vuu, vff, vtt
<1>4. \A e \in Evaluation : Matches(e, SubPattern(choice, Idx)) <=> e = choice
  <2>1. ASSUME NEW e \in Evaluation, Matches(e, SubPattern(choice, Idx)),
               NEW i \in Idx
        PROVE  e[i] = choice[i]
    <3>1. <<i, choice[i]>> \in SubPattern(choice, Idx)
      BY DEF SubPattern
    <3> QED BY <2>1, <3>1 DEF Matches
  <2>2. Matches(choice, SubPattern(choice, Idx))
    BY DEF Matches, SubPattern
  <2> QED BY <1>1, <2>1, <2>2 DEF Evaluation
<1>5. IsSat(SubPattern(choice, Idx)) <=> choice \in Satisfiable
  BY <1>1, <1>4, SatisfiableAssumption DEF IsSat
<1> QED BY <1>3, <1>5

(* A core the solver returns for the query matches no evaluation that has  *)
(* a model.                                                                *)
LEMMA UnsatIsNotSatisfiable ==
    ASSUME NEW A, ~ IsSat(A)
    PROVE  \A e \in Satisfiable : ~ Matches(e, A)
BY DEF IsSat

LEMMA SubPatternMatches ==
    ASSUME NEW e, NEW D
    PROVE  Matches(e, SubPattern(e, D))
BY DEF Matches, SubPattern

-------------------------------------------------------------------------------
(* The parts of the inductive invariant, one lemma each                    *)

LEMMA AskedWhatIsCheckedStep ==
    ASSUME StackInv, AskedWhatIsChecked, [Next]_vars
    PROVE  AskedWhatIsChecked'
<1>1. CASE CheckSat
  <2>1. depth = VocabSize
    BY <1>1 DEF CheckSat, AtLeaf
  <2>2. asserted' = SubPattern(choice, Idx) /\ choice \in Satisfiable
    BY <1>1, <2>1, LeafQuery DEF CheckSat
  <2> QED BY <1>1, <2>2 DEF CheckSat, AskedWhatIsChecked
<1>2. CASE Answer
  BY <1>2 DEF AskedWhatIsChecked, Waiting, Answer, AnswerYes, AnswerNo,
       ReasonContinue, ReasonVariables, VocabReason, ReasonVocab, DialogAdd,
       DialogEnd
<1>3. CASE UNCHANGED vars
  BY <1>3 DEF vars, AskedWhatIsChecked
<1>4. CASE traverse /\ ~ CheckSat
  BY <1>4 DEF AskedWhatIsChecked, Waiting, traverse, checkChoice, CheckUnsat,
       CheckUndef, NullTheory, IgnoreSubtree, DescendTrue, DescendFalse, Ascend,
       Finish
<1> QED BY <1>1, <1>2, <1>3, <1>4 DEF Next

LEMMA AskedOnceStep ==
    ASSUME StackInv, AnsweredBehind, AskedOnce, [Next]_vars
    PROVE  AskedOnce'
<1>1. CASE CheckSat
  <2>1. ~ matchesUnsatCore(choice, unsat_cores) /\ mode = "call"
    BY <1>1 DEF CheckSat, AtLeaf
  <2>2. choice \notin yesChoices \cup noChoices
    BY <2>1, LeafNotPassed DEF AnsweredBehind
  <2> QED BY <1>1, <2>1, <2>2 DEF CheckSat, AskedOnce, Settled
<1>2. CASE mode' = "ask" /\ ~ CheckSat
  <2>1. UNCHANGED vars
    BY <1>2 DEF Next, vars, traverse, checkChoice, CheckUnsat, CheckUndef,
         NullTheory, IgnoreSubtree, DescendTrue, DescendFalse, Ascend, Finish,
         Answer, AnswerYes, AnswerNo, ReasonContinue, ReasonVariables,
         VocabReason, ReasonVocab, DialogAdd, DialogEnd
  <2> QED BY <2>1 DEF vars, AskedOnce, Settled
<1> QED BY <1>1, <1>2 DEF AskedOnce

LEMMA AnsweredBehindStep ==
    ASSUME StackInv, AnsweredBehind, AskedOnce, [Next]_vars
    PROVE  AnsweredBehind'
<1>1. yesChoices \subseteq Evaluation /\ noChoices \subseteq Evaluation
  BY DEF StackInv, TypeOK
<1>2. \A e \in Evaluation : Passed(e) => Passed(e)'
  BY PassedStep
<1>3. CASE UNCHANGED vars
  BY <1>3 DEF vars, AnsweredBehind, Passed, Agrees
<1>4. CASE traverse
  <2>1. mode \notin {"reason", "dialog"} /\ mode' \notin {"reason", "dialog"}
    BY <1>4 DEF traverse, checkChoice, AtLeaf, CheckSat, CheckUnsat, CheckUndef,
         NullTheory, IgnoreSubtree, DescendTrue, DescendFalse, Ascend, Finish
  <2>2. UNCHANGED <<yesChoices, noChoices>>
    BY <1>4 DEF traverse, checkChoice, CheckSat, CheckUnsat, CheckUndef,
         NullTheory, IgnoreSubtree, DescendTrue, DescendFalse, Ascend, Finish
  <2> QED BY <1>1, <1>2, <2>1, <2>2 DEF AnsweredBehind
<1>5. CASE Answer
  <2>1. mode \in Waiting /\ choice \in Evaluation
    BY <1>5, LeafIsEvaluation DEF StackInv, Stack, Answer, AnswerYes, AnswerNo,
         ReasonContinue, ReasonVariables, VocabReason, ReasonVocab, DialogAdd,
         DialogEnd, Waiting
  <2>2. /\ UNCHANGED <<choice, depth>>
        /\ mode' = "return" \/ mode' \in {"reason", "dialog"}
    BY <1>5 DEF Answer, AnswerYes, AnswerNo, ReasonContinue, ReasonVariables,
         VocabReason, ReasonVocab, DialogAdd, DialogEnd
  <2>3. mode' = "return" => Passed(choice)'
    BY <2>2 DEF Passed, Agrees
  <2>4. /\ yesChoices' \subseteq yesChoices \cup {choice}
        /\ noChoices' \subseteq noChoices \cup {choice}
    BY <1>5 DEF Answer, AnswerYes, AnswerNo, ReasonContinue, ReasonVariables,
         VocabReason, ReasonVocab, DialogAdd, DialogEnd
  <2>5. \A e \in yesChoices' \cup noChoices' : Passed(e)' \/ e = choice
    BY <1>1, <1>2, <2>4 DEF AnsweredBehind
  <2>6. mode' \in {"reason", "dialog"} => choice \in noChoices' \ yesChoices'
    BY <1>5 DEF AnsweredBehind, AskedOnce, Settled, Answer, AnswerYes, AnswerNo,
         ReasonContinue, ReasonVariables, VocabReason, ReasonVocab, DialogAdd,
         DialogEnd
  <2> QED BY <2>2, <2>3, <2>5, <2>6 DEF AnsweredBehind
<1> QED BY <1>3, <1>4, <1>5 DEF Next


LEMMA NothingSkippedStep ==
    ASSUME StackInv, AskedWhatIsChecked, AnsweredBehind, NothingSkipped,
           [Next]_vars
    PROVE  NothingSkipped'
<1> SUFFICES ASSUME NEW e \in Satisfiable, Passed(e)'
             PROVE  Settled(e)'
  BY DEF NothingSkipped
<1>1. e \in Evaluation
  BY SatisfiableAssumption
<1>2. /\ yesChoices \subseteq yesChoices' /\ noChoices \subseteq noChoices'
      /\ unsat_cores \subseteq unsat_cores'
  BY DEF Next, vars, traverse, checkChoice, CheckSat, CheckUnsat, CheckUndef,
     NullTheory, IgnoreSubtree, DescendTrue, DescendFalse, Ascend, Finish,
     Answer, AnswerYes, AnswerNo, ReasonContinue, ReasonVariables, VocabReason,
     ReasonVocab, DialogAdd, DialogEnd
<1>3. Settled(e) => Settled(e)'
  BY <1>2 DEF Settled, matchesUnsatCore
<1>4. CASE Passed(e)
  BY <1>3, <1>4 DEF NothingSkipped
<1>5. CASE /\ mode \in {"call"} \cup Waiting /\ mode' = "return"
           /\ Agrees(e, depth)
  <2>1. CASE mode = "call" /\ IgnoreSubtree
    <3>1. PICK core \in unsat_cores : Matches(choice, core)
      BY <2>1 DEF IgnoreSubtree, matchesUnsatCore
    <3>2. core \in Pattern
      BY <3>1 DEF StackInv, TypeOK
    <3>3. Matches(e, core)
      BY <1>1, <1>5, <3>1, <3>2, MatchDownwards
    <3> QED BY <3>1, <3>3, <1>3 DEF Settled, matchesUnsatCore
  <2>2. CASE mode = "call" /\ CheckUnsat
    <3>1. depth = VocabSize
      BY <2>2 DEF CheckUnsat, AtLeaf
    <3>2. e = choice
      BY <1>1, <1>5, <3>1, LeafIsChoice
    <3>3. PICK core \in SUBSET SubPattern(choice, Idx) : ~ IsSat(core)
      BY <2>2, <3>1, LeafQuery DEF CheckUnsat
    <3>4. Matches(choice, core)
      BY <3>3, SubPatternMatches DEF Matches
    <3> QED BY <3>2, <3>3, <3>4, UnsatIsNotSatisfiable
  <2>3. CASE mode \in Waiting
    <3>1. e = choice
      BY <1>1, <1>5, <2>3, LeafIsChoice DEF StackInv, Stack
    <3>2. CASE AnswerYes
      BY <3>1, <3>2 DEF AnswerYes, Settled
    <3>3. CASE mode \in {"reason", "dialog"}
      <4>1. e \in noChoices
        BY <3>1, <3>3 DEF AnsweredBehind
      <4> QED BY <4>1, <1>3 DEF Settled
    <3> QED BY <1>5, <2>3, <3>2, <3>3
            DEF Next, vars, Waiting, traverse, checkChoice, CheckSat, CheckUnsat,
                CheckUndef, AtLeaf, NullTheory, IgnoreSubtree, DescendTrue,
                DescendFalse, Ascend, Finish, Answer, AnswerNo, ReasonContinue,
                ReasonVariables, VocabReason, ReasonVocab, DialogAdd, DialogEnd
  <2> QED BY <1>5, <2>1, <2>2, <2>3
          DEF Next, vars, Waiting, traverse, checkChoice, CheckSat, CheckUndef,
              NullTheory, DescendTrue, DescendFalse, Ascend, Finish, Answer,
              AnswerYes, AnswerNo, ReasonContinue, ReasonVariables, VocabReason,
              ReasonVocab, DialogAdd, DialogEnd
<1> QED BY <1>1, <1>4, <1>5, PassedStep

LEMMA PatternsJustifiedStep ==
    ASSUME StackInv, AnsweredBehind, PatternsJustified, [Next]_vars
    PROVE  PatternsJustified'
<1>1. noChoices \subseteq noChoices'
  BY DEF Next, vars, traverse, checkChoice, CheckSat, CheckUnsat, CheckUndef,
     NullTheory, IgnoreSubtree, DescendTrue, DescendFalse, Ascend, Finish,
     Answer, AnswerYes, AnswerNo, ReasonContinue, ReasonVariables, VocabReason,
     ReasonVocab, DialogAdd, DialogEnd
<1>2. CASE CheckUnsat
  <2>1. PICK core \in SUBSET asserted' : /\ ~ IsSat(core)
                                        /\ unsat_cores' \subseteq unsat_cores \cup {core}
    BY <1>2 DEF CheckUnsat
  <2> QED BY <1>1, <2>1, UnsatIsNotSatisfiable DEF PatternsJustified
<1>3. CASE ReasonVariables \/ DialogAdd
  <2>1. PICK bad \in SUBSET Idx :
           unsat_cores' \subseteq unsat_cores \cup {SubPattern(choice, bad)}
    BY <1>3 DEF ReasonVariables, DialogAdd
  <2>2. choice \in noChoices
    BY <1>3 DEF AnsweredBehind, ReasonVariables, DialogAdd
  <2>3. Matches(choice, SubPattern(choice, bad))
    BY SubPatternMatches
  <2> QED BY <1>1, <2>1, <2>2, <2>3 DEF PatternsJustified
<1>4. CASE UNCHANGED unsat_cores
  BY <1>1, <1>4 DEF PatternsJustified
<1> QED BY <1>2, <1>3, <1>4
        DEF Next, vars, traverse, checkChoice, CheckSat, CheckUndef, NullTheory,
            IgnoreSubtree, DescendTrue, DescendFalse, Ascend, Finish, Answer,
            AnswerYes, AnswerNo, ReasonContinue, VocabReason, ReasonVocab,
            DialogEnd

LEMMA SpecificationSoundStep ==
    ASSUME AskedWhatIsChecked, AskedOnce, SpecificationSound, [Next]_vars
    PROVE  SpecificationSound'
<1>1. CASE AnswerYes \/ AnswerNo
  BY <1>1 DEF SpecificationSound, AskedWhatIsChecked, AskedOnce, Settled,
              Waiting, AnswerYes, AnswerNo
<1>2. CASE UNCHANGED <<yesChoices, noChoices>>
  BY <1>2 DEF SpecificationSound
<1> QED BY <1>1, <1>2
        DEF Next, vars, traverse, checkChoice, CheckSat, CheckUnsat, CheckUndef,
            NullTheory, IgnoreSubtree, DescendTrue, DescendFalse, Ascend, Finish,
            Answer, ReasonContinue, ReasonVariables, VocabReason, ReasonVocab,
            DialogAdd, DialogEnd

-------------------------------------------------------------------------------
(* The theorems                                                            *)

LEMMA Inductive == Init /\ [][Next]_vars => []IInv
<1>1. Init => IInv
  <2>1. ASSUME Init PROVE IInv
    <3>1. StackInv
      BY <2>1, StackInit
    <3>2. \A e : ~ Passed(e)
      BY <2>1 DEF Init, Passed
    <3> QED BY <2>1, <3>1, <3>2
            DEF Init, IInv, StackInv, AskedWhatIsChecked, AnsweredBehind,
                AskedOnce, NothingSkipped, PatternsJustified,
                SpecificationSound, Waiting
  <2> QED BY <2>1
<1>2. ASSUME IInv, [Next]_vars PROVE IInv'
  BY <1>2, StackStep, AskedWhatIsCheckedStep, AskedOnceStep, AnsweredBehindStep,
     NothingSkippedStep, PatternsJustifiedStep, SpecificationSoundStep
     DEF IInv, StackInv
<1> QED BY <1>1, <1>2, PTL

(* traverse prunes subtrees by patterns that grow while it runs, yet no    *)
(* evaluation with a model is left behind unless the user answered it or a *)
(* pattern matches it.                                                     *)
THEOREM NothingSkippedThm == Spec => []NothingSkipped
BY Inductive, PTL DEF Spec, IInv

(* checkChoice never asks about an evaluation that was answered before or  *)
(* that an eliminated pattern covers.                                      *)
THEOREM AskedOnceThm == Spec => []AskedOnce
BY Inductive, PTL DEF Spec, IInv

(* While the user is asked, the m_retracted flags select the literals of   *)
(* choice, and choice has a model.                                         *)
THEOREM AskedWhatIsCheckedThm == Spec => []AskedWhatIsChecked
BY Inductive, PTL DEF Spec, IInv

(* A pattern in unsat_cores that matches an evaluation with a model comes  *)
(* from an evaluation the user rejected.                                   *)
THEOREM PatternsJustifiedThm == Spec => []PatternsJustified
BY Inductive, PTL DEF Spec, IInv

(* The specification return_val is a disjunction of evaluations that have  *)
(* a model and that the user did not reject.                               *)
THEOREM SpecificationSoundThm == Spec => []SpecificationSound
BY Inductive, PTL DEF Spec, IInv


-------------------------------------------------------------------------------
(* The traversal implements SpecConstruct                                  *)

(* SpecConstruct's own copies of the vocabulary's definitions.             *)
LEMMA SameVocabulary ==
    /\ Construct!Pattern = Pattern
    /\ \A e, p : Construct!Matches(e, p) <=> Matches(e, p)
    /\ \A e : Construct!IsSettled(e) <=> Settled(e)
BY DEF Construct!Pattern, Construct!Literal, Construct!Idx, Construct!vff,
       Construct!vtt, Pattern, Literal, Idx, vff, vtt, Construct!Matches, Matches,
       Construct!IsSettled, Construct!matchesUnsatCore, Settled, matchesUnsatCore

LEMMA ConstructStep ==
    ASSUME IInv, IInv', [Next]_vars
    PROVE  [Construct!ANext]_(Construct!avars)
<1> USE SameVocabulary DEF Construct!avars, Construct!ANext
<1>1. CASE AnswerYes
  <2>1. choice \in Satisfiable /\ ~ Settled(choice)
    BY <1>1 DEF IInv, AskedWhatIsChecked, AskedOnce, AnswerYes, Waiting
  <2>2. Construct!Accept(choice)
    BY <1>1, <2>1 DEF AnswerYes, Construct!Accept
  <2> QED BY <2>1, <2>2
<1>2. CASE AnswerNo
  <2>1. choice \in Satisfiable /\ ~ Settled(choice)
    BY <1>2 DEF IInv, AskedWhatIsChecked, AskedOnce, AnswerNo, Waiting
  <2>2. Construct!Reject(choice)
    BY <1>2, <2>1 DEF AnswerNo, Construct!Reject
  <2> QED BY <2>1, <2>2
<1>3. CASE CheckUnsat
  <2>1. PICK core \in SUBSET asserted' :
           /\ ~ IsSat(core)
           /\ unsat_cores' = unsat_cores \/ unsat_cores' = unsat_cores \cup {core}
    BY <1>3 DEF CheckUnsat
  <2>2. core \in Pattern
    BY <2>1 DEF IInv, TypeOK, Pattern
  <2>3. CASE unsat_cores' = unsat_cores
    BY <1>3, <2>3 DEF CheckUnsat, AtLeaf
  <2>4. CASE unsat_cores' = unsat_cores \cup {core}
    <3>1. Construct!EliminateUnsat(core)
      BY <1>3, <2>1, <2>4, UnsatIsNotSatisfiable
         DEF CheckUnsat, AtLeaf, Construct!EliminateUnsat
    <3> QED BY <2>2, <3>1
  <2> QED BY <2>1, <2>3, <2>4
<1>4. CASE ReasonVariables \/ DialogAdd
  <2>1. PICK bad \in SUBSET Idx :
           \/ unsat_cores' = unsat_cores
           \/ bad # {} /\ unsat_cores' = unsat_cores \cup {SubPattern(choice, bad)}
    BY <1>4 DEF ReasonVariables, DialogAdd
  <2>2. CASE unsat_cores' = unsat_cores
    BY <1>4, <2>2 DEF ReasonVariables, DialogAdd
  <2>3. CASE bad # {} /\ unsat_cores' = unsat_cores \cup {SubPattern(choice, bad)}
    <3>1. choice \in noChoices /\ Matches(choice, SubPattern(choice, bad))
      BY <1>4, SubPatternMatches
         DEF IInv, AnsweredBehind, ReasonVariables, DialogAdd
    <3>2. SubPattern(choice, bad) # {}
      BY <2>3 DEF SubPattern
    <3>3. SubPattern(choice, bad) \in Pattern
      BY <3>1, SubPatternIsPattern DEF IInv, TypeOK
    <3>4. Construct!EliminateRejected(SubPattern(choice, bad))
      BY <1>4, <2>3, <3>1, <3>2
         DEF ReasonVariables, DialogAdd, Construct!EliminateRejected
    <3> QED BY <3>3, <3>4
  <2> QED BY <2>1, <2>2, <2>3
<1>5. CASE Finish
  <2>1. \A e \in Satisfiable : Passed(e)
    BY <1>5 DEF Finish, Passed, Agrees
  <2>2. \A e \in Satisfiable : Settled(e)
    BY <2>1 DEF IInv, NothingSkipped
  <2>3. Construct!Conclude
    BY <1>5, <2>2 DEF Finish, Construct!Conclude
  <2> QED BY <2>3
<1>6. CASE UNCHANGED <<unsat_cores, yesChoices, noChoices>>
           /\ (mode = "done") = (mode' = "done")
  BY <1>6
<1> QED BY <1>1, <1>2, <1>3, <1>4, <1>5, <1>6
        DEF Next, vars, traverse, checkChoice, AtLeaf, CheckSat, CheckUndef,
            NullTheory, IgnoreSubtree, DescendTrue, DescendFalse, Ascend, Answer,
            ReasonContinue, VocabReason, ReasonVocab, DialogEnd

(* traverse with checkChoice implements the abstract construction: in      *)
(* particular it returns only when every evaluation with a model is        *)
(* accepted, rejected or covered by a justified pattern.                   *)
THEOREM Refinement == Spec => ConstructSpec
<1>1. Init => Construct!AInit
  BY DEF Init, Construct!AInit
<1> QED BY <1>1, Inductive, ConstructStep, PTL
        DEF Spec, ConstructSpec, Construct!ASpec

-------------------------------------------------------------------------------
(* The dialogue of answer B, key by key                                    *)

(* The key is only read with a selection, so no empty pattern is added.    *)
Selected == mode = "dialog" /\ phase = "confirm" => partial # {}

DialogInv == DialogTypeOK /\ Selected

LEMMA DialogInductive == DialogSpec => []DialogInv
<1> USE DEF DialogInv, DialogTypeOK, Selected
<1>1. DialogInit => DialogInv
  BY DEF DialogInit, Init
<1>2. ASSUME DialogInv, [DialogNext]_dialogVars
      PROVE  DialogInv'
  <2>1. CASE OutsideDialog
    BY <1>2, <2>1
       DEF OutsideDialog, locals, traverse, checkChoice, AtLeaf, CheckSat, CheckUnsat,
           CheckUndef, NullTheory, IgnoreSubtree, DescendTrue, DescendFalse, Ascend,
           Finish, AnswerYes, AnswerNo, ReasonContinue, ReasonVariables
  <2>2. CASE CallDialog
    BY <2>2 DEF CallDialog
  <2>3. CASE \E vid \in Number : TypeId(vid)
    <3>1. PICK vid \in Number : TypeId(vid)
      BY <2>3
    <3>2. vid \in Idx
      BY <3>1, VocabSizeAssumption DEF TypeId, Number, Idx
    <3> QED BY <1>2, <3>1, <3>2 DEF TypeId, At
  <2>4. CASE TypeRestart \/ TypeExit \/ TypeFinish \/ PressY \/ PressR \/ PressOther
             \/ NextRound \/ Leave
    BY <1>2, <2>4
       DEF TypeRestart, TypeExit, TypeFinish, PressY, PressR, PressOther, NextRound,
           Leave, At, locals, vars
  <2>5. CASE UNCHANGED dialogVars
    BY <1>2, <2>5 DEF dialogVars, locals, vars
  <2> QED BY <1>2, <2>1, <2>2, <2>3, <2>4, <2>5 DEF DialogNext
<1> QED BY <1>1, <1>2, PTL DEF DialogSpec

(* A step of the dialogue is DialogAdd, DialogEnd or nothing to the        *)
(* traversal.                                                              *)
LEMMA DialogStep ==
    ASSUME DialogInv, [DialogNext]_dialogVars
    PROVE  [Next]_vars
<1> USE DEF DialogInv, DialogTypeOK, Selected
<1>1. CASE OutsideDialog \/ CallDialog
  BY <1>1 DEF OutsideDialog, CallDialog, Next, Answer, VocabReason
<1>2. CASE PressY
  <2>1. partial \in (SUBSET Idx) \ {{}}
    BY <1>2 DEF PressY, At
  <2>2. DialogAdd
    BY <1>2, <2>1 DEF PressY, At, DialogAdd
  <2> QED BY <2>2 DEF Next, Answer, VocabReason
<1>3. CASE Leave
  BY <1>3 DEF Leave, At, DialogEnd, Next, Answer, VocabReason
<1>4. CASE UNCHANGED vars
  BY <1>4
<1> QED BY <1>1, <1>2, <1>3, <1>4
        DEF DialogNext, dialogVars, TypeId, TypeRestart, TypeExit, TypeFinish, PressR,
            PressOther, NextRound

(* The traversal with every dialogue in full implements the traversal:     *)
(* a dialogue adds patterns of current values, never the empty one, or     *)
(* ends, or does nothing that the traversal sees.                          *)
THEOREM DialogImplemented == DialogSpec => ImplementsTraversal
<1>1. DialogInit => Init
  BY DEF DialogInit
<1> QED BY <1>1, DialogInductive, DialogStep, PTL DEF DialogSpec, ImplementsTraversal

(* So nothing that can be typed in the dialogues makes the traversal skip, *)
(* ask or accept what it should not.                                       *)
THEOREM SafeWithDialogues ==
    DialogSpec => [](TypeOK /\ NothingSkipped /\ AskedOnce /\ AskedWhatIsChecked
                     /\ PatternsJustified /\ SpecificationSound)
BY DialogImplemented, Inductive, PTL DEF ImplementsTraversal, IInv, StackInv

(* Only ids of vocabulary formulae get into the selection, whatever        *)
(* numbers are typed.                                                      *)
THEOREM DialogTypeCorrect == DialogSpec => []DialogTypeOK
BY DialogInductive, PTL DEF DialogInv
===============================================================================
