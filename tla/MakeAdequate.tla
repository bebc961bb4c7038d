------------------------------ MODULE MakeAdequate ------------------------------
(***************************************************************************)
(* MakeAdequate (ma.cpp, maImpl.cpp): is the vocabulary fine enough to     *)
(* tell the models the user accepts from those he rejects?                 *)
(*                                                                         *)
(* equivTraverse enumerates the evaluations of the equivalence theory and  *)
(* has the user judge one model of each; vocabSidesTraverse enumerates the *)
(* evaluations of the vocabulary and collects the judged models on each    *)
(* side of them; computePrintCorrection prints a correction for those with *)
(* models on both sides.  The two traversals are the same recursion over   *)
(* choice, as in SpecCheck, and phase tells which one runs.                *)
(*                                                                         *)
(* Z3 is external: World stands for the models of the declarations, and    *)
(* EquivOf and VocabOf for the evaluations a model gives.  At a leaf       *)
(* choiceAssertRetract sets every flag (each traversal has a context of    *)
(* its own), so the assumptions are the literals of choice.                *)
(***************************************************************************)
EXTENDS Vocabulary, Sequences, FiniteSets

CONSTANTS
    EquivSize,          \* equiv.size()
    World, EquivOf, VocabOf,
    SolverMayGiveUp

EquivIdx == 0 .. EquivSize - 1
EquivEvaluation == [EquivIdx -> {vff, vtt}]

ASSUME EquivSizeAssumption == EquivSize \in Nat
ASSUME EquivOfAssumption == EquivOf \in [World -> EquivEvaluation]
ASSUME VocabOfAssumption == VocabOf \in [World -> Evaluation]
ASSUME SolverAssumption == SolverMayGiveUp \in BOOLEAN

VARIABLES
    phase,        \* equiv, vocab: the traversal that runs; done; exited; crashed
    mode,         \* call: a traversal function is entered; return: it returns
    depth,
    choice,
    unsat_cores,
    eqvSides,     \* the judged equivalence evaluations, each with its model
    vocSides,     \* the VocabSides with both sides, eval and idxEqvEvalVec
    corrections   \* what is printed: a vocabulary evaluation, and the
                  \* equivalence evaluations its correction admits

traversal == <<mode, depth, choice>>
vars == <<phase, traversal, unsat_cores, eqvSides, vocSides, corrections>>

Size == IF phase = "equiv" THEN EquivSize ELSE VocabSize
Running == phase \in {"equiv", "vocab"}

SideMapPair ==
    [eval : EquivEvaluation, isVtt : BOOLEAN, isVff : BOOLEAN, model : World]

TypeOK ==
    /\ phase \in {"equiv", "vocab", "done", "exited", "crashed"}
    /\ mode \in {"call", "return"}
    /\ Running => depth \in 0 .. Size
    /\ Running => choice \in [0 .. Size - 1 -> {vuu, vff, vtt}]
    /\ unsat_cores \subseteq SUBSET ((EquivIdx \cup Idx) \X {vff, vtt})
    /\ eqvSides \in Seq(SideMapPair)
    /\ \A vs \in vocSides :
          vs.eval \in Evaluation /\ vs.idxEqvEvalVec \in Seq(DOMAIN eqvSides)
    /\ \A c \in corrections :
          c.eval \in Evaluation /\ c.admits \subseteq EquivEvaluation

Init ==
    /\ phase = "equiv"
    /\ mode = "call"
    /\ depth = 0
    /\ choice = [i \in EquivIdx |-> vuu]
    /\ unsat_cores = {}
    /\ eqvSides = <<>>
    /\ vocSides = {}
    /\ corrections = {}

-------------------------------------------------------------------------------
(* The recursion, of equivTraverse and of vocabSidesTraverse               *)

(* matchesUnsatCore prints th->name, and ma_main never sets th: the read   *)
(* may crash, or print something and go on.                                *)
UnsetTheory ==
    /\ Running /\ mode = "call"
    /\ phase' = "crashed"
    /\ UNCHANGED <<traversal, unsat_cores, eqvSides, vocSides, corrections>>

IgnoreSubtree ==
    /\ Running /\ mode = "call"
    /\ matchesUnsatCore(choice, unsat_cores)
    /\ mode' = "return"
    /\ UNCHANGED <<phase, depth, choice, unsat_cores, eqvSides, vocSides, corrections>>

(* Mutant: off by one, the leaf descends once more.                        *)
DescendPastLeaf ==
    /\ Running /\ mode = "call"
    /\ ~ matchesUnsatCore(choice, unsat_cores)
    /\ depth <= Size
    /\ choice' = [choice EXCEPT ![depth] = vtt]
    /\ depth' = depth + 1
    /\ UNCHANGED <<phase, mode, unsat_cores, eqvSides, vocSides, corrections>>

DescendTrue ==
    /\ Running /\ mode = "call"
    /\ ~ matchesUnsatCore(choice, unsat_cores)
    /\ depth < Size
    /\ choice' = [choice EXCEPT ![depth] = vtt]
    /\ depth' = depth + 1
    /\ UNCHANGED <<phase, mode, unsat_cores, eqvSides, vocSides, corrections>>

(* Mutant: both calls are made with vtt.                                   *)
DescendTrueTwice ==
    /\ Running /\ mode = "return"
    /\ depth > 0
    /\ choice[depth - 1] = vtt
    /\ mode' = "call"
    /\ UNCHANGED <<phase, depth, choice, unsat_cores, eqvSides, vocSides, corrections>>

DescendFalse ==
    /\ Running /\ mode = "return"
    /\ depth > 0
    /\ choice[depth - 1] = vtt
    /\ choice' = [choice EXCEPT ![depth - 1] = vff]
    /\ mode' = "call"
    /\ UNCHANGED <<phase, depth, unsat_cores, eqvSides, vocSides, corrections>>

Ascend ==
    /\ Running /\ mode = "return"
    /\ depth > 0
    /\ choice[depth - 1] = vff
    /\ choice' = [choice EXCEPT ![depth - 1] = vuu]
    /\ depth' = depth - 1
    /\ UNCHANGED <<phase, mode, unsat_cores, eqvSides, vocSides, corrections>>

-------------------------------------------------------------------------------
(* The leaves                                                              *)

AtLeaf ==
    /\ mode = "call"
    /\ ~ matchesUnsatCore(choice, unsat_cores)
    /\ depth = Size

EvaluationOf(w) == IF phase = "equiv" THEN EquivOf[w] ELSE VocabOf[w]

IsSat(assumptions) == \E w \in World : Matches(EvaluationOf(w), assumptions)

(* computeEliminatedPatternsFromUnsatChoice, of either traversal.          *)
CheckUnsat ==
    /\ Running
    /\ AtLeaf
    /\ \E core \in SUBSET SubPattern(choice, 0 .. Size - 1) :
          /\ ~ IsSat(core)
          /\ unsat_cores' = unsat_cores \cup {core}
    /\ mode' = "return"
    /\ UNCHANGED <<phase, depth, choice, eqvSides, vocSides, corrections>>

(* printUnsatCore sizes pattern by the vocabulary in both traversals, and  *)
(* writes at the literals of the core: one of an equivalence formula past  *)
(* the vocabulary's size is written behind the block.  The write may crash *)
(* the program, or the pattern is printed and CheckUnsat goes on.          *)
PatternOverrun ==
    /\ phase = "equiv"
    /\ AtLeaf
    /\ \E core \in SUBSET SubPattern(choice, EquivIdx) :
          /\ ~ IsSat(core)
          /\ \E literal \in core : literal[1] \notin Idx
    /\ phase' = "crashed"
    /\ UNCHANGED <<traversal, unsat_cores, eqvSides, vocSides, corrections>>

(* checkEquivChoice.  Z3_L_UNDEF falls through to the case of Z3_L_TRUE,   *)
(* with any candidate for a model.                                         *)
Judge ==
    /\ phase = "equiv"
    /\ AtLeaf
    /\ \E w \in World, yes \in BOOLEAN :
          /\ EquivOf[w] = choice \/ SolverMayGiveUp
          /\ eqvSides' = Append(eqvSides, [eval |-> choice, isVtt |-> yes,
                                           isVff |-> ~ yes, model |-> w])
    /\ mode' = "return"
    /\ UNCHANGED <<phase, depth, choice, unsat_cores, vocSides, corrections>>

(* checkEqvModelWithVocabChoice asserts the equalities of the model and    *)
(* calls the solver with no assumptions: the answer literals are free, so  *)
(* the vocabulary choice takes no part in the answer, which is             *)
(* satisfiable, or unknown, and that counts as satisfiable.                *)
checkEqvModelWithVocabChoice(ch, side) == Matches(VocabOf[side.model], {})

(* The loop of checkVocabSidesChoice: addEqvSide for every model that      *)
(* passes.                                                                 *)
SidesOf(ch) ==
    LET added[n \in 0 .. Len(eqvSides)] ==
            IF n = 0 THEN <<>>
            ELSE IF checkEqvModelWithVocabChoice(ch, eqvSides[n])
            THEN Append(added[n - 1], n)
            ELSE added[n - 1]
    IN  added[Len(eqvSides)]

(* Mutant: addEqvSide overwrites isVtt and isVff.                          *)
LastSideOnly(idx) ==
    idx # <<>> /\ eqvSides[idx[Len(idx)]].isVtt /\ eqvSides[idx[Len(idx)]].isVff

isVttVff(idx) ==
    /\ \E i \in DOMAIN idx : eqvSides[idx[i]].isVtt
    /\ \E i \in DOMAIN idx : eqvSides[idx[i]].isVff

CollectSides ==
    /\ phase = "vocab"
    /\ AtLeaf
    /\ IsSat(SubPattern(choice, Idx)) \/ SolverMayGiveUp
    /\ vocSides' = IF isVttVff(SidesOf(choice))
                   THEN vocSides \cup {[eval |-> choice, idxEqvEvalVec |-> SidesOf(choice)]}
                   ELSE vocSides
    /\ mode' = "return"
    /\ UNCHANGED <<phase, depth, choice, unsat_cores, eqvSides, corrections>>

(* Z3_parse_smtlib_string is given the model's equalities without their    *)
(* declarations; if it knows the names no longer, the error handler exits. *)
ModelNotParsed ==
    /\ phase = "vocab"
    /\ AtLeaf
    /\ IsSat(SubPattern(choice, Idx)) \/ SolverMayGiveUp
    /\ eqvSides # <<>>
    /\ phase' = "exited"
    /\ UNCHANGED <<traversal, unsat_cores, eqvSides, vocSides, corrections>>

-------------------------------------------------------------------------------
(* ma_main                                                                 *)

(* reset(), a new context, initTraversal.                                  *)
StartVocab ==
    /\ phase = "equiv" /\ mode = "return" /\ depth = 0
    /\ phase' = "vocab"
    /\ mode' = "call"
    /\ choice' = NoChoice
    /\ unsat_cores' = {}
    /\ UNCHANGED <<depth, eqvSides, vocSides, corrections>>

(* Mutant: the vff sides are taken, not the vtt sides.                     *)
RejectedSides(vs) == {j \in DOMAIN vs.idxEqvEvalVec : ~ eqvSides[j].isVtt}

(* The loop over the sides of a vocabulary evaluation reads eqvSides[j],   *)
(* with j counting idxEqvEvalVec, and skips those with isVff.              *)
VttSides(vs) == {j \in DOMAIN vs.idxEqvEvalVec : ~ eqvSides[j].isVff}

(* A single disjunct gets the company of `true', with which the correction *)
(* admits every evaluation.                                                *)
Admits(vs) ==
    IF Cardinality(VttSides(vs)) = 1 THEN EquivEvaluation
    ELSE {eqvSides[j].eval : j \in VttSides(vs)}

computePrintCorrection ==
    {[eval |-> vs.eval, admits |-> Admits(vs)] : vs \in vocSides}

Finish ==
    /\ phase = "vocab" /\ mode = "return" /\ depth = 0
    /\ phase' = "done"
    /\ corrections' = computePrintCorrection
    /\ UNCHANGED <<traversal, unsat_cores, eqvSides, vocSides>>

Traverse ==
    \/ UnsetTheory \/ IgnoreSubtree \/ DescendTrue \/ DescendFalse \/ Ascend
    \/ CheckUnsat \/ PatternOverrun \/ Judge \/ CollectSides \/ ModelNotParsed

Next == Traverse \/ StartVocab \/ Finish

(* The program runs on and the user answers Y or N.                        *)
Spec == Init /\ [][Next]_vars /\ WF_vars(Next)
-------------------------------------------------------------------------------
(* Properties                                                              *)

(* However the unsat cores prune the first traversal, once it is over the  *)
(* user has judged each equivalence evaluation that has a model, exactly   *)
(* once.                                                                   *)
EachJudgedOnce ==
    /\ \A i, j \in DOMAIN eqvSides : eqvSides[i].eval = eqvSides[j].eval => i = j
    /\ phase \notin {"equiv", "crashed"} =>
          \A w \in World : \E i \in DOMAIN eqvSides : eqvSides[i].eval = EquivOf[w]

(* The verdict `vocab is adequate' is right: no evaluation of the          *)
(* vocabulary holds of both an accepted and a rejected model.              *)
AdequateVerdict ==
    phase = "done" /\ vocSides = {} =>
        \A i, j \in DOMAIN eqvSides :
            eqvSides[i].isVtt /\ eqvSides[j].isVff =>
                VocabOf[eqvSides[i].model] # VocabOf[eqvSides[j].model]

(* A correction admits every equivalence evaluation the user accepted      *)
(* within the vocabulary evaluation it corrects.                           *)
CorrectionAdmitsAccepted ==
    \A c \in corrections, i \in DOMAIN eqvSides :
        eqvSides[i].isVtt /\ VocabOf[eqvSides[i].model] = c.eval =>
            eqvSides[i].eval \in c.admits

(* Both traversals come to an end.                                         *)
Ends == <>(~ Running)

(* The comment in checkVocabSidesChoice: check whether the models satisfy  *)
(* the current vocab choice; `If they do, add their side to the side of    *)
(* the vocab-choice'.                                                      *)
SidesOfOwnModels ==
    \A vs \in vocSides : \A i \in DOMAIN vs.idxEqvEvalVec :
        VocabOf[eqvSides[vs.idxEqvEvalVec[i]].model] = vs.eval

(* computePrintCorrection says that the correction is a disjunction of vtt *)
(* equivalence evaluations: none that the user rejected satisfies it.      *)
CorrectionExcludesRejected ==
    \A c \in corrections, i \in DOMAIN eqvSides :
        eqvSides[i].isVff => eqvSides[i].eval \notin c.admits
===============================================================================
