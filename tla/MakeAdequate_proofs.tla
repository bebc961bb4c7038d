--------------------------- MODULE MakeAdequate_proofs ---------------------------
(***************************************************************************)
(* Proofs about MakeAdequate, for every pair of vocabularies and every way *)
(* the solver may choose its cores and models: the user judges each        *)
(* satisfiable equivalence evaluation exactly once, the verdict `adequate' *)
(* is right, and corrections admit what was accepted.                      *)
(***************************************************************************)
EXTENDS MakeAdequate, WellFoundedInduction, TLAPS

(* The state either traversal works on: choice has a value exactly below   *)
(* depth, and the patterns are over the vocabulary traversed.              *)
Formulae == 0 .. Size - 1
Complete == [Formulae -> {vff, vtt}]

Stack ==
    /\ depth \in 0 .. Size
    /\ choice \in [Formulae -> {vuu, vff, vtt}]
    /\ \A i \in 0 .. depth - 1 : choice[i] \in {vff, vtt}
    /\ \A i \in depth .. Size - 1 : choice[i] = vuu
    /\ unsat_cores \subseteq SUBSET (Formulae \X {vff, vtt})

(* No pattern eliminates an evaluation that has a model.                   *)
CoresUnsat ==
    \A w \in World, core \in unsat_cores : ~ Matches(EvaluationOf(w), core)

Shape ==
    /\ phase \in {"equiv", "vocab", "done", "exited", "crashed"}
    /\ mode \in {"call", "return"}
    /\ eqvSides \in Seq(SideMapPair)
    /\ \A i \in DOMAIN eqvSides : eqvSides[i].isVff = ~ eqvSides[i].isVtt
    /\ unsat_cores \subseteq SUBSET ((EquivIdx \cup Idx) \X {vff, vtt})
    /\ Running => Stack /\ CoresUnsat

(* e lies in the vtt subtree of a formula whose vff subtree is visited, or *)
(* in the subtree just left.                                               *)
Agrees(e, n) == \A i \in 0 .. n - 1 : e[i] = choice[i]

Passed(e) ==
    \/ \E i \in 0 .. depth - 1 : choice[i] = vff /\ e[i] = vtt /\ Agrees(e, i)
    \/ mode = "return" /\ Agrees(e, depth)

Judged(e) == \E i \in DOMAIN eqvSides : eqvSides[i].eval = e

JudgedOnce ==
    \A i, j \in DOMAIN eqvSides : eqvSides[i].eval = eqvSides[j].eval => i = j

AllJudged == \A w \in World : Judged(EquivOf[w])

(* The first traversal: what was judged is behind, and what is behind and  *)
(* has a model was judged.                                                 *)
EquivProgress ==
    /\ \A e \in EquivEvaluation : Judged(e) => Passed(e)
    /\ \A w \in World : Passed(EquivOf[w]) => Judged(EquivOf[w])

(* The second: as soon as an evaluation with a model is behind, the sides  *)
(* are collected if there are two.                                         *)
Mixed ==
    /\ \E i \in DOMAIN eqvSides : eqvSides[i].isVtt
    /\ \E i \in DOMAIN eqvSides : eqvSides[i].isVff

Collected == Mixed => vocSides # {}

VocabProgress == \A w \in World : Passed(VocabOf[w]) => Collected

(* Every side is collected, in order.                                      *)
SidesShape ==
    \A vs \in vocSides :
        /\ vs.eval \in Evaluation
        /\ vs.idxEqvEvalVec = [i \in DOMAIN eqvSides |-> i]

Inv ==
    /\ Shape
    /\ JudgedOnce
    /\ phase = "equiv" => EquivProgress /\ vocSides = {}
    /\ phase \notin {"equiv", "crashed"} => AllJudged
    /\ phase = "vocab" => VocabProgress
    /\ phase = "done" => \A w \in World : Collected
    /\ SidesShape
    /\ corrections = IF phase = "done" THEN computePrintCorrection ELSE {}

-------------------------------------------------------------------------------
LEMMA LeastNat ==
    ASSUME NEW T \in SUBSET Nat, T # {}
    PROVE  \E n \in T : \A m \in T : n <= m
<1> DEFINE R == OpToRel(<, Nat)
<1>1. IsWellFoundedOn(R, Nat)
  BY NatLessThanWellFounded
<1>2. \A x, y \in Nat : x < y => <<x, y>> \in R
  BY DEF OpToRel
<1> HIDE DEF R
<1>3. PICK n \in T : \A m \in T : ~ (<<m, n>> \in R)
  BY <1>1, WFMin
<1>4. ASSUME NEW m \in T
      PROVE  n <= m
  <2>1. m \in Nat /\ n \in Nat
    OBVIOUS
  <2>2. ~ (m < n)
    BY <1>2, <1>3, <2>1
  <2> QED BY <2>1, <2>2
<1> QED BY <1>4

(* The query without assumptions rejects no model: the loop adds every     *)
(* index.                                                                  *)
LEMMA AllSides ==
    ASSUME eqvSides \in Seq(SideMapPair), NEW ch
    PROVE  SidesOf(ch) = [i \in DOMAIN eqvSides |-> i]
<1> DEFINE L == Len(eqvSides)
           Loop(a) == a = [n \in 0 .. L |->
                              IF n = 0 THEN <<>>
                              ELSE IF checkEqvModelWithVocabChoice(ch, eqvSides[n])
                              THEN Append(a[n - 1], n)
                              ELSE a[n - 1]]
           all == [n \in 0 .. L |-> [i \in 1 .. n |-> i]]
           added == CHOOSE a : Loop(a)
<1>1. L \in Nat /\ DOMAIN eqvSides = 1 .. L
  OBVIOUS
<1>2. \A side : checkEqvModelWithVocabChoice(ch, side)
  BY DEF checkEqvModelWithVocabChoice, Matches
<1> HIDE DEF L
<1>3. \A n \in 1 .. L : Append([i \in 1 .. n - 1 |-> i], n) = [i \in 1 .. n |-> i]
  <2> SUFFICES ASSUME NEW n \in 1 .. L
               PROVE  Append([i \in 1 .. n - 1 |-> i], n) = [i \in 1 .. n |-> i]
    OBVIOUS
  <2>1. [i \in 1 .. n - 1 |-> i] \in Seq(Nat) /\ Len([i \in 1 .. n - 1 |-> i]) = n - 1
    BY <1>1
  <2> QED BY <1>1, <2>1
<1>4. [i \in 1 .. 0 |-> i] = <<>>
  OBVIOUS
<1>5. Loop(all)
  <2> DEFINE turn(n) == IF n = 0 THEN <<>>
                        ELSE IF checkEqvModelWithVocabChoice(ch, eqvSides[n])
                        THEN Append(all[n - 1], n)
                        ELSE all[n - 1]
  <2>1. ASSUME NEW n \in 0 .. L
        PROVE  turn(n) = [i \in 1 .. n |-> i]
    <3>1. CASE n = 0
      BY <1>4, <3>1
    <3>2. CASE n # 0
      <4>1. all[n - 1] = [i \in 1 .. n - 1 |-> i] /\ n \in 1 .. L
        BY <1>1, <3>2
      <4> HIDE DEF all
      <4> QED BY <1>2, <1>3, <3>2, <4>1
    <3> QED BY <3>1, <3>2
  <2> QED BY <2>1
<1>6. Loop(added)
  <2> HIDE DEF Loop, all
  <2> QED BY <1>5
<1>7. SidesOf(ch) = added[L]
  BY DEF SidesOf, L
<1> HIDE DEF added
<1> DEFINE Wrong == {n \in 0 .. L : added[n] # [i \in 1 .. n |-> i]}
<1>8. Wrong = {}
  <2> SUFFICES ASSUME Wrong # {} PROVE FALSE
    OBVIOUS
  <2>1. Wrong \in SUBSET Nat
    BY <1>1
  <2> HIDE DEF Wrong
  <2>2. PICK n \in Wrong : \A m \in Wrong : n <= m
    BY <2>1, LeastNat
  <2>3. n \in 0 .. L /\ added[n] # [i \in 1 .. n |-> i]
    BY <2>2 DEF Wrong
  <2>4. n # 0
    BY <1>1, <1>4, <1>6, <2>3
  <2>5. n - 1 \in 0 .. L /\ n - 1 \notin Wrong
    BY <1>1, <2>2, <2>3, <2>4
  <2>6. added[n - 1] = [i \in 1 .. n - 1 |-> i]
    BY <2>5 DEF Wrong
  <2>7. added[n] = Append(added[n - 1], n)
    BY <1>1, <1>2, <1>6, <2>3, <2>4
  <2> QED BY <1>1, <1>3, <2>3, <2>4, <2>6, <2>7
<1>9. added[L] = [i \in 1 .. L |-> i]
  <2>1. L \in 0 .. L
    BY <1>1
  <2> QED BY ZenonT(30), <1>8, <2>1
<1> QED BY <1>1, <1>7, <1>9

-------------------------------------------------------------------------------
LEMMA Sizes == Size \in Nat
BY EquivSizeAssumption, VocabSizeAssumption DEF Size

LEMMA EvaluationIsComplete ==
    ASSUME Running
    PROVE  /\ phase = "equiv" => Complete = EquivEvaluation /\ Formulae = EquivIdx
           /\ phase = "vocab" => Complete = Evaluation /\ Formulae = Idx
           /\ \A w \in World : EvaluationOf(w) \in Complete
BY EquivOfAssumption, VocabOfAssumption
   DEF Complete, Formulae, Size, Running, EquivEvaluation, EquivIdx, Evaluation, Idx,
       EvaluationOf

LEMMA LeafIsEvaluation ==
    ASSUME Stack, depth = Size
    PROVE  choice \in Complete
BY Sizes DEF Stack, Formulae, Complete, vuu, vff, vtt

LEMMA LeafIsChoice ==
    ASSUME Stack, depth = Size, NEW e \in Complete, Agrees(e, depth)
    PROVE  e = choice
BY Sizes, LeafIsEvaluation DEF Agrees, Complete, Formulae

(* A pattern that matches the values so far matches the whole subtree.     *)
LEMMA MatchDownwards ==
    ASSUME Stack, NEW core \in unsat_cores, Matches(choice, core),
           NEW e \in Complete, Agrees(e, depth)
    PROVE  Matches(e, core)
<1>1. ASSUME NEW p \in core
      PROVE  e[p[1]] = p[2]
  <2>1. p[1] \in Formulae /\ p[2] \in {vff, vtt}
    BY DEF Stack
  <2>2. choice[p[1]] = p[2]
    BY DEF Matches
  <2> QED BY <2>1, <2>2, Sizes DEF Stack, Formulae, Agrees, vuu, vff, vtt
<1> QED BY <1>1 DEF Matches

(* The steps of a traversal.                                               *)
Move == DescendTrue \/ DescendFalse \/ Ascend
LeaveSubtree == IgnoreSubtree \/ CheckUnsat \/ Judge \/ CollectSides

LEMMA OverrunCrashes ==
    ASSUME PatternOverrun
    PROVE  UnsetTheory
BY DEF PatternOverrun, AtLeaf, UnsetTheory, Running

LEMMA EquivCases ==
    ASSUME phase = "equiv", Next
    PROVE  Move \/ LeaveSubtree \/ UnsetTheory \/ StartVocab
BY OverrunCrashes DEF Next, Traverse, Move, LeaveSubtree, ModelNotParsed, Finish

LEMMA VocabCases ==
    ASSUME phase = "vocab", Next
    PROVE  Move \/ LeaveSubtree \/ UnsetTheory \/ ModelNotParsed \/ Finish
BY OverrunCrashes DEF Next, Traverse, Move, LeaveSubtree, StartVocab

LEMMA NoFurther ==
    ASSUME ~ Running
    PROVE  ~ Next
BY OverrunCrashes
   DEF Next, Traverse, IgnoreSubtree, CheckUnsat, Judge, DescendTrue, DescendFalse, Ascend,
   UnsetTheory, StartVocab, CollectSides, ModelNotParsed, Finish, Running

LEMMA LeaveCases ==
    ASSUME LeaveSubtree
    PROVE  /\ UNCHANGED <<phase, depth, choice, corrections>>
           /\ mode = "call" /\ mode' = "return"
           /\ Running
           /\ Judge \/ UNCHANGED eqvSides
           /\ CollectSides \/ UNCHANGED vocSides
BY DEF LeaveSubtree, IgnoreSubtree, CheckUnsat, Judge, CollectSides, AtLeaf, Running

LEMMA MoveCases ==
    ASSUME Move
    PROVE  UNCHANGED <<phase, unsat_cores, eqvSides, vocSides, corrections>> /\ Running
BY DEF Move, DescendTrue, DescendFalse, Ascend

LEMMA SizeStays ==
    ASSUME phase' = phase
    PROVE  /\ Size' = Size /\ Formulae' = Formulae
           /\ Running' = Running
           /\ \A w : EvaluationOf(w)' = EvaluationOf(w)
BY DEF Size, Formulae, Running, EvaluationOf

-------------------------------------------------------------------------------
LEMMA CoresStep ==
    ASSUME Stack, CoresUnsat, Move \/ LeaveSubtree
    PROVE  /\ unsat_cores' \subseteq SUBSET (Formulae \X {vff, vtt})
           /\ \A w \in World, core \in unsat_cores' : ~ Matches(EvaluationOf(w), core)
<1>1. CASE CheckUnsat
  <2>1. PICK core \in SUBSET SubPattern(choice, 0 .. Size - 1) :
           ~ IsSat(core) /\ unsat_cores' = unsat_cores \cup {core}
    BY <1>1 DEF CheckUnsat
  <2>2. depth = Size
    BY <1>1 DEF CheckUnsat, AtLeaf
  <2>3. choice \in Complete
    BY <2>2, LeafIsEvaluation
  <2>4. core \subseteq Formulae \X {vff, vtt}
    BY <2>1, <2>3 DEF SubPattern, Complete, Formulae
  <2>5. \A w \in World : ~ Matches(EvaluationOf(w), core)
    BY <2>1 DEF IsSat
  <2> QED BY <2>1, <2>4, <2>5 DEF Stack, CoresUnsat
<1>2. CASE UNCHANGED unsat_cores
  BY <1>2 DEF Stack, CoresUnsat
<1> QED BY <1>1, <1>2, MoveCases DEF LeaveSubtree, IgnoreSubtree, Judge, CollectSides

LEMMA StackStep ==
    ASSUME Stack, CoresUnsat, mode \in {"call", "return"}, Move \/ LeaveSubtree
    PROVE  Stack' /\ CoresUnsat' /\ mode' \in {"call", "return"}
<1>1. phase' = phase
  BY MoveCases, LeaveCases
<1>2. CoresUnsat' /\ unsat_cores' \subseteq SUBSET (Formulae \X {vff, vtt})
  BY <1>1, CoresStep, SizeStays DEF CoresUnsat
<1>3. /\ depth' \in 0 .. Size
      /\ choice' \in [Formulae -> {vuu, vff, vtt}]
      /\ \A i \in 0 .. depth' - 1 : choice'[i] \in {vff, vtt}
      /\ \A i \in depth' .. Size - 1 : choice'[i] = vuu
      /\ mode' \in {"call", "return"}
  <2> USE Sizes DEF Stack, Formulae, vuu, vff, vtt
  <2>1. CASE DescendTrue
    BY <2>1 DEF DescendTrue
  <2>2. CASE DescendFalse
    BY <2>2 DEF DescendFalse
  <2>3. CASE Ascend
    BY <2>3 DEF Ascend
  <2>4. CASE LeaveSubtree
    BY <2>4, LeaveCases
  <2> QED BY <2>1, <2>2, <2>3, <2>4 DEF Move
<1> QED BY <1>1, <1>2, <1>3, SizeStays DEF Stack

(* What is behind stays behind; something comes behind only when the       *)
(* subtree it is in is left.                                               *)
LEMMA PassedStep ==
    ASSUME Stack, Move \/ LeaveSubtree, NEW e \in Complete
    PROVE  /\ Passed(e) => Passed(e)'
           /\ Passed(e)' => Passed(e) \/ (LeaveSubtree /\ Agrees(e, depth))
<1> USE Sizes DEF Stack, Formulae, Complete, vuu, vff, vtt, Passed, Agrees
<1>1. CASE LeaveSubtree
  BY <1>1, LeaveCases
<1>3. CASE DescendTrue
  <2> USE <1>3 DEF DescendTrue
  <2>1. \A i \in 0 .. depth - 1 : choice'[i] = choice[i]
    OBVIOUS
  <2>2. choice'[depth] = vtt /\ 0 .. depth' - 1 = 0 .. depth - 1 \cup {depth}
    OBVIOUS
  <2>3. \A i \in 0 .. depth : Agrees(e, i)' <=> Agrees(e, i)
    BY <2>1
  <2> QED BY SMTT(30), <2>1, <2>2, <2>3
<1>4. CASE DescendFalse
  <2> USE <1>4 DEF DescendFalse
  <2>1. \A i \in 0 .. depth - 2 : choice'[i] = choice[i]
    OBVIOUS
  <2>2. choice'[depth - 1] = vff /\ depth - 1 \in 0 .. depth' - 1
    OBVIOUS
  <2>3. Passed(e) => Passed(e)'
    <3>1. ASSUME Agrees(e, depth)
          PROVE  e[depth - 1] = vtt /\ Agrees(e, depth - 1)'
      BY <3>1, <2>1
    <3>2. ASSUME NEW i \in 0 .. depth - 1, choice[i] = vff, e[i] = vtt, Agrees(e, i)
          PROVE  Passed(e)'
      BY <3>2, <2>1
    <3> QED BY <3>1, <3>2, <2>2
  <2>4. Passed(e)' => Passed(e)
    <3>1. ASSUME NEW i \in 0 .. depth - 1, choice'[i] = vff, e[i] = vtt, Agrees(e, i)'
          PROVE  Passed(e)
      <4>1. CASE i = depth - 1
        BY <3>1, <4>1, <2>1
      <4>2. CASE i < depth - 1
        BY <3>1, <4>2, <2>1
      <4> QED BY <4>1, <4>2
    <3> QED BY <3>1
  <2> QED BY <2>3, <2>4
<1>5. CASE Ascend
  <2> USE <1>5 DEF Ascend
  <2>1. \A i \in 0 .. depth - 2 : choice'[i] = choice[i]
    OBVIOUS
  <2>2. Passed(e) => Passed(e)'
    <3>1. ASSUME Agrees(e, depth)
          PROVE  Agrees(e, depth)'
      BY <3>1, <2>1
    <3>2. ASSUME NEW i \in 0 .. depth - 1, choice[i] = vff, e[i] = vtt, Agrees(e, i)
          PROVE  Passed(e)'
      <4>1. CASE i = depth - 1
        BY <3>2, <4>1, <2>1
      <4>2. CASE i < depth - 1
        BY <3>2, <4>2, <2>1
      <4> QED BY <4>1, <4>2
    <3> QED BY <3>1, <3>2
  <2>3. Passed(e)' => Passed(e)
    <3>1. ASSUME NEW i \in 0 .. depth - 2, choice'[i] = vff, e[i] = vtt, Agrees(e, i)'
          PROVE  Passed(e)
      BY <3>1, <2>1
    <3>2. ASSUME Agrees(e, depth)'
          PROVE  Passed(e)
      <4>1. Agrees(e, depth - 1)
        BY <3>2, <2>1
      <4>2. CASE e[depth - 1] = vtt
        BY <4>1, <4>2
      <4>3. CASE e[depth - 1] = vff
        BY <4>1, <4>3
      <4> QED BY <4>2, <4>3
    <3> QED BY <3>1, <3>2
  <2> QED BY <2>2, <2>3
<1> QED BY <1>1, <1>3, <1>4, <1>5 DEF Move

-------------------------------------------------------------------------------
(* A leaf that has a model is judged, or its sides are collected; no other *)
(* subtree that is left holds an evaluation with a model.                  *)
LEMMA LeftWithModel ==
    ASSUME Stack, CoresUnsat, LeaveSubtree, NEW w \in World, Agrees(EvaluationOf(w), depth)
    PROVE  Judge \/ CollectSides
<1> DEFINE e == EvaluationOf(w)
<1>1. e \in Complete
  BY LeaveCases, EvaluationIsComplete
<1>2. CASE IgnoreSubtree
  <2>1. PICK core \in unsat_cores : Matches(choice, core)
    BY <1>2 DEF IgnoreSubtree, matchesUnsatCore
  <2> QED BY <1>1, <2>1, MatchDownwards DEF CoresUnsat
<1>3. CASE CheckUnsat
  <2>1. depth = Size
    BY <1>3 DEF CheckUnsat, AtLeaf
  <2>2. e = choice
    BY <1>1, <2>1, LeafIsChoice
  <2>3. PICK core \in SUBSET SubPattern(choice, 0 .. Size - 1) : ~ IsSat(core)
    BY <1>3 DEF CheckUnsat
  <2>4. Matches(choice, core)
    BY <2>3 DEF SubPattern, Matches
  <2> QED BY <2>2, <2>3, <2>4 DEF IsSat
<1> QED BY <1>2, <1>3 DEF LeaveSubtree

(* Behind the traversal there comes, with a model, only what is judged or  *)
(* collected.                                                              *)
LEMMA PassedWithModel ==
    ASSUME Stack, CoresUnsat, Move \/ LeaveSubtree,
           NEW w \in World, Passed(EvaluationOf(w))'
    PROVE  \/ Passed(EvaluationOf(w))
           \/ (Judge \/ CollectSides) /\ EvaluationOf(w) = choice
<1> DEFINE e == EvaluationOf(w)
<1>1. e \in Complete
  BY LeaveCases, MoveCases, EvaluationIsComplete
<1>2. e' = e
  BY LeaveCases, MoveCases, SizeStays
<1>3. Passed(e) \/ (LeaveSubtree /\ Agrees(e, depth))
  <2>1. \A f \in Complete : Passed(f)' => Passed(f) \/ (LeaveSubtree /\ Agrees(f, depth))
    BY PassedStep
  <2>2. e' = e => (Passed(e)' <=> \E f : f = e /\ Passed(f)')
    BY DEF Passed, Agrees
  <2> QED BY <1>1, <1>2, <2>1, <2>2
<1>4. CASE LeaveSubtree /\ Agrees(e, depth)
  <2>1. Judge \/ CollectSides
    BY <1>4, LeftWithModel
  <2>2. depth = Size
    BY <2>1 DEF Judge, CollectSides, AtLeaf
  <2> QED BY <1>1, <1>4, <2>1, <2>2, LeafIsChoice
<1> QED BY <1>3, <1>4

-------------------------------------------------------------------------------
LEMMA InvInit == Init => Inv
<1> SUFFICES ASSUME Init PROVE Inv
  OBVIOUS
<1>1. Stack /\ CoresUnsat
  BY Sizes DEF Init, Stack, CoresUnsat, Formulae, Size, EquivIdx
<1>2. eqvSides \in Seq(SideMapPair) /\ DOMAIN eqvSides = {}
  BY DEF Init
<1>3. \A e : ~ Passed(e)
  BY DEF Init, Passed
<1>4. EquivProgress
  BY <1>2, <1>3 DEF EquivProgress, Judged
<1> QED BY <1>1, <1>2, <1>4 DEF Inv, Shape, JudgedOnce, SidesShape, Init

(* A judgement: one more element, for the leaf, which is not behind.       *)
LEMMA JudgeStep ==
    ASSUME Shape, EquivProgress, JudgedOnce, Judge
    PROVE  /\ eqvSides' \in Seq(SideMapPair)
           /\ \A i \in DOMAIN eqvSides' : eqvSides'[i].isVff = ~ eqvSides'[i].isVtt
           /\ \A e : Judged(e)' <=> Judged(e) \/ e = choice
           /\ JudgedOnce'
<1>1. depth = Size /\ choice \in EquivEvaluation
  BY LeafIsEvaluation, EvaluationIsComplete DEF Shape, Judge, AtLeaf, Running
<1>2. PICK w \in World, yes \in BOOLEAN :
         eqvSides' = Append(eqvSides, [eval |-> choice, isVtt |-> yes,
                                       isVff |-> ~ yes, model |-> w])
  BY DEF Judge
<1> DEFINE side == [eval |-> choice, isVtt |-> yes, isVff |-> ~ yes, model |-> w]
<1>3. side \in SideMapPair /\ side.eval = choice /\ side.isVff = ~ side.isVtt
  BY <1>1 DEF SideMapPair
<1> HIDE DEF side
<1>4. eqvSides' = Append(eqvSides, side)
  BY <1>2 DEF side
<1>5. /\ eqvSides' \in Seq(SideMapPair)
      /\ DOMAIN eqvSides = 1 .. Len(eqvSides)
      /\ DOMAIN eqvSides' = 1 .. Len(eqvSides) + 1
      /\ Len(eqvSides) \in Nat
      /\ \A i \in 1 .. Len(eqvSides) : eqvSides'[i] = eqvSides[i]
      /\ eqvSides'[Len(eqvSides) + 1] = side
  BY <1>3, <1>4 DEF Shape
<1>6. \A e : Judged(e)' <=> Judged(e) \/ e = choice
  BY <1>3, <1>5 DEF Judged
<1>7. ~ Passed(choice)
  BY DEF Passed, Judge, AtLeaf, vff, vtt
<1>8. \A i \in DOMAIN eqvSides : eqvSides[i].eval # choice
  BY <1>1, <1>7 DEF EquivProgress, Judged
<1>9. JudgedOnce'
  BY <1>3, <1>5, <1>8 DEF JudgedOnce
<1>10. \A i \in DOMAIN eqvSides' : eqvSides'[i].isVff = ~ eqvSides'[i].isVtt
  BY <1>3, <1>5 DEF Shape
<1> QED BY <1>5, <1>6, <1>9, <1>10

LEMMA EquivStep ==
    ASSUME Shape, EquivProgress, JudgedOnce, phase = "equiv", Move \/ LeaveSubtree
    PROVE  /\ EquivProgress' /\ JudgedOnce' /\ eqvSides' \in Seq(SideMapPair)
           /\ \A i \in DOMAIN eqvSides' : eqvSides'[i].isVff = ~ eqvSides'[i].isVtt
           /\ UNCHANGED vocSides
<1>0. /\ Running /\ Stack /\ CoresUnsat
      /\ Complete = EquivEvaluation
      /\ \A w \in World : EquivOf[w] \in EquivEvaluation
      /\ \A w : EvaluationOf(w) = EquivOf[w]
      /\ \A w : EvaluationOf(w)' = EquivOf[w]
      /\ ~ CollectSides
  BY EvaluationIsComplete, EquivOfAssumption, MoveCases, LeaveCases
     DEF Shape, Running, EvaluationOf, CollectSides
<1>1. ASSUME NEW w \in World, Passed(EquivOf[w])'
      PROVE  Passed(EquivOf[w]) \/ (Judge /\ EquivOf[w] = choice)
  <2>1. Passed(EvaluationOf(w))'
    BY <1>0, <1>1 DEF Passed, Agrees
  <2>2. Passed(EvaluationOf(w)) \/ ((Judge \/ CollectSides) /\ EvaluationOf(w) = choice)
    BY <1>0, <2>1, PassedWithModel
  <2> QED BY <1>0, <2>2 DEF Passed, Agrees
<1>2. CASE Judge
  <2>1. depth = Size /\ mode' = "return" /\ UNCHANGED <<depth, choice>>
    BY <1>2 DEF Judge, AtLeaf
  <2>2. ASSUME NEW e \in EquivEvaluation, Judged(e)'
        PROVE  Passed(e)'
    <3>1. Judged(e) \/ e = choice
      BY <1>2, <2>2, JudgeStep
    <3>2. CASE e = choice
      BY <2>1, <3>2 DEF Passed, Agrees
    <3>3. CASE Judged(e)
      BY <1>0, <3>3, PassedStep DEF EquivProgress
    <3> QED BY <3>1, <3>2, <3>3
  <2>3. \A w \in World : Passed(EquivOf[w])' => Judged(EquivOf[w])'
    BY <1>1, <1>2, JudgeStep DEF EquivProgress
  <2> QED BY <1>2, <2>2, <2>3, JudgeStep, LeaveCases DEF EquivProgress, LeaveSubtree, Judge
<1>3. CASE ~ Judge
  <2>1. UNCHANGED <<eqvSides, vocSides>>
    BY <1>0, <1>3, MoveCases, LeaveCases
  <2>2. \A e : Judged(e)' <=> Judged(e)
    BY <2>1 DEF Judged
  <2>3. \A e \in EquivEvaluation : Judged(e)' => Passed(e)'
    BY <1>0, <2>2, PassedStep DEF EquivProgress
  <2>4. \A w \in World : Passed(EquivOf[w])' => Judged(EquivOf[w])'
    BY <1>1, <1>3, <2>2 DEF EquivProgress
  <2> QED BY <2>1, <2>3, <2>4 DEF EquivProgress, JudgedOnce, Shape
<1> QED BY <1>2, <1>3

-------------------------------------------------------------------------------
(* The second traversal.                                                   *)
LEMMA MixedSides ==
    ASSUME eqvSides \in Seq(SideMapPair), NEW ch
    PROVE  isVttVff(SidesOf(ch)) <=> Mixed
BY AllSides DEF isVttVff, Mixed

LEMMA CollectStep ==
    ASSUME Shape, SidesShape, CollectSides
    PROVE  SidesShape' /\ Collected'
<1>1. depth = Size /\ choice \in Evaluation /\ UNCHANGED eqvSides
  BY LeafIsEvaluation, EvaluationIsComplete DEF Shape, CollectSides, AtLeaf, Running
<1>2. vocSides' = IF Mixed
                  THEN vocSides \cup {[eval |-> choice, idxEqvEvalVec |-> SidesOf(choice)]}
                  ELSE vocSides
  BY MixedSides DEF CollectSides, Shape
<1>3. SidesOf(choice) = [i \in DOMAIN eqvSides |-> i]
  BY AllSides DEF Shape
<1>4. Mixed' <=> Mixed
  BY <1>1 DEF Mixed
<1>5. Collected'
  BY <1>2, <1>4 DEF Collected
<1>6. SidesShape'
  BY <1>1, <1>2, <1>3 DEF SidesShape
<1> QED BY <1>5, <1>6

LEMMA VocabStep ==
    ASSUME Shape, VocabProgress, SidesShape, phase = "vocab", Move \/ LeaveSubtree
    PROVE  VocabProgress' /\ SidesShape' /\ UNCHANGED eqvSides
<1>0. /\ Running /\ Stack /\ CoresUnsat
      /\ \A w : EvaluationOf(w) = VocabOf[w]
      /\ \A w : EvaluationOf(w)' = VocabOf[w]
      /\ UNCHANGED eqvSides
  BY MoveCases, LeaveCases DEF Shape, Running, EvaluationOf, Judge
<1>1. CASE CollectSides
  BY <1>0, <1>1, CollectStep DEF VocabProgress
<1>2. CASE ~ CollectSides
  <2>1. UNCHANGED <<eqvSides, vocSides>>
    BY <1>0, <1>2, MoveCases, LeaveCases
  <2>2. Collected' <=> Collected
    BY <2>1 DEF Collected, Mixed
  <2>3. ASSUME NEW w \in World, Passed(VocabOf[w])'
        PROVE  Passed(VocabOf[w])
    <3>1. Passed(EvaluationOf(w))'
      BY <1>0, <2>3 DEF Passed, Agrees
    <3>2. Passed(EvaluationOf(w)) \/ ((Judge \/ CollectSides) /\ EvaluationOf(w) = choice)
      BY <1>0, <3>1, PassedWithModel
    <3>3. ~ Judge
      BY DEF Judge
    <3> QED BY <1>0, <1>2, <3>2, <3>3 DEF Passed, Agrees
  <2> QED BY <2>1, <2>2, <2>3 DEF VocabProgress, SidesShape
<1> QED BY <1>1, <1>2

LEMMA InvStep ==
    ASSUME Inv, [Next]_vars
    PROVE  Inv'
<1> USE DEF Inv
<1>1. CASE phase = "equiv" /\ (Move \/ LeaveSubtree)
  <2>1. Stack' /\ CoresUnsat' /\ mode' \in {"call", "return"} /\ phase' = phase
        /\ corrections' = corrections
    BY <1>1, StackStep, MoveCases, LeaveCases DEF Shape
  <2>3. unsat_cores' \subseteq SUBSET ((EquivIdx \cup Idx) \X {vff, vtt})
    BY <1>1, CoresStep DEF Shape, Formulae, Size, EquivIdx, Idx, Running
  <2>2. /\ EquivProgress' /\ JudgedOnce' /\ eqvSides' \in Seq(SideMapPair)
        /\ \A i \in DOMAIN eqvSides' : eqvSides'[i].isVff = ~ eqvSides'[i].isVtt
        /\ vocSides' = {}
    BY <1>1, EquivStep
  <2> QED BY <1>1, <2>1, <2>2, <2>3 DEF Shape, SidesShape
<1>2. CASE phase = "vocab" /\ (Move \/ LeaveSubtree)
  <2>1. Stack' /\ CoresUnsat' /\ mode' \in {"call", "return"} /\ phase' = phase
        /\ corrections' = corrections
    BY <1>2, StackStep, MoveCases, LeaveCases DEF Shape, Running
  <2>4. unsat_cores' \subseteq SUBSET ((EquivIdx \cup Idx) \X {vff, vtt})
    BY <1>2, CoresStep DEF Shape, Formulae, Size, EquivIdx, Idx, Running
  <2>2. VocabProgress' /\ SidesShape' /\ eqvSides' = eqvSides
    BY <1>2, VocabStep
  <2>3. JudgedOnce' /\ AllJudged'
    BY <1>2, <2>2 DEF JudgedOnce, AllJudged, Judged
  <2> QED BY <1>2, <2>1, <2>2, <2>3, <2>4 DEF Shape
<1>3. CASE UnsetTheory
  BY <1>3 DEF UnsetTheory, traversal, Shape, JudgedOnce, SidesShape, Running
<1>4. CASE StartVocab
  <2>1. \A e : Passed(e)
    BY <1>4 DEF StartVocab, Passed, Agrees
  <2>2. AllJudged' /\ JudgedOnce'
    BY <1>4, <2>1 DEF StartVocab, JudgedOnce, EquivProgress, AllJudged, Judged
  <2>3. Stack' /\ CoresUnsat'
    BY <1>4, Sizes, VocabSizeAssumption
       DEF StartVocab, Stack, CoresUnsat, Formulae, Size, NoChoice, Idx
  <2>4. VocabProgress'
    BY <1>4 DEF StartVocab, VocabProgress, Passed
  <2> QED BY <1>4, <2>2, <2>3, <2>4 DEF StartVocab, Shape, SidesShape
<1>5. CASE ModelNotParsed
  BY <1>5 DEF ModelNotParsed, traversal, Shape, JudgedOnce, AllJudged, Judged, SidesShape, Running
<1>6. CASE Finish
  <2>1. \A e : Passed(e)
    BY <1>6 DEF Finish, Passed, Agrees
  <2>2. \A w \in World : Collected'
    BY <1>6, <2>1 DEF Finish, VocabProgress, Collected, Mixed
  <2>3. corrections' = computePrintCorrection'
    BY <1>6 DEF Finish, computePrintCorrection, Admits, VttSides
  <2> QED BY <1>6, <2>2, <2>3
          DEF Finish, traversal, Shape, JudgedOnce, AllJudged, Judged, SidesShape, Running
<1>7. CASE UNCHANGED vars
  <2>1. UNCHANGED <<phase, mode, depth, choice, unsat_cores, eqvSides, vocSides, corrections>>
    BY <1>7 DEF vars, traversal
  <2> QED BY <2>1 DEF Shape, Stack, CoresUnsat, Formulae, Size, EvaluationOf, Running,
             JudgedOnce, AllJudged, Judged, EquivProgress, VocabProgress, Collected, Mixed,
             SidesShape, computePrintCorrection, Admits, VttSides, Passed, Agrees
<1>8. Next => Move \/ LeaveSubtree \/ UnsetTheory \/ StartVocab \/ ModelNotParsed \/ Finish
  BY EquivCases, VocabCases, NoFurther DEF Running
<1>9. Move \/ LeaveSubtree => phase = "equiv" \/ phase = "vocab"
  BY MoveCases, LeaveCases DEF Running
<1> QED BY <1>1, <1>2, <1>3, <1>4, <1>5, <1>6, <1>7, <1>8, <1>9

LEMMA EvalsTyped ==
    ASSUME eqvSides \in Seq(SideMapPair)
    PROVE  \A i \in DOMAIN eqvSides : eqvSides[i].eval \in EquivEvaluation
<1>1. \A i \in DOMAIN eqvSides : eqvSides[i] \in SideMapPair
  OBVIOUS
<1> QED BY <1>1 DEF SideMapPair

LEMMA Inductive == Spec => []Inv
BY InvInit, InvStep, PTL DEF Spec

-------------------------------------------------------------------------------
(* Whatever subtrees the unsat cores prune and whichever cores the solver  *)
(* gives, each evaluation of the equivalence theory that has a model is    *)
(* put to the user exactly once.                                           *)
THEOREM JudgedExactlyOnce == Spec => []EachJudgedOnce
<1>1. Inv => EachJudgedOnce
  BY DEF Inv, EachJudgedOnce, JudgedOnce, AllJudged, Judged
<1> QED BY Inductive, <1>1, PTL

(* `vocab is adequate' is never said of a vocabulary with an evaluation    *)
(* that both an accepted and a rejected model satisfy.                     *)
THEOREM VerdictRight == Spec => []AdequateVerdict
<1>1. Inv => AdequateVerdict
  <2> SUFFICES ASSUME Inv, phase = "done", vocSides = {},
                      NEW i \in DOMAIN eqvSides, NEW j \in DOMAIN eqvSides,
                      eqvSides[i].isVtt, eqvSides[j].isVff
               PROVE  FALSE
    BY DEF AdequateVerdict
  <2>1. eqvSides[i] \in SideMapPair
    BY DEF Inv, Shape
  <2>2. eqvSides[i].model \in World
    BY <2>1 DEF SideMapPair
  <2> QED BY <2>2 DEF Inv, Collected, Mixed
<1> QED BY Inductive, <1>1, PTL

(* A correction never excludes what the user accepted, although it reads   *)
(* the sides by a counter of its own.                                      *)
THEOREM AcceptedAdmitted == Spec => []CorrectionAdmitsAccepted
<1>1. Inv => CorrectionAdmitsAccepted
  <2> SUFFICES ASSUME Inv, NEW c \in corrections, NEW i \in DOMAIN eqvSides, eqvSides[i].isVtt
               PROVE  eqvSides[i].eval \in c.admits
    BY DEF CorrectionAdmitsAccepted
  <2>1. PICK vs \in vocSides : c = [eval |-> vs.eval, admits |-> Admits(vs)]
    BY DEF Inv, computePrintCorrection
  <2>2. i \in VttSides(vs)
    BY <2>1 DEF Inv, Shape, SidesShape, VttSides
  <2>3. eqvSides[i].eval \in EquivEvaluation
    BY EvalsTyped DEF Inv, Shape
  <2> QED BY <2>1, <2>2, <2>3 DEF Admits
<1> QED BY Inductive, <1>1, PTL

(* Each traversal keeps within the vectors it was set up with, those of    *)
(* the first one in the first and those of the second in the second.       *)
THEOREM TypeCorrect == Spec => []TypeOK
<1>1. Inv => TypeOK
  <2> SUFFICES ASSUME Inv PROVE TypeOK
    OBVIOUS
  <2>1. unsat_cores \subseteq SUBSET ((EquivIdx \cup Idx) \X {vff, vtt})
    BY DEF Inv, Shape
  <2>2. ASSUME NEW vs \in vocSides
        PROVE  vs.eval \in Evaluation /\ vs.idxEqvEvalVec \in Seq(DOMAIN eqvSides)
    <3>1. DOMAIN eqvSides = 1 .. Len(eqvSides) /\ Len(eqvSides) \in Nat
      BY DEF Inv, Shape
    <3>2. vs.eval \in Evaluation /\ vs.idxEqvEvalVec = [i \in DOMAIN eqvSides |-> i]
      BY DEF Inv, SidesShape
    <3> QED BY <3>1, <3>2
  <2>3. ASSUME NEW c \in corrections
        PROVE  c.eval \in Evaluation /\ c.admits \subseteq EquivEvaluation
    <3>1. PICK vs \in vocSides : c = [eval |-> vs.eval, admits |-> Admits(vs)]
      BY DEF Inv, computePrintCorrection
    <3>2. \A j \in VttSides(vs) : eqvSides[j].eval \in EquivEvaluation
      BY EvalsTyped DEF Inv, Shape, SidesShape, VttSides
    <3> QED BY <2>2, <3>1, <3>2 DEF Admits
  <2> QED BY <2>1, <2>2, <2>3 DEF Inv, Shape, Stack, Formulae, TypeOK
<1> QED BY Inductive, <1>1, PTL
================================================================================
