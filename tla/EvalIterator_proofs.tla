-------------------------- MODULE EvalIterator_proofs --------------------------
(***************************************************************************)
(* Proofs about the iterator: for every vocabulary, whatever patterns the  *)
(* client adds between two calls, a pass covers the tree and gives each    *)
(* evaluation at most once.                                                *)
(***************************************************************************)
EXTENDS EvalIterator, TLAPS

Shape == TypeOK /\ Cursor

LEMMA SubPatternIsPattern ==
    ASSUME NEW e \in Evaluation, NEW D \in SUBSET Idx
    PROVE  SubPattern(e, D) \in Pattern
BY DEF SubPattern, Pattern, Literal, Evaluation

(* A complete choice is an evaluation.                                     *)
LEMMA FullIsEvaluation ==
    ASSUME NEW ch \in PartialEvaluation, \A i \in Idx : ch[i] # vuu
    PROVE  ch \in Evaluation
BY DEF PartialEvaluation, Evaluation, vuu, vff, vtt

(* What the client is given is complete.                                   *)
LEMMA GivenIsComplete ==
    ASSUME Shape, phase # "loop", ~ allTraversed
    PROVE  depth = Last /\ choice \in Evaluation
<1>1. \A i \in Idx : choice[i] # vuu
  BY VocabSizeAssumption, NonEmptyVocab DEF Shape, Cursor, Last, Idx
<1> QED BY <1>1, FullIsEvaluation DEF Shape, TypeOK, Cursor

LEMMA ShapeInit == Init => Shape
<1> SUFFICES ASSUME Init PROVE Shape
  OBVIOUS
<1>1. depth \in Idx
  BY VocabSizeAssumption, NonEmptyVocab DEF Init, Idx
<1>2. choice \in PartialEvaluation /\ \A i \in Idx : choice[i] = vuu
  BY DEF Init, NoChoice, PartialEvaluation
<1>3. Cursor
  BY <1>2, VocabSizeAssumption DEF Init, Cursor, Idx
<1> QED BY <1>1, <1>2, <1>3 DEF Init, Shape, TypeOK

(* How one turn of the loop moves the cursor, one case for each exit.      *)
Down(v) ==
    /\ choice' = [choice EXCEPT ![depth] = v]
    /\ depth # Last /\ depth' = depth + 1
    /\ phase' = "loop" /\ given' = given
    /\ allTraversed' = allTraversed

Give(v) ==
    /\ choice' = [choice EXCEPT ![depth] = v]
    /\ depth = Last /\ depth' = depth
    /\ phase' = "returned" /\ given' = given \cup {choice'}
    /\ allTraversed' = allTraversed

LEMMA GoDownCases ==
    ASSUME Shape, GoDown, phase = "loop", NEW v, choice' = [choice EXCEPT ![depth] = v]
    PROVE  Down(v) \/ Give(v)
BY VocabSizeAssumption DEF GoDown, Down, Give, Last, Shape, TypeOK, Idx

LEMMA DownShape ==
    ASSUME Shape, phase = "loop", NEW v \in {vff, vtt}, Down(v) \/ Give(v),
           UNCHANGED <<unsat_cores, asserted, model, answers>>
    PROVE  Shape'
<1> USE VocabSizeAssumption, NonEmptyVocab
    DEF Shape, TypeOK, Cursor, Idx, PartialEvaluation, Last, vuu, vff, vtt
<1>1. choice' \in PartialEvaluation /\ depth' \in Idx
  BY DEF Down, Give
<1>2. given' \subseteq PartialEvaluation
  BY <1>1 DEF Down, Give
<1>3. Cursor'
  BY DEF Down, Give
<1> QED BY <1>1, <1>2, <1>3 DEF Down, Give, answers

LEMMA UpShape ==
    ASSUME Shape, phase = "loop", traverseUp,
           UNCHANGED <<unsat_cores, asserted, model, answers>>
    PROVE  Shape'
<1> USE VocabSizeAssumption, NonEmptyVocab
    DEF Shape, TypeOK, Cursor, Idx, PartialEvaluation, Last, vuu, vff, vtt
<1>1. choice' \in PartialEvaluation /\ depth' \in Idx
  BY DEF traverseUp
<1>2. Cursor'
  BY DEF traverseUp
<1> QED BY <1>1, <1>2 DEF traverseUp, answers

(* The three turns of the loop as moves of the cursor.                     *)
LEMMA LoopCases ==
    ASSUME Shape, nextEvaluation
    PROVE  /\ phase = "loop"
           /\ UNCHANGED <<unsat_cores, asserted, model, answers>>
           /\ \/ choice[depth] = vuu /\ (Down(vtt) \/ Give(vtt))
              \/ /\ choice[depth] = vuu /\ (Down(vff) \/ Give(vff))
                 /\ matchesUnsatCore([choice EXCEPT ![depth] = vtt], unsat_cores)
              \/ choice[depth] = vtt /\ (Down(vff) \/ Give(vff))
              \/ /\ choice[depth] = vtt /\ traverseUp
                 /\ matchesUnsatCore([choice EXCEPT ![depth] = vff], unsat_cores)
              \/ choice[depth] = vff /\ traverseUp
<1>1. CASE FirstBranch
  <2> DEFINE tried == [choice EXCEPT ![depth] = vtt]
  <2>1. CASE matchesUnsatCore(tried, unsat_cores)
    BY <1>1, <2>1, GoDownCases DEF FirstBranch
  <2>2. CASE ~ matchesUnsatCore(tried, unsat_cores)
    BY <1>1, <2>2, GoDownCases DEF FirstBranch
  <2> QED BY <1>1, <2>1, <2>2 DEF FirstBranch
<1>2. CASE SecondBranch
  <2> DEFINE tried == [choice EXCEPT ![depth] = vff]
  <2>1. CASE matchesUnsatCore(tried, unsat_cores)
    BY <1>2, <2>1 DEF SecondBranch
  <2>2. CASE ~ matchesUnsatCore(tried, unsat_cores)
    BY <1>2, <2>2, GoDownCases DEF SecondBranch
  <2> QED BY <1>2, <2>1, <2>2 DEF SecondBranch
<1>3. CASE BranchesDone
  BY <1>3 DEF BranchesDone
<1> QED BY <1>1, <1>2, <1>3 DEF nextEvaluation

LEMMA ShapeStep ==
    ASSUME Shape, [Next]_vars
    PROVE  Shape'
<1>1. CASE nextEvaluation
  BY <1>1, LoopCases, DownShape, UpShape
<1>2. CASE Client
  <2> USE VocabSizeAssumption, NonEmptyVocab
      DEF Shape, TypeOK, Cursor, iterator, answers
  <2>0. \A A, ch : choiceAssertRetract(A, ch) \subseteq A \cup Literal
    BY DEF choiceAssertRetract
  <2>1. CASE Stop
    BY <2>1 DEF Stop
  <2>2. CASE reset
    <3>1. depth' \in Idx
      BY <2>2 DEF reset, Idx
    <3>2. choice' \in PartialEvaluation /\ \A i \in Idx : choice'[i] = vuu
      BY <2>2 DEF reset, NoChoice, PartialEvaluation
    <3>3. Cursor'
      BY <2>2, <3>2 DEF reset, Idx
    <3> QED BY <2>2, <3>1, <3>2, <3>3 DEF reset
  <2>3. CASE Z3CheckTrue
    BY <2>0, <2>3, SatisfiableAssumption DEF Z3CheckTrue
  <2>4. CASE Z3CheckFalse
    <3>1. asserted' \subseteq Literal /\ model' = {}
      BY <2>0, <2>4 DEF Z3CheckFalse
    <3>2. unsat_cores' \subseteq Pattern
      BY <3>1, <2>4 DEF Z3CheckFalse, Pattern
    <3> QED BY <2>4, <3>1, <3>2 DEF Z3CheckFalse
  <2>5. CASE Z3CheckUndef
    BY <2>0, <2>5 DEF Z3CheckUndef
  <2>6. CASE AnswerYes
    BY <2>6 DEF AnswerYes, Answered
  <2>7. CASE AnswerNo
    <3>1. choice \in Evaluation
      BY <2>7, GivenIsComplete DEF AnswerNo, Answered
    <3>2. unsat_cores' \subseteq Pattern
      BY <2>7, <3>1, SubPatternIsPattern DEF AnswerNo
    <3> QED BY <2>7, <3>2 DEF AnswerNo, Answered
  <2>8. CASE AnswerOther
    BY <2>8 DEF AnswerOther, Answered
  <2> QED BY <1>2, <2>1, <2>2, <2>3, <2>4, <2>5, <2>6, <2>7, <2>8 DEF Client
<1>3. CASE UNCHANGED vars
  BY <1>3 DEF vars, Shape, TypeOK, Cursor
<1> QED BY <1>1, <1>2, <1>3 DEF Next

(* The state of the iterator, the recorder and the client keeps its type;  *)
(* in particular nextEvaluation never reads choice outside its bounds.     *)
THEOREM TypeCorrect == Spec => []TypeOK
<1>1. Shape => TypeOK
  BY DEF Shape
<1> QED BY ShapeInit, ShapeStep, <1>1, PTL DEF Spec
-------------------------------------------------------------------------------
(* What is behind the cursor                                               *)

(* A pattern that matches the values up to depth matches every evaluation  *)
(* that agrees with them, as there are no values beyond.                   *)
LEMMA MatchDownwards ==
    ASSUME Shape, NEW v \in {vff, vtt}, NEW e \in Evaluation,
           \A i \in 0 .. depth - 1 : e[i] = choice[i], e[depth] = v,
           matchesUnsatCore([choice EXCEPT ![depth] = v], unsat_cores)
    PROVE  matchesUnsatCore(e, unsat_cores)
<1> USE VocabSizeAssumption DEF Shape, TypeOK, Cursor, Idx, PartialEvaluation, vuu, vff, vtt
<1>1. PICK core \in unsat_cores : Matches([choice EXCEPT ![depth] = v], core)
  BY DEF matchesUnsatCore
<1>2. ASSUME NEW p \in core
      PROVE  e[p[1]] = p[2]
  <2>1. p[1] \in Idx /\ p[2] \in {vff, vtt}
    BY DEF Pattern, Literal
  <2>2. [choice EXCEPT ![depth] = v][p[1]] = p[2]
    BY <1>1 DEF Matches
  <2> QED BY <2>1, <2>2
<1> QED BY <1>2 DEF matchesUnsatCore, Matches

(* e is behind a formula above d that is at its second value; e has the    *)
(* values of ch above d.                                                   *)
Above(e, ch, d) == \A j \in 0 .. d - 1 : e[j] = ch[j]
Before(e, ch, d) == \E i \in 0 .. d - 1 : ch[i] = vff /\ e[i] = vtt /\ Above(e, ch, i)

(* Passed, cut at depth.                                                   *)
LEMMA PassedCut ==
    ASSUME NEW e, NEW d \in Nat, NEW ch
    PROVE  (\E i \in 0 .. d : ch[i] = vff /\ e[i] = vtt /\ Above(e, ch, i))
           <=> Before(e, ch, d) \/ (ch[d] = vff /\ e[d] = vtt /\ Above(e, ch, d))
<1>1. \A i : i \in 0 .. d <=> i \in 0 .. d - 1 \/ i = d
  OBVIOUS
<1> QED BY <1>1 DEF Before

LEMMA AboveNext ==
    ASSUME NEW e, NEW d \in Nat, NEW ch
    PROVE  Above(e, ch, d + 1) <=> Above(e, ch, d) /\ e[d] = ch[d]
BY DEF Above

LEMMA BehindIs ==
    ASSUME NEW e, NEW d \in Nat, NEW ch, depth = d, choice = ch
    PROVE  Passed(e) <=> \/ allTraversed
                         \/ Before(e, ch, d)
                         \/ ch[d] = vff /\ e[d] = vtt /\ Above(e, ch, d)
                         \/ ch[d] # vuu /\ Above(e, ch, d) /\ e[d] = ch[d]
<1>1. \A i : Agrees(e, i) <=> Above(e, ch, i)
  BY DEF Agrees, Above
<1> QED BY <1>1, PassedCut, AboveNext DEF Passed

LEMMA BehindIsNext ==
    ASSUME NEW e, NEW d \in Nat, NEW ch, depth' = d, choice' = ch
    PROVE  Passed(e)' <=> \/ allTraversed'
                          \/ Before(e, ch, d)
                          \/ ch[d] = vff /\ e[d] = vtt /\ Above(e, ch, d)
                          \/ ch[d] # vuu /\ Above(e, ch, d) /\ e[d] = ch[d]
<1>1. \A i : Agrees(e, i)' <=> Above(e, ch, i)
  BY DEF Agrees, Above
<1>2. Passed(e)' <=> \/ allTraversed'
                     \/ \E i \in 0 .. d : ch[i] = vff /\ e[i] = vtt /\ Above(e, ch, i)
                     \/ ch[d] # vuu /\ Above(e, ch, d + 1)
  BY <1>1 DEF Passed
<1> QED BY <1>2, PassedCut, AboveNext

(* A new value at d changes nothing above d.                               *)
LEMMA ExceptKeepsAbove ==
    ASSUME NEW ch \in PartialEvaluation, NEW d \in Idx, NEW v, NEW e
    PROVE  LET new == [ch EXCEPT ![d] = v]
           IN  /\ new[d] = v
               /\ \A j \in Idx : j # d => new[j] = ch[j]
               /\ Above(e, new, d) <=> Above(e, ch, d)
               /\ Before(e, new, d) <=> Before(e, ch, d)
<1> DEFINE new == [ch EXCEPT ![d] = v]
<1>1. \A j \in Idx : j # d => new[j] = ch[j]
  BY DEF PartialEvaluation
<1>2. \A j \in 0 .. d - 1 : new[j] = ch[j]
  BY <1>1, VocabSizeAssumption DEF Idx
<1>3. \A i \in 0 .. d : Above(e, new, i) <=> Above(e, ch, i)
  BY <1>2, VocabSizeAssumption DEF Above, Idx
<1>4. Before(e, new, d) <=> Before(e, ch, d)
  <2> HIDE DEF new
  <2>1. \A i \in 0 .. d - 1 : i \in 0 .. d
    BY VocabSizeAssumption DEF Idx
  <2> QED BY <1>2, <1>3, <2>1 DEF Before
<1>5. new[d] = v
  BY DEF PartialEvaluation
<1> HIDE DEF new
<1>6. Above(e, new, d) <=> Above(e, ch, d)
  BY <1>3, VocabSizeAssumption DEF Idx
<1> QED BY <1>1, <1>4, <1>5, <1>6 DEF new

(* A complete choice has no other evaluation than itself at the cursor.    *)
LEMMA LeafIsChoice ==
    ASSUME NEW ch \in PartialEvaluation, NEW e \in Evaluation,
           Above(e, ch, Last), e[Last] = ch[Last]
    PROVE  e = ch
<1>1. \A i \in Idx : e[i] = ch[i]
  BY VocabSizeAssumption, NonEmptyVocab DEF Above, Last, Idx
<1> QED BY <1>1 DEF Evaluation, PartialEvaluation

(* The cursor moves down, or gives a leaf.                                 *)
LEMMA DownPassed ==
    ASSUME Shape, phase = "loop", NEW e \in Evaluation, NEW v \in {vff, vtt},
           Down(v) \/ Give(v)
    PROVE  Passed(e)' <=> \/ Before(e, choice, depth)
                          \/ v = vff /\ e[depth] = vtt /\ Above(e, choice, depth)
                          \/ /\ depth = Last /\ Above(e, choice, depth)
                             /\ e[depth] = v
<1> USE VocabSizeAssumption DEF Shape, TypeOK, Idx
<1> DEFINE new == [choice EXCEPT ![depth] = v]
<1>0. ~ allTraversed' /\ choice' = new
  BY DEF Cursor, Down, Give
<1>1. /\ new[depth] = v
      /\ \A j \in Idx : j # depth => new[j] = choice[j]
      /\ Above(e, new, depth) <=> Above(e, choice, depth)
      /\ Before(e, new, depth) <=> Before(e, choice, depth)
  BY ExceptKeepsAbove
<1>2. new \in PartialEvaluation
  BY DEF PartialEvaluation, vuu, vff, vtt
<1> HIDE DEF new
<1>3. CASE Down(v)
  <2>1. depth' = depth + 1 /\ depth # Last /\ depth + 1 \in Idx
    BY <1>3 DEF Down, Last
  <2>2. new[depth + 1] = vuu
    BY <1>1, <2>1 DEF Cursor
  <2>3. Passed(e)' <=> Before(e, new, depth + 1)
    BY <1>0, <2>1, <2>2, BehindIsNext DEF vuu, vff
  <2>4. Before(e, new, depth + 1)
        <=> Before(e, new, depth) \/ (new[depth] = vff /\ e[depth] = vtt /\ Above(e, new, depth))
    BY PassedCut, (depth + 1) - 1 = depth DEF Before
  <2> QED BY <1>1, <2>1, <2>3, <2>4
<1>4. CASE Give(v)
  <2>1. depth' = depth /\ depth = Last
    BY <1>4 DEF Give
  <2>2. v # vuu
    BY DEF vuu, vff, vtt
  <2> QED BY <1>0, <1>1, <2>1, <2>2, BehindIsNext
<1> QED BY <1>3, <1>4

(* The cursor moves up.                                                    *)
LEMMA UpPassed ==
    ASSUME Shape, phase = "loop", NEW e \in Evaluation, traverseUp
    PROVE  Passed(e)' <=> Before(e, choice, depth) \/ Above(e, choice, depth)
<1> USE VocabSizeAssumption DEF Shape, TypeOK, Idx
<1>1. CASE depth = 0
  <2>1. allTraversed' = TRUE
    BY <1>1 DEF traverseUp
  <2>2. Passed(e)'
    BY <2>1 DEF Passed
  <2>3. Above(e, choice, depth)
    BY <1>1 DEF Above
  <2> QED BY <2>2, <2>3
<1>2. CASE depth # 0
  <2> DEFINE new == [choice EXCEPT ![depth] = vuu]
             up == depth - 1
  <2>1. /\ \A j \in Idx : j # depth => new[j] = choice[j]
        /\ Above(e, new, depth) <=> Above(e, choice, depth)
        /\ Before(e, new, depth) <=> Before(e, choice, depth)
    BY ExceptKeepsAbove
  <2>2. ~ allTraversed' /\ choice' = new /\ depth' = up /\ up \in Nat /\ up + 1 = depth
    BY <1>2 DEF Cursor, traverseUp
  <2>3. new[up] = choice[up] /\ choice[up] \in {vff, vtt} /\ e[up] \in {vff, vtt}
    <3>1. up \in Idx /\ up < depth
      BY <1>2
    <3> QED BY <2>1, <3>1 DEF Cursor, PartialEvaluation, Evaluation
  <2> HIDE DEF new, up
  <2>4. Passed(e)' <=> \/ Before(e, new, up)
                       \/ new[up] = vff /\ e[up] = vtt /\ Above(e, new, up)
                       \/ new[up] # vuu /\ Above(e, new, up) /\ e[up] = new[up]
    BY <2>2, BehindIsNext
  <2>5. Above(e, new, depth) <=> Above(e, new, up) /\ e[up] = new[up]
    BY <2>2, AboveNext
  <2>6. Before(e, new, depth)
        <=> Before(e, new, up) \/ (new[up] = vff /\ e[up] = vtt /\ Above(e, new, up))
    BY <2>2, PassedCut, depth - 1 = up DEF Before
  <2> QED BY <2>1, <2>3, <2>4, <2>5, <2>6 DEF vuu, vff, vtt
<1> QED BY <1>1, <1>2

(* One turn of the loop: what is behind stays behind, and what comes       *)
(* behind was given in the turn or matches a pattern.                      *)
LEMMA PassedStep ==
    ASSUME Shape, nextEvaluation, NEW e \in Evaluation
    PROVE  /\ Passed(e) => Passed(e)'
           /\ Passed(e)' => Passed(e) \/ e \in given' \/ matchesUnsatCore(e, unsat_cores)
<1> DEFINE At == Above(e, choice, depth)
<1>0. depth \in Nat /\ e[depth] \in {vff, vtt} /\ ~ allTraversed /\ phase = "loop"
  BY LoopCases, VocabSizeAssumption DEF Shape, TypeOK, Cursor, Idx, Evaluation
<1>1. Passed(e) <=> \/ Before(e, choice, depth)
                    \/ choice[depth] = vff /\ e[depth] = vtt /\ At
                    \/ choice[depth] # vuu /\ At /\ e[depth] = choice[depth]
  BY <1>0, BehindIs
<1>2. \A v \in {vff, vtt} :
         At /\ e[depth] = v /\ matchesUnsatCore([choice EXCEPT ![depth] = v], unsat_cores)
         => matchesUnsatCore(e, unsat_cores)
  BY MatchDownwards DEF Above
<1>3. \A v \in {vff, vtt} :
         (Down(v) \/ Give(v)) =>
            (Passed(e)' <=> \/ Before(e, choice, depth)
                            \/ v = vff /\ e[depth] = vtt /\ At
                            \/ depth = Last /\ At /\ e[depth] = v)
  BY <1>0, DownPassed
<1>4. traverseUp => (Passed(e)' <=> Before(e, choice, depth) \/ At)
  BY <1>0, UpPassed
<1>5. \A v \in {vff, vtt} :
         (Down(v) \/ Give(v)) /\ depth = Last /\ At /\ e[depth] = v => e \in given'
  <2> SUFFICES ASSUME NEW v \in {vff, vtt}, Down(v) \/ Give(v), depth = Last, At,
                      e[depth] = v
               PROVE  e \in given'
    OBVIOUS
  <2>1. Give(v)
    BY DEF Down
  <2>2. choice' \in PartialEvaluation /\ Above(e, choice', Last) /\ e[Last] = choice'[Last]
    <3> USE DEF Shape, TypeOK
    <3>1. choice' = [choice EXCEPT ![depth] = v]
      BY <2>1 DEF Give
    <3> DEFINE new == [choice EXCEPT ![depth] = v]
    <3>2. new[depth] = v /\ (Above(e, new, depth) <=> Above(e, choice, depth))
      BY ExceptKeepsAbove
    <3>3. new \in PartialEvaluation
      BY DEF PartialEvaluation, vuu, vff, vtt
    <3> HIDE DEF new
    <3> QED BY <3>1, <3>2, <3>3 DEF new
  <2> QED BY <2>1, <2>2, LeafIsChoice DEF Give
<1>6. vff # vtt /\ vuu # vff /\ vuu # vtt
  BY DEF vuu, vff, vtt
<1> HIDE DEF At
<1>7. CASE choice[depth] = vuu /\ (Down(vtt) \/ Give(vtt))
  BY <1>0, <1>1, <1>3, <1>5, <1>6, <1>7
<1>8. CASE /\ choice[depth] = vuu /\ (Down(vff) \/ Give(vff))
           /\ matchesUnsatCore([choice EXCEPT ![depth] = vtt], unsat_cores)
  BY <1>0, <1>1, <1>2, <1>3, <1>5, <1>6, <1>8
<1>9. CASE choice[depth] = vtt /\ (Down(vff) \/ Give(vff))
  BY <1>0, <1>1, <1>3, <1>5, <1>6, <1>9
<1>10. CASE /\ choice[depth] = vtt /\ traverseUp
            /\ matchesUnsatCore([choice EXCEPT ![depth] = vff], unsat_cores)
  BY <1>0, <1>1, <1>2, <1>4, <1>6, <1>10
<1>11. CASE choice[depth] = vff /\ traverseUp
  BY <1>0, <1>1, <1>4, <1>6, <1>11
<1> QED BY <1>7, <1>8, <1>9, <1>10, <1>11, LoopCases

(* Patterns are only added, so what matched one still does.                *)
LEMMA PatternsStay ==
    ASSUME Shape, Next
    PROVE  unsat_cores \subseteq unsat_cores'
<1>1. CASE nextEvaluation
  BY <1>1, LoopCases
<1>2. CASE Client
  BY <1>2 DEF Client, Stop, reset, Z3CheckTrue, Z3CheckFalse, Z3CheckUndef,
     AnswerYes, AnswerNo, AnswerOther, Answered
<1> QED BY <1>1, <1>2 DEF Next

(* Between two calls the client leaves the cursor alone, or resets it.     *)
LEMMA ClientCases ==
    ASSUME Client
    PROVE  reset \/ UNCHANGED iterator
BY DEF Client, Stop, Z3CheckTrue, Z3CheckFalse, Z3CheckUndef, AnswerYes,
   AnswerNo, AnswerOther, Answered

(* At the root nothing is behind.                                          *)
LEMMA NothingPassed ==
    ASSUME NEW e
    PROVE  /\ Init => ~ Passed(e)
           /\ reset => ~ Passed(e)'
<1>1. \A i \in 0 .. 0 : i \in Idx /\ NoChoice[i] = vuu
  BY VocabSizeAssumption, NonEmptyVocab DEF Idx, NoChoice
<1>2. vuu # vff
  BY DEF vuu, vff
<1>3. Init => ~ Passed(e)
  BY <1>1, <1>2 DEF Init, Passed
<1>4. reset => ~ Passed(e)'
  BY <1>1, <1>2 DEF reset, Passed
<1> QED BY <1>3, <1>4

Behind == PassedCovered /\ GivenPassed

LEMMA BehindStep ==
    ASSUME Shape, Shape', Behind, [Next]_vars
    PROVE  Behind'
<1>1. CASE nextEvaluation
  <2>1. unsat_cores \subseteq unsat_cores' /\ given \subseteq given'
    <3>1. Down(vtt) \/ Give(vtt) \/ Down(vff) \/ Give(vff) \/ traverseUp
      BY <1>1, LoopCases
    <3> QED BY <1>1, <3>1, PatternsStay DEF Next, Down, Give, traverseUp
  <2>2. PassedCovered'
    BY <1>1, <2>1, PassedStep DEF Behind, PassedCovered, matchesUnsatCore
  <2>3. given' \subseteq Evaluation
    <3>1. CASE given' = given
      BY <3>1 DEF Behind, GivenPassed
    <3>2. CASE given' = given \cup {choice'} /\ phase' = "returned" /\ ~ allTraversed'
      <4>1. \A i \in Idx : choice'[i] # vuu
        BY <3>2, VocabSizeAssumption, NonEmptyVocab DEF Shape, Cursor, Last, Idx
      <4> QED BY <3>2, <4>1, FullIsEvaluation DEF Shape, TypeOK, Behind, GivenPassed
    <3> QED BY <1>1, <3>1, <3>2, LoopCases DEF Down, Give, traverseUp, Shape, Cursor
  <2>4. \A e \in given' : Passed(e)'
    <3> SUFFICES ASSUME NEW e \in given' PROVE Passed(e)'
      OBVIOUS
    <3>1. CASE e \in given
      BY <1>1, <3>1, PassedStep DEF Behind, GivenPassed
    <3>2. CASE Give(vtt) \/ Give(vff)
      <4>1. CASE e = choice'
        <5>1. choice'[depth'] # vuu
          BY <3>2, <1>1, LoopCases DEF Give, Shape, TypeOK, PartialEvaluation, vuu, vff, vtt
        <5>2. Agrees(choice, depth + 1)'
          BY DEF Agrees
        <5> QED BY <4>1, <5>1, <5>2 DEF Passed, Agrees
      <4> QED BY <3>1, <3>2, <4>1 DEF Give
    <3> QED BY <1>1, <3>1, <3>2, LoopCases DEF Down, traverseUp
  <2> QED BY <2>2, <2>3, <2>4 DEF Behind, GivenPassed
<1>2. CASE reset
  BY <1>2, NothingPassed DEF Behind, PassedCovered, GivenPassed, reset
<1>3. CASE UNCHANGED iterator /\ unsat_cores \subseteq unsat_cores'
  <2>1. \A e : Passed(e)' <=> Passed(e)
    BY <1>3 DEF Passed, Agrees, iterator
  <2> QED BY <1>3, <2>1 DEF Behind, PassedCovered, GivenPassed, iterator, matchesUnsatCore
<1>4. UNCHANGED vars => UNCHANGED iterator /\ unsat_cores' = unsat_cores
  BY DEF vars, iterator
<1> QED BY <1>1, <1>2, <1>3, <1>4, PatternsStay, ClientCases DEF Next

(* After choiceAssertRetract of a complete choice only that evaluation     *)
(* matches the assumed literals.                                           *)
LEMMA AssumptionsOfChoice ==
    ASSUME NEW A \in SUBSET Literal, NEW ch \in Evaluation, NEW e \in Evaluation,
           Matches(e, choiceAssertRetract(A, ch))
    PROVE  e = ch
<1>1. ASSUME NEW i \in Idx
      PROVE  e[i] = ch[i]
  <2>1. ch[i] \in {vff, vtt} /\ ch[i] # vuu
    BY DEF Evaluation, vuu, vff, vtt
  <2>2. <<i, ch[i]>> \in choiceAssertRetract(A, ch)
    BY <2>1 DEF choiceAssertRetract, Literal, vuu
  <2> QED BY <2>2 DEF Matches
<1> QED BY <1>1 DEF Evaluation

LEMMA ModelStep ==
    ASSUME Shape, ModelOfChoice, [Next]_vars
    PROVE  ModelOfChoice'
<1>1. CASE nextEvaluation
  BY <1>1, LoopCases DEF ModelOfChoice, Down, Give, traverseUp
<1>2. CASE Z3CheckTrue
  <2>1. choice \in Evaluation
    BY <1>2, GivenIsComplete DEF Z3CheckTrue
  <2> QED BY <1>2, <2>1, AssumptionsOfChoice, SatisfiableAssumption
          DEF Z3CheckTrue, ModelOfChoice, iterator, Shape, TypeOK
<1>3. CASE Client /\ ~ Z3CheckTrue
  BY <1>3 DEF Client, Stop, reset, Z3CheckFalse, Z3CheckUndef, AnswerYes, AnswerNo,
     AnswerOther, Answered, ModelOfChoice
<1>4. CASE UNCHANGED vars
  BY <1>4 DEF vars, ModelOfChoice
<1> QED BY <1>1, <1>2, <1>3, <1>4 DEF Next

(* The strengthening of the safety properties is an invariant of every     *)
(* step of the iterator and of its client.                                 *)
LEMMA Inductive == Spec => []IInv
<1>1. Init => Shape /\ Behind /\ ModelOfChoice
  BY ShapeInit, NothingPassed DEF Behind, PassedCovered, GivenPassed, ModelOfChoice, Init
<1>2. Shape /\ Behind /\ ModelOfChoice /\ [Next]_vars => (Shape /\ Behind /\ ModelOfChoice)'
  BY ShapeStep, BehindStep, ModelStep
<1>3. Shape /\ Behind /\ ModelOfChoice => IInv
  BY DEF Shape, Behind, IInv
<1> QED BY <1>1, <1>2, <1>3, PTL DEF Spec

(* At the end of a pass nextEvaluation has given every evaluation that     *)
(* matches no pattern.                                                     *)
THEOREM TreeCovered == Spec => []CoversTree
<1>1. IInv => CoversTree
  BY DEF IInv, PassedCovered, Passed, CoversTree
<1> QED BY Inductive, <1>1, PTL

(* The model the recorder explains a rejection with is of the evaluation   *)
(* the iterator stands at, for every history of assumptions.               *)
THEOREM ModelBelongs == Spec => []ModelOfChoice
<1>1. IInv => ModelOfChoice
  BY DEF IInv
<1> QED BY Inductive, <1>1, PTL

(* No evaluation is given twice in a pass.  The leaf a turn gives is not   *)
(* behind the cursor, and everything given before is.                      *)
THEOREM NoneGivenTwice == Spec => GivesNew
<1>1. ASSUME IInv, IInv', nextEvaluation, phase' = "returned", ~ allTraversed'
      PROVE  choice' \in Evaluation \ given
  <2> USE DEF IInv
  <2>1. Shape
    BY <1>1 DEF Shape
  <2>2. choice' \in Evaluation
    <3>1. \A i \in Idx : choice'[i] # vuu
      BY <1>1, VocabSizeAssumption, NonEmptyVocab DEF Cursor, Last, Idx
    <3> QED BY <1>1, <3>1, FullIsEvaluation DEF TypeOK
  <2>3. \/ choice[depth] = vuu /\ Give(vtt)
        \/ choice[depth] = vuu /\ Give(vff)
        \/ choice[depth] = vtt /\ Give(vff)
    BY <1>1, <2>1, LoopCases DEF Down, traverseUp
  <2>4. ~ Passed(choice')
    <3> DEFINE ch == choice'
    <3>0. depth \in Nat /\ depth \in Idx /\ ~ allTraversed /\ choice \in PartialEvaluation
      BY <1>1, <2>1, LoopCases, VocabSizeAssumption DEF TypeOK, Cursor, Idx
    <3>1. \A i \in Idx : i # depth => ch[i] = choice[i]
      BY <2>3, <3>0 DEF Give, PartialEvaluation
    <3>2. choice[depth] = vuu \/ (choice[depth] = vtt /\ ch[depth] = vff)
      BY <2>3, <3>0 DEF Give, PartialEvaluation
    <3>3. vff # vtt /\ vuu # vff /\ vuu # vtt
      BY DEF vuu, vff, vtt
    <3>4. ~ Before(ch, choice, depth)
      BY <3>0, <3>1, <3>3, VocabSizeAssumption DEF Before, Idx
    <3>5. Passed(ch) <=> \/ allTraversed
                         \/ Before(ch, choice, depth)
                         \/ choice[depth] = vff /\ ch[depth] = vtt /\ Above(ch, choice, depth)
                         \/ /\ choice[depth] # vuu /\ Above(ch, choice, depth)
                            /\ ch[depth] = choice[depth]
      BY <3>0, BehindIs
    <3> HIDE DEF ch
    <3>6. ~ Passed(ch)
      BY <3>0, <3>2, <3>3, <3>4, <3>5
    <3> QED BY <3>6 DEF ch
  <2> QED BY <1>1, <2>2, <2>4 DEF GivenPassed
<1>2. IInv /\ IInv' /\ [Next]_vars
      => [nextEvaluation /\ phase' = "returned" /\ ~ allTraversed'
          => choice' \in Evaluation \ given]_vars
  BY <1>1
<1> QED BY Inductive, <1>2, PTL DEF Spec, GivesNew
================================================================================
