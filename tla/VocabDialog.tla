------------------------------ MODULE VocabDialog ------------------------------
(***************************************************************************)
(* The traversal with the dialogue of answer B in full, key by key:        *)
(* getVocabPartialBadAssignments (scImpl.cpp).  The user types formula ids *)
(* and the commands -1, -2 and -3, then confirms the selection with Y, R   *)
(* or another key.  Each round of its do loop ends in the test of          *)
(* `repeat', which R and -2 set and only -3 clears.                        *)
(***************************************************************************)
EXTENDS SpecCheck

(* The local variables of the dialogue; they mean something while mode is  *)
(* dialog.                                                                 *)
VARIABLES
    phase,        \* select: reading ids; confirm: reading the key;
                  \* test: at while (repeat)
    partial,      \* the ids typed in this round; order and repetition are left
                  \* out, as they do not change what the pattern matches
    repeat        \* the loop condition

locals == <<phase, partial, repeat>>
dialogVars == <<vars, locals>>

DialogTypeOK ==
    /\ phase \in {"select", "confirm", "test"}
    /\ partial \subseteq Idx
    /\ repeat \in BOOLEAN

(* The numbers that may be typed, as many as the tests tell apart.         *)
Number == -4 .. VocabSize + 1

DialogInit == Init /\ phase = "select" /\ partial = {} /\ repeat = FALSE

(* The dialogue is at phase p.                                             *)
At(p) == mode = "dialog" /\ phase = p

-------------------------------------------------------------------------------
(* The selection loop.  A word that is no number, or a number out of       *)
(* range, changes nothing.                                                 *)

TypeId(vid) ==
    /\ At("select")
    /\ 0 <= vid /\ vid < VocabSize
    /\ partial' = partial \cup {vid}
    /\ UNCHANGED <<vars, phase, repeat>>

TypeRestart ==                                                           \* -2
    /\ At("select")
    /\ repeat' = TRUE
    /\ partial' = {}
    /\ UNCHANGED <<vars, phase>>

TypeExit ==                                                              \* -3
    /\ At("select")
    /\ repeat' = FALSE
    /\ partial' = {}
    /\ UNCHANGED <<vars, phase>>

(* Mutant: the test !partial.empty() is missing.                           *)
TypeFinishAlways ==
    /\ At("select")
    /\ phase' = "confirm"
    /\ UNCHANGED <<vars, partial, repeat>>

TypeFinish ==                                                            \* -1
    /\ At("select")
    /\ phase' = IF partial = {} THEN "test" ELSE "confirm"
    /\ UNCHANGED <<vars, partial, repeat>>

-------------------------------------------------------------------------------
(* The confirmation                                                        *)

PressY ==
    /\ At("confirm")
    /\ unsat_cores' = unsat_cores \cup {SubPattern(choice, partial)}
    /\ phase' = "test"
    /\ UNCHANGED <<mode, depth, choice, asserted, yesChoices, noChoices, main_node, th,
                   partial, repeat>>

PressR ==
    /\ At("confirm")
    /\ partial' = {}
    /\ repeat' = TRUE
    /\ phase' = "test"
    /\ UNCHANGED vars

PressOther ==
    /\ At("confirm")
    /\ phase' = "test"
    /\ UNCHANGED <<vars, partial, repeat>>

(* while (repeat): a new round starts with an empty partial, and repeat    *)
(* keeps its value.                                                        *)
NextRound ==
    /\ At("test")
    /\ repeat
    /\ phase' = "select"
    /\ partial' = {}
    /\ UNCHANGED <<vars, repeat>>

Leave ==
    /\ At("test")
    /\ ~ repeat
    /\ mode' = "return"
    /\ UNCHANGED <<depth, choice, unsat_cores, asserted, yesChoices, noChoices, main_node, th,
                   locals>>

-------------------------------------------------------------------------------
(* The traversal calls the dialogue, and goes on when it has ended.        *)
CallDialog ==
    /\ ReasonVocab
    /\ phase' = "select" /\ partial' = {} /\ repeat' = FALSE

OutsideDialog ==
    /\ traverse \/ AnswerYes \/ AnswerNo \/ ReasonContinue \/ ReasonVariables
    /\ UNCHANGED locals

DialogNext ==
    \/ OutsideDialog \/ CallDialog
    \/ \E vid \in Number : TypeId(vid)
    \/ TypeRestart \/ TypeExit \/ TypeFinish
    \/ PressY \/ PressR \/ PressOther
    \/ NextRound \/ Leave

DialogSpec == DialogInit /\ [][DialogNext]_dialogVars

-------------------------------------------------------------------------------
(* Whatever the user types in however many dialogues, the traversal with   *)
(* them is the traversal of SpecCheck: a dialogue adds patterns of current *)
(* values, never the empty one (which would eliminate everything), and     *)
(* touches nothing else.                                                   *)
ImplementsTraversal == Init /\ [][Next]_vars
===============================================================================
