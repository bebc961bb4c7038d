----------------------------- MODULE Simplification -----------------------------
(***************************************************************************)
(* What sc does once the enumeration has ended: espressoSimplify writes    *)
(* the accepted evaluations as a truth table, has Espresso simplify it     *)
(* twice, reads the equation and the rows back and hands the rows to ABC   *)
(* (scImpl.cpp).  Whether a file can be opened and whether a command runs  *)
(* is the environment's choice; so are the answers to the prompt.          *)
(***************************************************************************)
EXTENDS Espresso

CONSTANT AcceptedSets     \* the sets of evaluations the user may have accepted

ASSUME AcceptedSetsAssumption == AcceptedSets \subseteq SUBSET Evaluation

VARIABLES
    at,               \* the statement to be executed next, see Points
    yesChoices,       \* the accepted evaluations, in the order of acceptance
    invalidInputRIX,  \* the last answer to the prompt was none of R, I, X
    disk,             \* the files of this process: a function of their names
    formula,          \* what readSimplifiedFormulaEqnToTT returned
    kissChoices,      \* the rows readSimplifiedFormulaKiss read
    lost              \* a command or a file of Espresso's output failed

vars == <<at, yesChoices, invalidInputRIX, disk, formula, kissChoices, lost>>

Ended == {"done", "ignored", "exited", "not handed on"}
Points == {"open", "prompt", "eqn", "kiss", "read eqn", "read kiss", "abccmd", "blif"} \cup Ended
Files == {".tt", "eqntott.simplified", "kiss.simplified", "abccmd", ".abc.blif"}

(* A formula name of the equation that the reader dropped.                 *)
NoName == -1

(* Each file is written at its statement, and nothing is read, or handed   *)
(* on, of a table that was never written.                                  *)
TypeOK ==
    /\ at \in Points
    /\ invalidInputRIX \in BOOLEAN /\ lost \in BOOLEAN
    /\ DOMAIN disk \subseteq Files
    /\ kissChoices \in Seq(PartialEvaluation)
    /\ at \in {"open", "prompt", "ignored", "exited"} <=> ".tt" \notin DOMAIN disk

-------------------------------------------------------------------------------
(* The traversal gives a formula the value true first.                     *)
Reached(e, f) ==
    \E i \in Idx : e[i] = vtt /\ f[i] = vff /\ \A j \in 0 .. i - 1 : e[j] = f[j]

Init ==
    /\ at = "open"
    /\ \E S \in AcceptedSets : yesChoices = Arranged(S, Reached)
    /\ invalidInputRIX = FALSE
    /\ disk = << >>
    /\ formula = << >>
    /\ kissChoices = << >>
    /\ lost = FALSE

Write(file, content) ==
    disk' = [f \in DOMAIN disk \cup {file} |-> IF f = file THEN content ELSE disk[f]]

(* A row per accepted evaluation.  The values of the enumeration are       *)
(* written as they are read: vuu is "-".                                   *)
writeEspressoFile ==
    /\ at = "open" /\ ~ invalidInputRIX
    /\ at' = "eqn"
    /\ Write(".tt", yesChoices)
    /\ UNCHANGED <<yesChoices, invalidInputRIX, formula, kissChoices, lost>>

(* The file did not open, or was not tried: an answer that was not         *)
(* understood leads back to the prompt without another attempt.            *)
Ask ==
    /\ at = "open"
    /\ at' = "prompt"
    /\ invalidInputRIX' = FALSE
    /\ UNCHANGED <<yesChoices, disk, formula, kissChoices, lost>>

Answer ==
    /\ at = "prompt"
    /\ \/ at' = "open" /\ invalidInputRIX' = FALSE      \* R
       \/ at' = "ignored" /\ UNCHANGED invalidInputRIX  \* I
       \/ at' = "exited" /\ UNCHANGED invalidInputRIX   \* X
       \/ at' = "open" /\ invalidInputRIX' = TRUE
    /\ UNCHANGED <<yesChoices, disk, formula, kissChoices, lost>>

-------------------------------------------------------------------------------
(* espresso -Dsimplify on the table; without a row it finds no PLA on the  *)
(* file and prints nothing.                                                *)
Simplified == simplify[cube1list(parse_pla(disk[".tt"]))]

(* The shell has created the output file before the command fails; or it   *)
(* could not create it.                                                    *)
RunEspresso(point, next, file, output) ==
    /\ at = point
    /\ at' = next
    /\ \/ Write(file, output) /\ UNCHANGED lost
       \/ lost' = TRUE /\ (Write(file, << >>) \/ UNCHANGED disk)
    /\ UNCHANGED <<yesChoices, invalidInputRIX, formula, kissChoices>>

eqnCommand == RunEspresso("eqn", "kiss", "eqntott.simplified", eqn_output(Simplified))

kissCommand == RunEspresso("kiss", "read eqn", "kiss.simplified", kiss_output(Simplified))

(* A number is looked up when the character after it is read; one that     *)
(* ends its line is dropped, since the state is reset for each line.       *)
ReadName(literal) == IF literal.eol THEN NoName ELSE literal.v

ReadTerm(term) == [i \in DOMAIN term |-> [v |-> ReadName(term[i]), neg |-> term[i].neg]]

Content(file) == IF file \in DOMAIN disk THEN disk[file] ELSE << >>

readSimplifiedFormulaEqnToTT ==
    /\ at = "read eqn"
    /\ at' = "read kiss"
    /\ LET text == Content("eqntott.simplified")
       IN  formula' = [i \in DOMAIN text |-> ReadTerm(text[i])]
    /\ UNCHANGED <<yesChoices, invalidInputRIX, disk, kissChoices, lost>>

readSimplifiedFormulaKiss ==
    /\ at = "read kiss"
    /\ at' = "abccmd"
    /\ kissChoices' = Content("kiss.simplified")
    /\ UNCHANGED <<yesChoices, invalidInputRIX, disk, formula, lost>>

(* abcSimplifyR: the commands, and the rows as a blif model.  What ABC     *)
(* makes of them is printed and not used.                                  *)
Create(point, next, file, content) ==
    /\ at = point
    /\ \/ at' = next /\ Write(file, content)
       \/ at' = "not handed on" /\ UNCHANGED disk
    /\ UNCHANGED <<yesChoices, invalidInputRIX, formula, kissChoices, lost>>

writeCommands == Create("abccmd", "blif", "abccmd", << >>)

writeBlif == Create("blif", "done", ".abc.blif", kissChoices)

Next ==
    \/ writeEspressoFile \/ Ask \/ Answer
    \/ eqnCommand \/ kissCommand
    \/ readSimplifiedFormulaEqnToTT \/ readSimplifiedFormulaKiss
    \/ writeCommands \/ writeBlif

Spec == Init /\ [][Next]_vars

-------------------------------------------------------------------------------
(* Properties                                                              *)

Admits(row, e) == \A v \in Idx : row[v] \in {vuu, e[v]}

(* The rows that reach ABC admit exactly the accepted evaluations, however *)
(* the table was cut, merged and lifted (compl.c); and none but accepted   *)
(* ones even when a command or its output file failed (scImpl.cpp:2045),   *)
(* where the model handed on says false.                                   *)
RowsExact ==
    ".abc.blif" \in DOMAIN disk =>
        \A e \in Evaluation :
            LET admitted == \E row \in ToSet(disk[".abc.blif"]) : Admits(row, e)
            IN  /\ admitted => e \in ToSet(yesChoices)
                /\ e \in ToSet(yesChoices) /\ ~ lost => admitted

(* What comes back is simpler: no more rows than accepted evaluations, and *)
(* no row within another one, though each half is lifted against the other *)
(* before the halves are joined (compl_merge).                             *)
RowsSimpler ==
    /\ Len(kissChoices) <= Len(yesChoices)
    /\ \A i, j \in DOMAIN kissChoices : i # j =>
          ~ setp_implies(read_cube(kissChoices[i]), read_cube(kissChoices[j]))

(* `formula after esprersso simplify' (scImpl.cpp:1791): what is printed   *)
(* under it names a vocabulary formula wherever Espresso's equation does.  *)
FormulaNamed == \A term \in ToSet(formula) : \A l \in ToSet(term) : l.v # NoName

Satisfies(e, literal) == literal.v # NoName /\ e[literal.v] = IF literal.neg THEN vff ELSE vtt

(* The equation read back holds for exactly the accepted evaluations,      *)
(* unless the reader dropped a name of it (see FormulaNamed).              *)
EquationExact ==
    at = "read kiss" /\ ~ lost /\ FormulaNamed =>
        \A e \in Evaluation :
            (\E term \in ToSet(formula) : \A l \in ToSet(term) : Satisfies(e, l))
                <=> e \in ToSet(yesChoices)

===============================================================================
