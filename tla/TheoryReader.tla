---------------------------- MODULE TheoryReader ----------------------------
(***************************************************************************)
(* Reading a theory file: the rules of scma/scma.g as the functions        *)
(* generated from them (scma/scmaParser.cpp) run them.  A file is the      *)
(* sequence of its productions, in the order in which the parser completes *)
(* them; completing one is one action.  The ids of the terms and formulae  *)
(* recognised but not yet used, one per pending call, are the stack vals.  *)
(*                                                                         *)
(* A rule in which the text is wrong reports it and recovers: it returns   *)
(* as if it had matched, with the id 0, and its callers go on with that.   *)
(* Only an error in the outermost rule is not returned from: there is no   *)
(* theory then.                                                            *)
(***************************************************************************)
EXTENDS SCTheory

Names == Seq(STRING)

Productions ==
         [rule : {"declaration"}, name : Names, type : DeclaredTypes, mode : Modes]
    \cup [rule : {"constant", "atom_literal"}, value : Int]
    \cup [rule : {"variable_rule"}, left : Names, right : Names, ops : SUBSET STRING]
    \cup [rule : {"constant_rule"}, left : Names, value : Int, ops : SUBSET STRING]
    \cup [rule : {"operations_bound", "quantifiers_bound"}, value : Nat]
    \cup [rule : {"atom_variable", "atom_access", "be_variable", "forall", "exists"}, name : Names]
    \cup [rule : {"arithmetic"}, op : ArithOps]
    \cup [rule : {"relational"}, op : RelationalOps]
    \cup [rule : {"boolean"}, op : BooleanOps]
    \cup [rule : {"unaryop", "be_true", "be_false", "be_not", "clause"}]
    \cup [rule : {"wrong_declaration"}, type : DeclaredTypes, mode : Modes]
    \cup [rule : {"wrong_expression"}, kind : {"term", "be"}]
    \cup [rule : {"wrong_constant", "wrong_rule", "wrong_clause", "wrong_unit"}]

CONSTANTS
    Files,          \* what the theory file may hold
    OptimisedBuild  \* getIdOfUsedVarible runs off its end: may its value be lost?

(* Without a declaration the outermost rule does not match.                *)
Opening == {"declaration", "wrong_declaration", "wrong_unit"}

ASSUME FilesAssumption ==
    /\ Files \subseteq Seq(Productions)
    /\ \A file \in Files : file # <<>> /\ Head(file).rule \in Opening
ASSUME OptimisedBuildAssumption == OptimisedBuild \in BOOLEAN

VARIABLES
    text,           \* the productions still to be completed
    status,         \* "reading", or how it ended
    vals            \* the pending terms and formulae: their kinds and ids

readerVars == <<theory, text, status, vals>>

(* "read": a theory was returned; "null": none was; "aborted": an          *)
(* assertion failed; "exited": exit was called.                            *)
Outcomes == {"read", "null", "aborted", "exited"}

Pending == [kind : {"term", "be"}, id : Nat]

ReaderInit ==
    /\ theory = EmptyTheory
    /\ text \in Files
    /\ status = "reading"
    /\ vals = <<>>

current == Head(text)

Completes(rule) ==
    /\ status = "reading" /\ text # <<>>
    /\ current.rule = rule
    /\ text' = Tail(text)

Stop(outcome) == status' = outcome /\ UNCHANGED <<theory, vals>>

(* The theory after an item that yields no term or formula.                *)
Becomes(th) == theory' = th /\ UNCHANGED <<status, vals>>

-----------------------------------------------------------------------------
(* The sections before the vocabulary.                                     *)

declaration ==
    /\ Completes("declaration")
    /\ Becomes(handleDeclaration(theory, current.name, current.type, current.mode).th)

constant ==
    /\ Completes("constant")
    /\ Becomes(handleConstantDeclaration(theory, current.value))

(* What getIdOfUsedVarible may return for a variable whose id is id.       *)
Used(id) == {id} \cup (IF OptimisedBuild THEN {NoId} ELSE {})
UsedVariable(name) == Used(getIdOfUsedVarible(theory, name))

(* A rule that names something undeclared is ignored with a warning.       *)
Ruled(id1, id2, ops) ==
    IF NoId \in {id1, id2} THEN Becomes(theory)
    ELSE IF GrammarRuleExits(theory, id1, ops) THEN Stop("exited")
    ELSE Becomes(handleGrammarRule(theory, id1, id2, ops))

grammar_rule ==
    \/ /\ Completes("variable_rule")
       /\ \E id1 \in UsedVariable(current.left), id2 \in UsedVariable(current.right) :
             Ruled(id1, id2, current.ops)
    \/ /\ Completes("constant_rule")
       /\ \E id1 \in UsedVariable(current.left) :
             Ruled(id1, getIdOfUsedConstant(theory, current.value), current.ops)

operations_bound ==
    /\ Completes("operations_bound")
    /\ Becomes([theory EXCEPT !.numClauseOperationBound = current.value])

quantifiers_bound ==
    /\ Completes("quantifiers_bound")
    /\ Becomes([theory EXCEPT !.numQuantifierBound = current.value])

-----------------------------------------------------------------------------
(* Clauses.                                                                *)

(* The last pending values are of these kinds.                             *)
Top(kinds) ==
    /\ Len(vals) >= Len(kinds)
    /\ \A i \in 1 .. Len(kinds) : vals[Len(vals) - Len(kinds) + i].kind = kinds[i]

(* The i-th of the last n.                                                 *)
Operand(i, n) == vals[Len(vals) - n + i].id

(* Replace the last n values by the result of a handler.                   *)
Reduce(n, kind, result) ==
    /\ theory' = result.th
    /\ vals' = Append(SubSeq(vals, 1, Len(vals) - n), [kind |-> kind, id |-> result.id])
    /\ UNCHANGED status

(* An undeclared variable has no node: getNode asserts that there is one.  *)
Undeclared(id) == id = NoId /\ Stop("aborted")

(* A literal is declared when it is met.                                   *)
atom_literal ==
    /\ Completes("atom_literal")
    /\ LET declared == handleConstantDeclaration(theory, current.value)
       IN  Reduce(0, "term", [th |-> declared, id |-> getIdOfUsedConstant(declared, current.value)])

(* A variable that is no int only causes a warning.                        *)
atom_variable ==
    /\ Completes("atom_variable")
    /\ \E id \in UsedVariable(current.name) :
          \/ Undeclared(id)
          \/ id # NoId /\ Reduce(0, "term", [th |-> theory, id |-> id])

(* And so does access to one that is no array.                             *)
atom_access ==
    /\ Completes("atom_access") /\ Top(<<"term">>)
    /\ \E id \in UsedVariable(current.name) :
          \/ Undeclared(id)
          \/ id # NoId /\ Reduce(1, "term", handleArrayAccess(theory, id, Operand(1, 1)))

unaryop ==
    /\ Completes("unaryop") /\ Top(<<"term">>)
    /\ Reduce(1, "term", handleUnaryMinus(theory, Operand(1, 1)))

additionop_productop ==
    /\ Completes("arithmetic") /\ Top(<<"term", "term">>)
    /\ Reduce(2, "term", handleTermArithTerm(theory, current.op, Operand(1, 2), Operand(2, 2)))

be_literal ==
    \/ Completes("be_true") /\ Reduce(0, "be", handleTrue(theory))
    \/ Completes("be_false") /\ Reduce(0, "be", handleFalse(theory))

(* A variable as a formula is asserted to be Boolean.                      *)
be_variable ==
    /\ Completes("be_variable")
    /\ \E id \in UsedVariable(current.name) :
          \/ Undeclared(id)
          \/ id # NoId /\ IF getNode(theory, id).type = "bool"
                          THEN Reduce(0, "be", [th |-> theory, id |-> id])
                          ELSE Stop("aborted")

be_relational ==
    /\ Completes("relational") /\ Top(<<"term", "term">>)
    /\ Reduce(2, "be", handleTermRelationalTerm(theory, current.op, Operand(1, 2), Operand(2, 2)))

be_boolean ==
    /\ Completes("boolean") /\ Top(<<"be", "be">>)
    /\ Reduce(2, "be", handleBEBoolBE(theory, current.op, Operand(1, 2), Operand(2, 2)))

be_not ==
    /\ Completes("be_not") /\ Top(<<"be">>)
    /\ Reduce(1, "be", handleNot(theory, Operand(1, 1)))

(* The body has been read when the quantifier takes effect.                *)
be_quantified ==
    /\ Top(<<"be">>)
    /\ Completes("forall") \/ Completes("exists")
    /\ \E id \in UsedVariable(current.name) :
          \/ Undeclared(id)
          \/ id # NoId /\ Reduce(1, "be", IF current.rule = "forall"
                                          THEN handleForall(theory, id, Operand(1, 1))
                                          ELSE handleExists(theory, id, Operand(1, 1)))

clause ==
    /\ Completes("clause") /\ Top(<<"be">>) /\ Len(vals) = 1
    /\ theory' = [theory EXCEPT !.vocabIds = Append(@, Operand(1, 1))]
    /\ vals' = <<>>
    /\ UNCHANGED status

(* The end of the file.  success is never set to 0.                        *)
translation_unit ==
    /\ status = "reading" /\ text = <<>>
    /\ status' = "read"
    /\ UNCHANGED <<theory, text, vals>>

-----------------------------------------------------------------------------
(* Syntax errors.                                                          *)

Missing == <<"<missing IDENTIFIER>">>

(* A missing name is made up, a missing number is 0, a rule is dropped.    *)
wrong_item ==
    \/ /\ Completes("wrong_declaration")
       /\ Becomes(handleDeclaration(theory, Missing, current.type, current.mode).th)
    \/ /\ Completes("wrong_constant")
       /\ Becomes(handleConstantDeclaration(theory, 0))
    \/ Completes("wrong_rule") /\ Becomes(theory)

(* A term or formula that cannot be recognised has the id 0.               *)
wrong_expression ==
    /\ Completes("wrong_expression")
    /\ vals' = Append(vals, [kind |-> current.kind, id |-> 0])
    /\ UNCHANGED <<theory, status>>

(* An error in clause itself: what was recognised of it is forgotten.      *)
wrong_clause ==
    /\ Completes("wrong_clause")
    /\ vals' = <<>>
    /\ UNCHANGED <<theory, status>>

wrong_unit == Completes("wrong_unit") /\ Stop("null")

-----------------------------------------------------------------------------
ReaderNext ==
    \/ declaration \/ constant \/ grammar_rule \/ operations_bound \/ quantifiers_bound
    \/ atom_literal \/ atom_variable \/ atom_access \/ unaryop \/ additionop_productop
    \/ be_literal \/ be_variable \/ be_relational \/ be_boolean \/ be_not \/ be_quantified
    \/ clause \/ translation_unit
    \/ wrong_item \/ wrong_expression \/ wrong_clause \/ wrong_unit

ReaderSpec == ReaderInit /\ [][ReaderNext]_readerVars
=============================================================================
