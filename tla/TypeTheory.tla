----------------------------- MODULE TypeTheory -----------------------------
(***************************************************************************)
(* The extraction of a type theory from a C function with Clang:           *)
(* src/TypeTheoryGenerator.cpp visits the function, src/TypeTheory.cpp     *)
(* keeps what it meets.  A translation unit is the sequence of its         *)
(* functions [name, params, body]; a body is the sequence of the nodes of  *)
(* its tree that have a Visit method, in the order of the visits.  That    *)
(* order, and the trees, are Clang's (external).                           *)
(*                                                                         *)
(* Variables are known by name, operations by the names of their operands  *)
(* and their operator one behind the other.  Names are sequences of words. *)
(* Each name has at most one variable, so a map by name is a set.          *)
(***************************************************************************)
EXTENDS Integers, Sequences

CONSTANTS
    Units,          \* the translation units
    FunctionUT,     \* the name of the function under test
    Expressions,    \* the expressions of the units, with all their parts
    height          \* how deep an expression is nested

(* The words of names and types, those made up here among them.            *)
Word == STRING \cup {"[]", "unknown", "ArrayIndex", "ArrayBound"}

Name == Seq(Word)

(* A type of the source; none is called like two of those made up here.    *)
CType == Word \ {"ArrayIndex", "ArrayBound"}

Expression ==
    [class : {"ImplicitCastExpr"}, sub : Expressions]
    \cup [class : {"Literal", "DeclRefExpr"}, name : Name, type : CType]
    \cup [class : {"ArraySubscriptExpr"}, base : Expressions, index : Expressions]
    \cup [class : {"BinaryOperator"}, op : Word, lhs : Expressions, rhs : Expressions]
    \cup [class : {"UnaryOperator"}, op : Word, prefix : BOOLEAN, sub : Expressions]
    \cup [class : {"other"}]

(* The parts of an expression that have operands of their own.             *)
Children(e) ==
    CASE e.class \in {"ImplicitCastExpr", "UnaryOperator"} -> {e.sub}
      [] e.class = "ArraySubscriptExpr" -> {e.index, e.base}
      [] e.class = "BinaryOperator" -> {e.lhs, e.rhs}
      [] OTHER -> {}

ASSUME ExpressionsAssumption ==
    /\ Expressions \subseteq Expression
    /\ height \in [Expressions -> Nat]
    /\ \A e \in Expressions : \A p \in Children(e) : height[p] < height[e]

Declaration == [name : Name, type : CType]

NodeVisit ==
    [visit : {"VarDecl"}, name : Name, type : CType]
    \cup [visit : {"BinaryOperator"}, expr : {e \in Expressions : e.class = "BinaryOperator"}]
    \cup [visit : {"ReturnStmt"}, value : {<<>>} \cup {<<e>> : e \in Expressions}]

FunctionDecl == [name : Word, params : Seq(Declaration), body : Seq(NodeVisit)]

ASSUME UnitsAssumption == Units \subseteq Seq(FunctionDecl)

VARIABLES
    unit,               \* the functions not yet seen by the first visit
    functionDecl,       \* the function found, as a sequence: empty for NULL
    visits,             \* what is left to visit of its body
    VariablesByName,
    BOperations, UOperations,   \* the operations, by their names
    ReturnedVariables,          \* the names of what is returned
    status

extraction == <<VariablesByName, BOperations, UOperations, ReturnedVariables>>
ttVars == <<unit, functionDecl, visits, extraction, status>>

-----------------------------------------------------------------------------
(* TypeTheoryOutputInternal, as a record of its maps and vectors.          *)

VariableRecord == [name : Name, type : Word, isInput : BOOLEAN, isOutput : BOOLEAN]

Theory == [byName : SUBSET VariableRecord, bOps : Seq(Name), uOps : Seq(Name)]

Known(tt, name) == \E v \in tt.byName : v.name = name

AddVariable(tt, var) == IF Known(tt, var.name) THEN tt ELSE [tt EXCEPT !.byName = @ \cup {var}]

Retype(tt, name, type) ==
    [tt EXCEPT !.byName = {IF v.name = name THEN [v EXCEPT !.type = type] ELSE v : v \in @}]

(* Mutant: only a variable not yet known becomes an index.                 *)
IndexIfNew(tt, var) == AddVariable(tt, [var EXCEPT !.type = "ArrayIndex"])

UpdateToIndex(tt, var) ==
    IF Known(tt, var.name)
    THEN Retype(tt, var.name, "ArrayIndex")
    ELSE AddVariable(tt, [var EXCEPT !.type = "ArrayIndex"])

(* A variable that is known becomes an index, not a bound.                 *)
UpdateToBound(tt, var) ==
    IF Known(tt, var.name)
    THEN Retype(tt, var.name, "ArrayIndex")
    ELSE AddVariable(tt, [var EXCEPT !.type = "ArrayBound"])

UpdateToOutput(tt, var) ==
    IF Known(tt, var.name)
    THEN [tt EXCEPT !.byName = {IF v.name = var.name THEN [v EXCEPT !.isOutput = TRUE] ELSE v : v \in @}]
    ELSE AddVariable(tt, [var EXCEPT !.isOutput = TRUE])

(* isInput and isOutput have no initial value: u is what they happen to be. *)
Variable(name, type, u) == [name |-> name, type |-> type, isInput |-> u, isOutput |-> u]

BinaryOperation(left, right, op, u) == Variable(left.name \o right.name \o <<op>>, "unknown", u)

UnaryOperation(var, op, pre, u) ==
    Variable(IF pre THEN <<op>> \o var.name ELSE Append(var.name, op), "unknown", u)

AddBOp(tt, left, right, bOp) ==
    LET operands == AddVariable(AddVariable(tt, right), left)
    IN  AddVariable([operands EXCEPT !.bOps = Append(@, bOp.name)], bOp)

AddUOp(tt, operand, uOp) ==
    AddVariable([AddVariable(tt, operand) EXCEPT !.uOps = Append(@, uOp.name)], uOp)

-----------------------------------------------------------------------------
(* HandleOperand[e][u][tt]: what becomes of tt, and the var returned.  The *)
(* class of an expression is found out by comparing pointers to its name   *)
(* (they are equal where the linker has merged the strings); every other   *)
(* class is taken for a unary operator, whatever it is: "other" has no     *)
(* meaning, and its callers stop there.                                    *)
Comparison == {"<", ">", "<=", ">=", "==", "!="}

Within[e \in Expressions] == {e} \cup UNION {Within[p] : p \in Children(e)}

Meaningful == {e \in Expressions : \A p \in Within[e] : p.class # "other"}

(* After the operands of a comparison: an index makes a bound of the other *)
(* one, going by the types of lhs and rhs and not of what is known of them.*)
Bound(tt, op, lhs, rhs) ==
    LET Compared(t, known, var) ==
            IF op \in Comparison /\ known.type = "ArrayIndex" THEN UpdateToBound(t, var) ELSE t
    IN  Compared(Compared(tt, rhs, lhs), lhs, rhs)

HandleOperand[e \in Meaningful] == [u \in BOOLEAN |-> [tt \in Theory |->
    LET index == HandleOperand[e.index][u][tt]
        base  == HandleOperand[e.base][u][UpdateToIndex(index.tt, index.var)]
        rhs   == HandleOperand[e.rhs][u][tt]
        lhs   == HandleOperand[e.lhs][u][rhs.tt]
        sub   == HandleOperand[e.sub][u][tt]
        leaf   == Variable(e.name, e.type, u)
        access == BinaryOperation(index.var, base.var, "[]", u)
        bOp    == BinaryOperation(lhs.var, rhs.var, e.op, u)
        uOp    == UnaryOperation(sub.var, e.op, e.prefix, u)
    IN  CASE e.class = "ImplicitCastExpr" -> sub
          [] e.class \in {"Literal", "DeclRefExpr"} -> [tt |-> AddVariable(tt, leaf), var |-> leaf]
          [] e.class = "ArraySubscriptExpr" ->
                [tt |-> AddBOp(base.tt, index.var, base.var, access), var |-> access]
          [] e.class = "BinaryOperator" ->
                [tt |-> AddBOp(Bound(lhs.tt, e.op, lhs.var, rhs.var), lhs.var, rhs.var, bOp), var |-> bOp]
          [] e.class = "UnaryOperator" -> [tt |-> AddUOp(sub.tt, sub.var, uOp), var |-> uOp]]]

-----------------------------------------------------------------------------
TTInit ==
    /\ unit \in Units
    /\ functionDecl = <<>> /\ visits = <<>>
    /\ VariablesByName = {}
    /\ BOperations = <<>> /\ UOperations = <<>> /\ ReturnedVariables = <<>>
    /\ status = "first visit"

TT == [byName |-> VariablesByName, bOps |-> BOperations, uOps |-> UOperations]

Becomes(tt) ==
    /\ VariablesByName' = tt.byName
    /\ BOperations' = tt.bOps
    /\ UOperations' = tt.uOps

Stop(outcome) == status' = outcome /\ UNCHANGED extraction

(* The first visit: the last declaration of the name is the one.           *)
find_function ==
    /\ status = "first visit" /\ unit # <<>>
    /\ functionDecl' = IF Head(unit).name = FunctionUT THEN <<Head(unit)>> ELSE functionDecl
    /\ unit' = Tail(unit)
    /\ UNCHANGED <<visits, extraction, status>>

no_such_function ==
    /\ status = "first visit" /\ unit = <<>> /\ functionDecl = <<>>
    /\ Stop("no such function")
    /\ UNCHANGED <<unit, functionDecl, visits>>

Input(declaration) == [Variable(declaration.name, declaration.type, FALSE) EXCEPT !.isInput = TRUE]

WithInputs(tt, params) ==
    LET added[k \in 0 .. Len(params)] ==
            IF k = 0 THEN tt ELSE AddVariable(added[k - 1], Input(params[k]))
    IN  added[Len(params)]

(* The second visit begins with the function: its parameters are inputs.   *)
VisitFunctionDecl ==
    /\ status = "first visit" /\ unit = <<>> /\ functionDecl # <<>>
    /\ Becomes(WithInputs(TT, functionDecl[1].params))
    /\ visits' = functionDecl[1].body
    /\ status' = "visiting"
    /\ UNCHANGED <<unit, functionDecl, ReturnedVariables>>

Visit(method) ==
    /\ status = "visiting" /\ visits # <<>>
    /\ Head(visits).visit = method
    /\ visits' = Tail(visits)
    /\ UNCHANGED <<unit, functionDecl>>

VisitVarDecl ==
    /\ Visit("VarDecl")
    /\ \E u \in BOOLEAN : Becomes(AddVariable(TT, Variable(Head(visits).name, Head(visits).type, u)))
    /\ UNCHANGED <<ReturnedVariables, status>>

(* The two operands are arguments of one call, evaluated in either order.  *)
VisitBinaryOperator ==
    /\ Visit("BinaryOperator")
    /\ LET e == Head(visits).expr
       IN  IF e \notin Meaningful
           THEN Stop("undefined")
           ELSE /\ \E u \in BOOLEAN :
                     LET first == HandleOperand[e.lhs][u][TT]
                         second == HandleOperand[e.rhs][u][first.tt]
                         Second == HandleOperand[e.rhs][u][TT]
                         First == HandleOperand[e.lhs][u][Second.tt]
                         bOp == BinaryOperation(first.var, second.var, e.op, u)
                     IN  \/ Becomes(AddBOp(second.tt, first.var, second.var, bOp))
                         \/ Becomes(AddBOp(First.tt, First.var, Second.var, bOp))
                /\ UNCHANGED <<ReturnedVariables, status>>

(* A return without a value has no expression.                             *)
VisitReturnStmt ==
    /\ Visit("ReturnStmt")
    /\ LET value == Head(visits).value
       IN  IF value = <<>> THEN Stop("crashed")
           ELSE IF value[1] \notin Meaningful THEN Stop("undefined")
           ELSE \E u \in BOOLEAN :
                  LET ret == HandleOperand[value[1]][u][TT]
                  IN  /\ Becomes(UpdateToOutput(ret.tt, ret.var))
                      /\ ReturnedVariables' = Append(ReturnedVariables, ret.var.name)
                      /\ UNCHANGED status

DumpToOutput ==
    /\ status = "visiting" /\ visits = <<>>
    /\ Stop("done")
    /\ UNCHANGED <<unit, functionDecl, visits>>

TTNext ==
    \/ find_function \/ no_such_function \/ VisitFunctionDecl
    \/ VisitVarDecl \/ VisitBinaryOperator \/ VisitReturnStmt \/ DumpToOutput

TTSpec == TTInit /\ [][TTNext]_ttVars

-----------------------------------------------------------------------------
(* The name HandleOperand gives to an expression, from its text alone.     *)
NameOf[e \in Meaningful] ==
    CASE e.class = "ImplicitCastExpr" -> NameOf[e.sub]
      [] e.class \in {"Literal", "DeclRefExpr"} -> e.name
      [] e.class = "ArraySubscriptExpr" -> NameOf[e.index] \o NameOf[e.base] \o <<"[]">>
      [] e.class = "BinaryOperator" -> NameOf[e.lhs] \o NameOf[e.rhs] \o <<e.op>>
      [] e.class = "UnaryOperator" ->
            IF e.prefix THEN <<e.op>> \o NameOf[e.sub] ELSE Append(NameOf[e.sub], e.op)

(* The expressions in what has been visited of the function.               *)
Visited ==
    LET body == functionDecl[1].body
        seen == SubSeq(body, 1, Len(body) - Len(visits))
    IN  UNION {IF seen[k].visit = "BinaryOperator" THEN Within[seen[k].expr]
               ELSE IF seen[k].visit = "ReturnStmt" THEN Within[seen[k].value[1]]
               ELSE {} : k \in DOMAIN seen}

NamesOf(V) == {NameOf[e] : e \in V}
OfClass(V, classes) == {e \in V : e.class \in classes}
Indices(V) == {NameOf[e.index] : e \in OfClass(V, {"ArraySubscriptExpr"})}

SeqRange(s) == {s[k] : k \in DOMAIN s}

(* A variable or operation is an index exactly when some subscript is      *)
(* named like it, in whichever order operands are evaluated; none is ever  *)
(* a bound, for the type compared with is that of a Variable made anew;    *)
(* every operation met is recorded along with its operands, and what is    *)
(* returned is an output.                                                  *)
ExtractionExact ==
    status = "visiting" \/ status = "done" =>
        /\ {v.name : v \in {w \in VariablesByName : w.type = "ArrayIndex"}} = Indices(Visited)
        /\ \A v \in VariablesByName : v.type # "ArrayBound"
        /\ \A n \in NamesOf(Visited) : Known(TT, n)
        /\ NamesOf(OfClass(Visited, {"BinaryOperator", "ArraySubscriptExpr"})) = SeqRange(BOperations)
        /\ NamesOf(OfClass(Visited, {"UnaryOperator"})) = SeqRange(UOperations)
        /\ \A v \in VariablesByName : v.name \in SeqRange(ReturnedVariables) => v.isOutput
=============================================================================
