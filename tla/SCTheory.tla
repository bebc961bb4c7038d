------------------------------ MODULE SCTheory ------------------------------
(***************************************************************************)
(* The type theory of scma/scTheory.cpp: a table of nodes (declared        *)
(* variables, literals, terms and formulae), the maps that name them, the  *)
(* grammar rules, and the collections of index terms.  A handler of the    *)
(* code is an operator from a theory to the theory after it; one that also *)
(* returns an id gives [th, id].  Who calls them, and in which order, is    *)
(* said in TheoryReader and TheoryMain.                                     *)
(***************************************************************************)
EXTENDS Integers, Sequences

ArithOps == {"+", "-", "*", "/", "%"}
RelationalOps == {"<", ">", "=", "<=", ">="}
BooleanOps == {"and", "or", "implies", "equiv", "xor", "xnor"}
DeclaredTypes == {"int", "bool", "array", "barray", "matrix", "bmatrix"}
ArrayTypes == {"array", "barray"}
Modes == {"none", "const", "global", "local"}

(* -1 as the code's answer "not declared"; it is also what an id converts  *)
(* from when it is used as one.                                            *)
NoId == -1

-----------------------------------------------------------------------------
(* Nodes.  A variable has a name, every other node an operator; the flags  *)
(* are the bits of mode.                                                   *)
VocabNode(op, type) ==
    [op |-> op, name |-> <<>>, type |-> type, isVar |-> FALSE, const |-> FALSE,
     global |-> FALSE, local |-> FALSE, element |-> FALSE, value |-> 0,
     arrSizeMinusOneId |-> 0, boundIds |-> <<>>, operandIds |-> <<>>,
     leftVars |-> <<>>, rightVars |-> <<>>]

VarNode(name, type, mode) ==
    [VocabNode("", type) EXCEPT !.name = name, !.isVar = TRUE,
        !.const = mode = "const", !.global = mode = "global", !.local = mode = "local"]

EmptyTheory ==
    [nodes |-> <<>>, var2idMap |-> [n \in {} |-> NoId],
     varIds |-> <<>>, constantIds |-> <<>>, rulemap |-> {},
     vocabIds |-> <<>>, generatedVocabIds |-> <<>>, quantFreeVocIds |-> <<>>,
     uvars |-> {}, uterms |-> {}, readIndexTerms |-> {}, boundTerms |-> {},
     trueId |-> NoId, falseId |-> NoId,
     numClauseOperationBound |-> 3, numQuantifierBound |-> 1]

Ids(th) == 0 .. Len(th.nodes) - 1
getNode(th, id) == th.nodes[id + 1]
(* The size after the node was pushed.                                     *)
NextIdLate(th) == Len(th.nodes) + 1

NextId(th) == Len(th.nodes)

makeNode(th, node) == [th EXCEPT !.nodes = Append(@, node)]

isArray(th, id) == getNode(th, id).type \in ArrayTypes

(* A node is global when one of the terms it is made of is.                *)
propagateIsGlobal(th, node, ids) ==
    [node EXCEPT !.global = \E id \in ids : getNode(th, id).global]

setElement(th, id) == [th EXCEPT !.nodes[id + 1].element = TRUE]

-----------------------------------------------------------------------------
(* Declarations.                                                           *)

(* The name of the variable declared along with an array.                  *)
SizeName(name) == Append(name, "size_minus_1")

DeclareVar(th, name, type, mode) ==
    LET id == NextId(th)
        var == [VarNode(name, type, mode) EXCEPT !.leftVars = <<id>>, !.rightVars = <<id>>]
    IN  [makeNode(th, var) EXCEPT
            !.var2idMap = [n \in DOMAIN @ \cup {name} |-> IF n = name THEN id ELSE @[n]],
            !.varIds = Append(@, id)]

(* An array also declares its last index, unless the name is taken.        *)
DeclareSize(th, id, name) ==
    LET szname == SizeName(name)
        taken == szname \in DOMAIN th.var2idMap
        sized == IF taken THEN th ELSE DeclareVar(th, szname, "int", "none")
    IN  [sized EXCEPT !.nodes[id + 1].arrSizeMinusOneId = sized.var2idMap[szname]]

(* A second declaration of a name is obeyed.                               *)
Redeclare(th, name, type, mode) ==
    [th |-> IF type \in ArrayTypes
            THEN DeclareSize(DeclareVar(th, name, type, mode), NextId(th), name)
            ELSE DeclareVar(th, name, type, mode),
     id |-> NextId(th)]

handleDeclaration(th, name, type, mode) ==
    LET id == NextId(th)
        declared == DeclareVar(th, name, type, mode)
    IN  IF name \in DOMAIN th.var2idMap
        THEN [th |-> th, id |-> th.var2idMap[name]]
        ELSE [th |-> IF type \in ArrayTypes THEN DeclareSize(declared, id, name) ELSE declared,
              id |-> id]

LiteralsOf(th, value) ==
    {i \in DOMAIN th.constantIds :
        LET vn == getNode(th, th.constantIds[i]) IN vn.type = "literal" /\ vn.value = value}

handleConstantDeclaration(th, value) ==
    LET id == NextId(th)
        lit == [VocabNode("lit", "literal") EXCEPT !.const = TRUE, !.value = value,
                    !.leftVars = <<id>>, !.rightVars = <<id>>]
    IN  IF LiteralsOf(th, value) # {}
        THEN th
        ELSE [makeNode(th, lit) EXCEPT !.constantIds = Append(@, id)]

(* The first literal of the value, in the order of constantIds.            *)
getIdOfUsedConstant(th, value) ==
    LET found == LiteralsOf(th, value)
    IN  IF found = {}
        THEN NoId
        ELSE th.constantIds[CHOOSE i \in found : \A j \in found : i <= j]

getIdOfUsedVarible(th, name) ==
    IF name \in DOMAIN th.var2idMap THEN th.var2idMap[name] ELSE NoId

-----------------------------------------------------------------------------
(* Terms and formulae.  The ids passed are those of nodes.                 *)

handleTrue(th) ==
    IF th.trueId # NoId
    THEN [th |-> th, id |-> th.trueId]
    ELSE [th |-> [makeNode(th, [VocabNode("true", "bliteral") EXCEPT !.const = TRUE, !.value = 1])
                    EXCEPT !.trueId = NextId(th)],
          id |-> NextId(th)]

handleFalse(th) ==
    IF th.falseId # NoId
    THEN [th |-> th, id |-> th.falseId]
    ELSE [th |-> [makeNode(th, [VocabNode("false", "bliteral") EXCEPT !.const = TRUE, !.value = 1])
                    EXCEPT !.falseId = NextId(th)],
          id |-> NextId(th)]

(* For the operators that commute the lower id comes first.                *)
Ordered(commutes, t1, t2) == IF commutes /\ t2 < t1 THEN <<t2, t1>> ELSE <<t1, t2>>

(* The flag of the first operand is copied to the second.                  *)
CopyElement(th, t1, t2) == [th EXCEPT !.nodes[t2 + 1].element = getNode(th, t1).element]

(* A term compared with an array element is an element too.                *)
ShareElement(th, t1, t2) ==
    IF getNode(th, t1).element THEN setElement(th, t2)
    ELSE IF getNode(th, t2).element THEN setElement(th, t1)
    ELSE th

(* t = t and t <= t are true; the node made first is then left behind, of  *)
(* relational type and without operands.                                   *)
handleTermRelationalTerm(th, op, t1, t2) ==
    LET node == VocabNode(op, "binary-relational")
        related == propagateIsGlobal(th,
            [node EXCEPT !.operandIds = Ordered(op = "=", t1, t2)], {t1, t2})
    IN  IF op \in {"=", "<="} /\ t1 = t2
        THEN handleTrue(makeNode(th, node))
        ELSE [th |-> ShareElement(makeNode(th, related), t1, t2), id |-> NextId(th)]

handleTermArithTerm(th, op, t1, t2) ==
    LET node == [VocabNode(op, "binary-arithmetic") EXCEPT
                    !.operandIds = Ordered(op \in {"+", "*"}, t1, t2),
                    !.leftVars = getNode(th, t1).leftVars,
                    !.rightVars = getNode(th, t2).rightVars]
    IN  [th |-> makeNode(th, propagateIsGlobal(th, node, {t1, t2})), id |-> NextId(th)]

handleBEBoolBE(th, op, e1, e2) ==
    LET node == [VocabNode(op, "binary-boolean") EXCEPT !.operandIds = <<e1, e2>>]
    IN  [th |-> makeNode(th, propagateIsGlobal(th, node, {e1, e2})), id |-> NextId(th)]

handleNot(th, be) ==
    LET node == [VocabNode("not", "unary-boolean") EXCEPT !.operandIds = <<be>>]
    IN  [th |-> makeNode(th, propagateIsGlobal(th, node, {be})), id |-> NextId(th)]

handleUnaryMinus(th, t) ==
    LET node == [VocabNode("-", "unary-arithmetic") EXCEPT !.operandIds = <<t>>]
    IN  [th |-> makeNode(th, propagateIsGlobal(th, node, {t})), id |-> NextId(th)]

(* A quantified variable that was not declared as one becomes global or    *)
(* local now; the terms made of it before are left as they are.            *)
handleForall(th, varid, be) ==
    LET node == [VocabNode("forall", "quantifier") EXCEPT !.operandIds = <<varid, be>>]
    IN  [th |-> [makeNode(th, node) EXCEPT !.nodes[varid + 1].global = TRUE], id |-> NextId(th)]

handleExists(th, varid, be) ==
    LET node == [VocabNode("exists", "quantifier") EXCEPT !.operandIds = <<varid, be>>]
    IN  [th |-> [makeNode(th, node) EXCEPT !.nodes[varid + 1].local = TRUE], id |-> NextId(th)]

(* The universal variables of a term, in the order and as often as they    *)
(* are met.  A part that is not global is not entered.                     *)
getUVars(th, id) ==
    LET below[i \in Ids(th)] ==
            LET node == getNode(th, i)
            IN  IF ~node.global THEN <<>>
                ELSE IF node.isVar THEN <<i>>
                ELSE (IF Len(node.operandIds) >= 1 THEN below[node.operandIds[1]] ELSE <<>>)
                  \o (IF Len(node.operandIds) >= 2 THEN below[node.operandIds[2]] ELSE <<>>)
    IN  below[id]

(* The array is asked instead of the index.                                *)
AccessOfArray(th, arrayid, index) ==
    LET node == [VocabNode("[]", "access") EXCEPT !.element = TRUE,
                    !.operandIds = <<arrayid, index>>,
                    !.leftVars = <<arrayid>>, !.rightVars = <<arrayid>>]
        made == makeNode(th, propagateIsGlobal(th, node, {arrayid}))
    IN  [th |-> IF getNode(th, index).global
                THEN [made EXCEPT !.uterms = @ \cup {index}]
                ELSE [made EXCEPT !.readIndexTerms = @ \cup {index}],
         id |-> NextId(th)]

(* Whether the access is universal is up to its index, not to its array.   *)
handleArrayAccess(th, arrayid, index) ==
    LET node == [VocabNode("[]", "access") EXCEPT !.element = TRUE,
                    !.operandIds = <<arrayid, index>>,
                    !.leftVars = <<arrayid>>, !.rightVars = <<arrayid>>]
        made == makeNode(th, propagateIsGlobal(th, node, {index}))
        uvars == getUVars(th, index)
    IN  [th |-> IF getNode(th, index).global
                THEN [made EXCEPT !.uterms = @ \cup {index},
                                  !.uvars = @ \cup {uvars[i] : i \in DOMAIN uvars}]
                ELSE [made EXCEPT !.readIndexTerms = @ \cup {index}],
         id |-> NextId(th)]

-----------------------------------------------------------------------------
(* Grammar rules: rulemap as the set of its entries <<left, right, op>>.   *)

(* The key 0 is undeclared under may be NoId: the rule is entered anyway.  *)
BoundRules(th, array, id) ==
    LET zero == getIdOfUsedConstant(th, 0)
        node == getNode(th, array)
        last == node.arrSizeMinusOneId
        bounds == {node.boundIds[i] : i \in DOMAIN node.boundIds}
    IN  {<<zero, id, "<=">>, <<id, zero, "=">>, <<id, last, "<=">>, <<id, last, "=">>}
            \cup {<<id, b, op>> : b \in bounds, op \in {"<=", "="}}

AddBound(th, array, id) ==
    [th EXCEPT !.rulemap = @ \cup BoundRules(th, array, id),
               !.nodes[array + 1].boundIds = Append(@, id)]

(* The operations a rule stands for.                                       *)
Expanded(op) ==
    CASE op = "index" -> {"[]"}
      [] op = "bound" -> {}
      [] op = "arithmetic" -> {"+", "-"}
      [] op = "relational" -> RelationalOps
      [] OTHER -> {op}

(* A bound or an index needs an array; otherwise the program exits.        *)
GrammarRuleExits(th, id1, ops) == ops \cap {"bound", "index"} # {} /\ ~isArray(th, id1)

handleGrammarRule(th, id1, id2, ops) ==
    LET plain == {<<id1, id2, op>> : op \in UNION {Expanded(o) : o \in ops}}
        ruled == [th EXCEPT !.rulemap = @ \cup plain]
        once  == AddBound(ruled, id1, id2)
    IN  CASE ops \cap {"bound", "index"} = {} -> ruled
          [] {"bound", "index"} \subseteq ops -> AddBound(once, id1, id2)
          [] OTHER -> once

-----------------------------------------------------------------------------
(* What the theory of a program is to be like.                             *)

VARIABLE theory     \* the global of that name of the parser, later SpecCheckVocab::th

(* What names are made of: the words of the file, and those the program    *)
(* makes up.                                                               *)
Word == STRING \cup {"size_minus_1", "<missing IDENTIFIER>", "i", "q", "#"}

NodeOps ==
    ArithOps \cup RelationalOps \cup BooleanOps
        \cup {"", "lit", "true", "false", "[]", "not", "forall", "exists"}

NodeTypes ==
    DeclaredTypes \cup
        {"literal", "bliteral", "access", "unary-arithmetic", "binary-arithmetic", "binary-relational",
         "unary-boolean", "binary-boolean", "quantifier"}

Node ==
    [op : NodeOps, name : Seq(Word), type : NodeTypes, isVar : BOOLEAN, const : BOOLEAN,
     global : BOOLEAN, local : BOOLEAN, element : BOOLEAN, value : Int,
     arrSizeMinusOneId : Nat, boundIds : Seq(Nat), operandIds : Seq(Nat),
     leftVars : Seq(Nat), rightVars : Seq(Nat)]

(* The table alone; the other fields are in range by TableSound.           *)
TypeOK ==
    /\ theory.nodes \in Seq(Node)
    /\ theory.varIds \in Seq(Ids(theory)) /\ theory.constantIds \in Seq(Ids(theory))
    /\ theory.vocabIds \in Seq(Ids(theory)) /\ theory.generatedVocabIds \in Seq(Ids(theory))
    /\ theory.quantFreeVocIds \in Seq(Ids(theory))
    /\ theory.uvars \cup theory.uterms \cup theory.readIndexTerms \cup theory.boundTerms \subseteq Ids(theory)
    /\ \A rule \in theory.rulemap :
          rule[1] \in Ids(theory) \cup {NoId} /\ rule[2] \in Ids(theory) \cup {NoId}
    /\ {theory.trueId, theory.falseId} \subseteq Ids(theory) \cup {NoId}

(* A node is made of nodes made before it, so that printing it ends.       *)
Acyclic ==
    \A id \in Ids(theory) :
        \A i \in DOMAIN getNode(theory, id).operandIds :
            getNode(theory, id).operandIds[i] \in 0 .. id - 1

(* The map from names and the list of variables name exactly the nodes     *)
(* that are variables, each by its own name.                               *)
VariablesNamed ==
    /\ \A n \in DOMAIN theory.var2idMap :
          /\ theory.var2idMap[n] \in Ids(theory)
          /\ getNode(theory, theory.var2idMap[n]).isVar
          /\ getNode(theory, theory.var2idMap[n]).name = n
    /\ \A id \in Ids(theory) : getNode(theory, id).isVar =>
          /\ getNode(theory, id).name \in DOMAIN theory.var2idMap
          /\ theory.var2idMap[getNode(theory, id).name] = id
          /\ \E i \in DOMAIN theory.varIds : theory.varIds[i] = id
    /\ \A i \in DOMAIN theory.varIds : getNode(theory, theory.varIds[i]).isVar

(* A value has one literal.                                                *)
LiteralsDistinct ==
    /\ \A i \in DOMAIN theory.constantIds : getNode(theory, theory.constantIds[i]).type = "literal"
    /\ \A i, j \in DOMAIN theory.constantIds :
          getNode(theory, theory.constantIds[i]).value = getNode(theory, theory.constantIds[j]).value => i = j

(* `now all terms going into index are either in uterms or in              *)
(* readIndexterms' (scGenVocab.cpp:476): the first when the access was     *)
(* universal, the second when it was not.                                  *)
AccessIndexed ==
    \A id \in Ids(theory) :
        LET node == getNode(theory, id)
        IN  node.type = "access" =>
              node.operandIds[2] \in (IF node.global THEN theory.uterms ELSE theory.readIndexTerms)

(* A node that counts as universal has a universal part, down to a         *)
(* variable: there is something to substitute in it.                       *)
GlobalJustified ==
    \A id \in Ids(theory) :
        LET node == getNode(theory, id)
        IN  node.global /\ ~node.isVar =>
              \E i \in DOMAIN node.operandIds : getNode(theory, node.operandIds[i]).global

(* Every id handed out names what it was handed out for: the hazard of a   *)
(* table, two maps and two lists that are kept in step by hand in eight    *)
(* handlers.  Printing recurses along operandIds and ends.                 *)
TableSound == Acyclic /\ VariablesNamed /\ LiteralsDistinct

(* What the generation of quantifier-free formulae relies on without       *)
(* looking: the index terms are collected, on the right side, and the      *)
(* flags it is steered by point at variables.                              *)
IndexSound == AccessIndexed /\ GlobalJustified

(* A node is never changed but for its flags, which are only set, and its  *)
(* bounds: an id held by a client, a rule or a formula keeps its meaning.   *)
SameNode(a, b) ==
    /\ [a EXCEPT !.global = b.global, !.local = b.local, !.element = b.element,
                 !.arrSizeMinusOneId = b.arrSizeMinusOneId, !.boundIds = b.boundIds] = b
    /\ a.global => b.global
    /\ a.element => b.element

TableGrows ==
    /\ Len(theory.nodes) <= Len(theory'.nodes)
    /\ \A i \in 1 .. Len(theory.nodes) : SameNode(theory.nodes[i], theory'.nodes[i])

IdsStay == [][TableGrows]_theory
=============================================================================
