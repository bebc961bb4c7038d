------------------------------- MODULE MCTools -------------------------------
(* What is done before and after an enumeration, each in runs of its own:  *)
(* the two programs of src/src, which extract a type theory and            *)
(* instrument a source, and the simplification of what was accepted.       *)
EXTENDS TypeTheory, Instrument, MCSimplification

Ref(n, t) == [class |-> "DeclRefExpr", name |-> <<n>>, type |-> t]
Num(n) == [class |-> "Literal", name |-> <<"IntegerLiteral", n>>, type |-> "int"]
Cast(e) == [class |-> "ImplicitCastExpr", sub |-> e]
At(array, e) == [class |-> "ArraySubscriptExpr", base |-> Cast(array), index |-> e]
Bin(op, l, r) == [class |-> "BinaryOperator", op |-> op, lhs |-> l, rhs |-> r]
Un(op, pre, e) == [class |-> "UnaryOperator", op |-> op, prefix |-> pre, sub |-> e]
Other == [class |-> "other"]

x == Ref("x", "int")
k == Cast(Ref("k", "int"))
arr == Ref("arr", "int *")

(* The binary operators of an expression, outer ones first.                *)
RECURSIVE Preorder(_)
Preorder(e) ==
    CASE e.class \in {"ImplicitCastExpr", "UnaryOperator"} -> Preorder(e.sub)
      [] e.class = "ArraySubscriptExpr" -> Preorder(e.base) \o Preorder(e.index)
      [] e.class = "BinaryOperator" ->
            <<[visit |-> "BinaryOperator", expr |-> e]>> \o Preorder(e.lhs) \o Preorder(e.rhs)
      [] OTHER -> <<>>

Decl(n, t) == <<[visit |-> "VarDecl", name |-> <<n>>, type |-> t]>>
Return(value) ==
    <<[visit |-> "ReturnStmt", value |-> value]>> \o (IF value = <<>> THEN <<>> ELSE Preorder(value[1]))

Simple == {x, k, Num("0"), At(arr, k), At(arr, Un("++", FALSE, x)), Un("-", TRUE, x)}
Compound == Simple \cup {Bin("<", l, r) : l, r \in {k, At(arr, x), At(arr, At(arr, k))}}
Operators == {Bin(op, l, r) : op \in {"<=", "+"}, l, r \in Compound} \cup {Bin("=", x, Other)}

Params == <<[name |-> <<"arr">>, type |-> "int *"], [name |-> <<"x">>, type |-> "int"]>>

Bodies ==
    {Decl("arr", "int *") \o Decl("x", "int") \o Decl("k", "int") \o Preorder(e) \o Return(r) :
        e \in Operators, r \in {<<>>, <<k>>, <<At(arr, Num("0"))>>, <<Other>>}}

Function(n, body) == [name |-> n, params |-> Params, body |-> body]

MCUnits ==
    {<<Function("main", <<>>), Function("f", b)>> : b \in Bodies}
    \cup {<<Function("f", Return(<<x>>)), Function("f", <<>>)>>, <<Function("main", <<>>)>>}

(* The expressions of the bodies, and how deep they are nested.            *)
RECURSIVE WithChildren(_)
WithChildren(S) ==
    LET T == S \cup UNION {Children(e) : e \in S}
    IN  IF T = S THEN S ELSE WithChildren(T)

MCExpressions == WithChildren(Operators \cup {x, k, At(arr, Num("0")), Other})

Height[e \in MCExpressions] ==
    LET Heights == {Height[p] : p \in Children(e)}
    IN  IF Heights = {} THEN 0 ELSE 1 + (CHOOSE h \in Heights : \A g \in Heights : g <= h)

-----------------------------------------------------------------------------
Line(length, stops, blanks) == [length |-> length, stops |-> stops, blanks |-> blanks]
Spot(l, c) == [line |-> l, col |-> c]

(* int f(int x,int y){   int i;int j;return i;   return;  in fewer columns *)
(* but for the returns, and places that are not in order or not there.     *)
Lines == <<Line(12, {8, 11}, {3, 6, 9}), Line(15, {3, 7, 14}, {1, 5, 13}), Line(8, {7}, {0})>>

VarPlaces == {Spot(1, 7), Spot(1, 10), Spot(2, 1), Spot(2, 5), Spot(-1, 0), Spot(3, 2), Spot(3, 9)}
ReturnPlaces == {Spot(2, 9), Spot(2, 5), Spot(3, 2), Spot(3, 0)}

SeqsUpTo(S, n) == UNION {[1 .. m -> S] : m \in 0 .. n}

MCSources ==
    [lines : {Lines}, vars : SeqsUpTo(VarPlaces, 3), returns : SeqsUpTo(ReturnPlaces, 2),
     function : {[line |-> 1, col |-> 1, type |-> "int"], [line |-> 2, col |-> 10, type |-> "int"],
                 [line |-> 1, col |-> 1, type |-> "void"]}]

-----------------------------------------------------------------------------
(* One of them runs while the variables of the others stand still.         *)
IdleSource == [lines |-> <<>>, vars |-> <<>>, returns |-> <<>>,
               function |-> [line |-> 0, col |-> 0, type |-> "void"]]

ExtractionIdle ==
    /\ unit = <<>> /\ functionDecl = <<>> /\ visits = <<>>
    /\ VariablesByName = {}
    /\ BOperations = <<>> /\ UOperations = <<>> /\ ReturnedVariables = <<>>
    /\ status = "not run"

InstrumentIdle ==
    /\ source = IdleSource
    /\ currentLine = 1 /\ currentVar = 1 /\ currentReturn = 1 /\ prevDeclEnd = -1
    /\ instrumented_line = <<>> /\ output = <<>>
    /\ progress = "not run"

SimplificationIdle ==
    /\ at = "not run" /\ invalidInputRIX = FALSE /\ lost = FALSE
    /\ yesChoices = <<>> /\ disk = <<>> /\ formula = <<>> /\ kissChoices = <<>>

MCInit ==
    \/ TTInit /\ InstrumentIdle /\ SimplificationIdle
    \/ InstrumentInit /\ ExtractionIdle /\ SimplificationIdle
    \/ Init /\ ExtractionIdle /\ InstrumentIdle

MCNext ==
    \/ TTNext /\ UNCHANGED <<instrumentVars, vars>>
    \/ InstrumentNext /\ UNCHANGED <<ttVars, vars>>
    \/ Next /\ UNCHANGED <<ttVars, instrumentVars>>

MCSpec == MCInit /\ [][MCNext]_<<ttVars, instrumentVars, vars>>
=============================================================================
