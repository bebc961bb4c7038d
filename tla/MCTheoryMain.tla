---------------------------- MODULE MCTheoryMain ----------------------------
(* Theory files put together from parts.                                   *)
EXTENDS TheoryMain

a == <<"a">>
i == <<"i">>
j == <<"j">>
p == <<"p">>

Declare(name, type, mode) == <<[rule |-> "declaration", name |-> name, type |-> type, mode |-> mode]>>
Constant(v) == <<[rule |-> "constant", value |-> v]>>
Rule(left, right, ops) ==
    <<[rule |-> "variable_rule", left |-> left, right |-> right, ops |-> ops]>>
ConstRule(left, v, ops) ==
    <<[rule |-> "constant_rule", left |-> left, value |-> v, ops |-> ops]>>
OpBound(n) == <<[rule |-> "operations_bound", value |-> n]>>
QBound(n) == <<[rule |-> "quantifiers_bound", value |-> n]>>

Lit(v) == <<[rule |-> "atom_literal", value |-> v]>>
Var(name) == <<[rule |-> "atom_variable", name |-> name]>>
At(name, index) == index \o <<[rule |-> "atom_access", name |-> name]>>
Neg(t) == t \o <<[rule |-> "unaryop"]>>
Arith(op, s, t) == s \o t \o <<[rule |-> "arithmetic", op |-> op]>>
Rel(op, s, t) == s \o t \o <<[rule |-> "relational", op |-> op]>>
Bool(op, e, f) == e \o f \o <<[rule |-> "boolean", op |-> op]>>
Not(e) == e \o <<[rule |-> "be_not"]>>
Truth(b) == <<[rule |-> IF b THEN "be_true" ELSE "be_false"]>>
BVar(name) == <<[rule |-> "be_variable", name |-> name]>>
Quantified(q, name, e) == e \o <<[rule |-> q, name |-> name]>>
Clause(e) == e \o <<[rule |-> "clause"]>>
Wrong(rule) == <<[rule |-> rule]>>
WrongExpr(kind) == <<[rule |-> "wrong_expression", kind |-> kind]>>

(* Three variables, and an array element only the last is compared with.   *)
Chain ==
    Declare(i, "int", "none") \o Declare(j, "int", "none") \o Declare(p, "int", "none")
    \o Declare(a, "array", "none")
    \o Clause(Bool("implies", Rel("<", Var(i), Var(j)), Rel(">", Var(j), Var(p))))
    \o Clause(Rel(">=", Var(p), At(a, Lit(0))))

(* A constant, compared with a variable that is an element by the clause   *)
(* after it only.                                                          *)
Bounded ==
    Declare(i, "int", "none") \o Declare(a, "array", "none")
    \o Clause(Rel("<", Lit(2), Var(i)))
    \o Clause(Rel(">=", Var(i), At(a, Lit(0))))

Globals == Declare(a, "array", "const") \o Declare(i, "int", "global") \o Declare(j, "int", "global")

Headers ==
    {Globals, Declare(a, "array", "const") \o Declare(i, "int", "global") \o Declare(j, "int", "none"),
     Declare(p, "bool", "none") \o Declare(a, "barray", "none") \o Declare(i, "int", "none")
            \o Constant(0) \o Declare(j, "int", "local")}

Indexing == Rule(a, i, {"bound", "index"}) \o Rule(i, j, {"relational"})

Grammars ==
    {<<>>, Indexing,
     Constant(0) \o Rule(a, j, {"index"}) \o ConstRule(j, 0, {"+", "="}) \o Rule(a, j, {"="}) \o OpBound(2)}

Odd ==
    {Chain, Bounded,
     Declare(a, "array", "none") \o OpBound(0),
     Declare(a, "array", "none") \o Declare(a, "int", "none") \o OpBound(1) \o QBound(2),
     Declare(i, "int", "none") \o Rule(i, j, {"="}) \o Declare(a, "array", "none") \o QBound(2) \o OpBound(2)}
    \cup {Declare(i, "int", "none") \o w : w \in
            {Wrong("wrong_constant") \o Wrong("wrong_rule") \o Rule(i, i, {"index"}),
             Wrong("wrong_unit"),
             <<[rule |-> "wrong_declaration", type |-> "array", mode |-> "none"]>>
                 \o Clause(WrongExpr("be"))}}

ClauseTexts ==
    {Clause(Rel("=", At(a, Arith("+", Var(i), Lit(1))), Lit(0))),
     Clause(Rel("<=", Lit(0), Var(i))),
     Clause(Rel("<", Var(i), Var(j))),
     Clause(Rel("=", Var(j), Var(j))),
     Clause(Not(Rel("=", At(a, Var(i)), At(a, Var(j))))),
     Clause(Quantified("forall", i, Rel("=", At(a, Arith("-", Var(i), Lit(1))), Neg(Var(j))))),
     Clause(Bool("or", BVar(p), Quantified("exists", j, Truth(TRUE)))),
     Clause(Rel("=", At(a, Lit(0)), Var(j))),
     Clause(Rel("<", WrongExpr("term"), Var(j))),
     Rel("<", Var(j), Lit(2)) \o Wrong("wrong_clause"),
     Clause(Bool("and", Truth(FALSE), Rel("<=", At(a, Var(i)), At(a, Neg(Var(i))))))}

(* Two clauses follow no grammar, but for one.                             *)
MCFiles ==
    {h \o g \o v : h \in Headers, g \in Grammars, v \in {<<>>} \cup ClauseTexts}
    \cup {h \o c \o d : h \in Headers \cup {Globals \o Indexing}, c, d \in ClauseTexts}
    \cup Odd

FilesWithConstant == {Bounded}
=============================================================================
