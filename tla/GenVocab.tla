------------------------------ MODULE GenVocab ------------------------------
(***************************************************************************)
(* Generating a vocabulary, scma/scGenVocab.cpp and the injection of       *)
(* scma/scTheory.cpp:814-862: quantified variables, the terms and formulae *)
(* that the grammar rules allow, and the instances of the formulae at the  *)
(* index terms.  As in SCTheory an operation is an operator on theories.   *)
(***************************************************************************)
EXTENDS SCTheory, SequencesExt

(* A set of operators is walked in the order of their strings.             *)
OpOrder == <<"%", "*", "+", "-", "/", "<", "<=", "=", ">", ">=", "[]">>

(* What a loop over s makes of base: op takes what was made before the     *)
(* turn and the item of the turn.                                          *)
Loop(op(_, _), base, s) ==
    LET made[k \in 0 .. Len(s)] == IF k = 0 THEN base ELSE op(made[k - 1], s[k])
    IN  made[Len(s)]

(* Every pair of a member of s and one of t, in the order of two loops.    *)
Pairs(s, t) == FlattenSeq([i \in DOMAIN s |-> [j \in DOMAIN t |-> <<s[i], t[j]>>]])

Ascending(S) ==
    [k \in 1 .. Cardinality(S) |-> CHOOSE x \in S : Cardinality({y \in S : y <= x}) = k]

-----------------------------------------------------------------------------
(* Injection.                                                              *)

(* An array of Booleans is passed over.                                    *)
indexArray(th, id, idx) ==
    IF getNode(th, id).type = "array" THEN handleGrammarRule(th, id, idx, {"index"}) ELSE th

addQuantifiedIndex(th, idx) ==
    LET indexed == Loop(LAMBDA t, id : indexArray(t, id, idx), th, th.varIds)
        one == handleConstantDeclaration(indexed, 1)
    IN  IF th.numClauseOperationBound > 1
        THEN handleGrammarRule(one, idx, getIdOfUsedConstant(one, 1), {"+"})
        ELSE indexed

(* A name that is taken is changed until it is not: a q is put in front of *)
(* the first, a number behind the others (written as so many marks).       *)
Renamed(c, num) ==
    IF num = 0 THEN [c EXCEPT !.name = <<"q">> \o @]
    ELSE [name |-> c.name \o [k \in 1 .. c.i + 1 |-> "#"], i |-> c.i + 1]

(* There are no more names than nodes, and none is tried twice.            *)
Untaken(th, c, num) ==
    LET tried[k \in 0 .. Len(th.nodes)] == IF k = 0 THEN c ELSE Renamed(tried[k - 1], num)
        free == {k \in 0 .. Len(th.nodes) : tried[k].name \notin DOMAIN th.var2idMap}
    IN  tried[CHOOSE k \in free : \A m \in free : k <= m]

(* acc: the theory, and the name to begin with.                            *)
injectOne(acc, num, mode) ==
    LET free == Untaken(acc.th, acc.name, num)
        declared == handleDeclaration(acc.th, free.name, "int", mode)
    IN  [th |-> addQuantifiedIndex(declared.th, declared.id), name |-> free]

injectQuantifierVars(th, injectLocal) ==
    Loop(LAMBDA acc, num : injectOne(acc, num, IF injectLocal THEN "local" ELSE "global"),
             [th |-> th, name |-> [name |-> <<"i">>, i |-> 0]],
             [n \in 1 .. th.numQuantifierBound |-> n - 1]).th

-----------------------------------------------------------------------------
(* Terms and formulae.                                                     *)

RuleOps(th, id1, id2) ==
    LET places == Ascending({k \in DOMAIN OpOrder : <<id1, id2, OpOrder[k]>> \in th.rulemap})
    IN  [m \in DOMAIN places |-> OpOrder[places[m]]]

(* The operators that join n1 to n2: by a rule between one of the          *)
(* variables n1 ends in and one of those n2 begins with.                   *)
JoiningOps(th, n1, n2) ==
    LET pairs == Pairs(getNode(th, n1).rightVars, getNode(th, n2).leftVars)
    IN  FlattenSeq([p \in DOMAIN pairs |-> RuleOps(th, pairs[p][1], pairs[p][2])])

(* acc: the theory and the terms made so far.  Only the second operand is  *)
(* kept from being an array of Booleans.                                   *)
makeTerm(acc, n1, n2, op) ==
    LET made == CASE op \in ArithOps /\ getNode(acc.th, n1).type # "array"
                                    /\ ~isArray(acc.th, n2) ->
                        {handleTermArithTerm(acc.th, op, n1, n2)}
                  [] op = "[]" /\ isArray(acc.th, n1) -> {handleArrayAccess(acc.th, n1, n2)}
                  [] OTHER -> {}
    IN  IF made = {} THEN acc
        ELSE [th |-> (CHOOSE m \in made : TRUE).th,
              ids |-> Append(acc.ids, (CHOOSE m \in made : TRUE).id)]

(* The pairs of a term of s and one of t that some rule joins, in the      *)
(* order in which two loops meet them, each with the operators.            *)
Joined(th, s, t) ==
    LET pairs == Pairs(s, t)
        Joins(pair) ==
            LET ops == IF pair[1] = pair[2] THEN <<>> ELSE JoiningOps(th, pair[1], pair[2])
            IN  [m \in DOMAIN ops |-> <<pair[1], pair[2], ops[m]>>]
    IN  FlattenSeq([k \in DOMAIN pairs |-> Joins(pairs[k])])

generateTermsNIJ(acc, termsI, termsJ) ==
    Loop(LAMBDA b, join : makeTerm(b, join[1], join[2], join[3]),
             acc, Joined(acc.th, termsI, termsJ))

(* acc: [th, terms], where terms[n + 1] are the terms with n operations.   *)
generateTermsN(acc, n) ==
    LET grown == Loop(
            LAMBDA b, i : generateTermsNIJ(b, acc.terms[i], acc.terms[n + 1 - i]),
            [th |-> acc.th, ids |-> <<>>], [i \in 1 .. n |-> i])
    IN  [th |-> grown.th, terms |-> Append(acc.terms, grown.ids)]

generateTerms(th, numOfOps) ==
    Loop(generateTermsN, [th |-> th, terms |-> <<th.constantIds \o th.varIds>>],
             [n \in 1 .. numOfOps |-> n])

(* Two arrays may only be equated, and only with one of their kind.        *)
Comparable(th, n1, n2, op) ==
    IF isArray(th, n1) \/ isArray(th, n2)
    THEN getNode(th, n1).type = getNode(th, n2).type /\ op = "="
    ELSE TRUE

generateFormula(th, n1, n2, op) ==
    LET made == handleTermRelationalTerm(th, op, n1, n2)
    IN  IF op \in RelationalOps /\ Comparable(th, n1, n2, op)
        THEN [made.th EXCEPT !.generatedVocabIds = Append(@, made.id)]
        ELSE th

generateFormulae(th, terms) ==
    LET all == FlattenSeq(terms)
    IN  Loop(LAMBDA t, join : generateFormula(t, join[1], join[2], join[3]),
                 th, Joined(th, all, all))

(* With a bound of 0 the recursion of generateTerms has no end.            *)
Endless(th) == th.numClauseOperationBound = 0

(* Terms of as many operations as the bound.                               *)
GenerateOneMore(th) ==
    LET generated == generateTerms(th, th.numClauseOperationBound)
    IN  generateFormulae(generated.th, generated.terms)

generateVocab(th) ==
    LET generated == generateTerms(th, th.numClauseOperationBound - 1)
    IN  generateFormulae(generated.th, generated.terms)

-----------------------------------------------------------------------------
(* Instances.                                                              *)

Relations(th) == {id \in Ids(th) : getNode(th, id).type = "binary-relational"}
Operands(th, id) == {getNode(th, id).operandIds[i] : i \in DOMAIN getNode(th, id).operandIds}

(* The node that t = t leaves behind: its operands are read all the same.  *)
HasOrphan(th) == \E id \in Relations(th) : Operands(th, id) = {}

IndexUsed(th) == th.readIndexTerms \cup th.uterms

(* acc: the theory, whether this pass has marked a node, and whether the   *)
(* program exits.                                                          *)
propagateNode(acc, id) ==
    LET ops == Operands(acc.th, id)
        unmarked == {o \in ops : ~getNode(acc.th, o).element}
    IN  IF acc.exits \/ getNode(acc.th, id).type # "binary-relational" \/ unmarked = ops THEN acc
        ELSE IF ops \cap IndexUsed(acc.th) # {} THEN [acc EXCEPT !.exits = TRUE]
        ELSE IF unmarked = {} THEN acc
        ELSE [acc EXCEPT !.th = setElement(@, CHOOSE o \in unmarked : TRUE), !.marked = TRUE]

(* A pass, unless the one before was the last: it goes over the relations  *)
(* in the order of the table.                                              *)
propagatePass(acc) ==
    IF acc.exits \/ ~acc.marked THEN acc
    ELSE Loop(propagateNode, [acc EXCEPT !.marked = FALSE],
                  [k \in DOMAIN acc.th.nodes |-> k - 1])

(* No second pass.                                                         *)
PropagateOnce(th) == propagatePass([th |-> th, marked |-> TRUE, exits |-> FALSE])

(* Until a pass marks nothing: every other marks a node, so there are not  *)
(* more of them than nodes.                                                *)
propagateElementAttribute(th) ==
    Loop(LAMBDA acc, k : propagatePass(acc),
             [th |-> th, marked |-> TRUE, exits |-> FALSE], [k \in 1 .. Len(th.nodes) + 1 |-> k])

fillBoundTerms(th) ==
    [th EXCEPT !.boundTerms = @ \cup
        {id \in UNION {Operands(th, r) : r \in Relations(th)} :
            ~getNode(th, id).element /\ ~getNode(th, id).global /\ id \notin th.readIndexTerms}]

(* Both kinds may hold a term, which is then there twice.                  *)
IndexTerms(th) == Ascending(th.readIndexTerms) \o Ascending(th.boundTerms)

(* What is not entered: of the universal variables is taken the            *)
(* substitute, of the rest the node itself.                                *)
Whole(node) == node.const \/ node.isVar \/ ~node.global

(* The occurrences of nodes in a node that cloning it enters, each behind  *)
(* its operands.                                                           *)
Occurrences(th, id) ==
    LET below[i \in Ids(th)] ==
            LET node == getNode(th, i)
                operand(p) == IF Whole(node) \/ Len(node.operandIds) < p THEN <<>>
                              ELSE below[node.operandIds[p]]
            IN  operand(1) \o operand(2) \o <<i>>
    IN  below[id]

(* Of a variable that is there twice the first counts.                     *)
Substitute(node, id, uvars, combination) ==
    IF node.isVar /\ node.global /\ ~node.const
    THEN combination[SelectInSeq(uvars, LAMBDA u : u = id)]
    ELSE id

(* acc: the theory, and what the occurrences before id, unless they are    *)
(* part of another by now, were replaced by: those of the last operands of *)
(* id come last.                                                           *)
cloneAndSubstituteNode(acc, id, uvars, combination) ==
    LET node == getNode(acc.th, id)
        last == Len(acc.ids)
        used == IF Whole(node) THEN 0 ELSE Len(node.operandIds)
        sub2 == acc.ids[last]
        sub1 == acc.ids[last - 1]
        cloned ==
            CASE Whole(node) -> [th |-> acc.th, id |-> Substitute(node, id, uvars, combination)]
              [] node.type = "binary-relational" /\ ~Whole(node) ->
                    handleTermRelationalTerm(acc.th, node.op, sub1, sub2)
              [] node.type = "binary-arithmetic" /\ ~Whole(node) ->
                    handleTermArithTerm(acc.th, node.op, sub1, sub2)
              [] node.type = "binary-boolean" /\ ~Whole(node) ->
                    handleBEBoolBE(acc.th, node.op, sub1, sub2)
              [] node.type = "access" /\ ~Whole(node) -> handleArrayAccess(acc.th, sub1, sub2)
              [] node.type = "unary-boolean" /\ ~Whole(node) -> handleNot(acc.th, sub2)
              [] node.type = "unary-arithmetic" /\ ~Whole(node) -> handleUnaryMinus(acc.th, sub2)
    IN  [th |-> cloned.th, ids |-> Append(SubSeq(acc.ids, 1, last - used), cloned.id)]

(* [th, id]: the node with the i-th of uvars replaced by the i-th of       *)
(* combination.                                                            *)
cloneAndSubstituteRec(th, id, uvars, combination) ==
    LET cloned == Loop(LAMBDA acc, i : cloneAndSubstituteNode(acc, i, uvars, combination),
                           [th |-> th, ids |-> <<>>], Occurrences(th, id))
    IN  [th |-> cloned.th, id |-> cloned.ids[Len(cloned.ids)]]

(* The text of a node, operator first.  Of the array of an access no more  *)
(* than the name is printed, whatever it is.                               *)
Label(node) == <<node.op, node.name, node.value, node.type, Len(node.operandIds)>>

Text(th, id) ==
    LET text[i \in Ids(th)] ==
            LET node == getNode(th, i)
                operands == node.operandIds
            IN  <<Label(node)>>
                \o (IF Len(operands) = 0 THEN <<>>
                    ELSE IF node.type = "access" THEN <<Label(getNode(th, operands[1]))>>
                    ELSE text[operands[1]])
                \o (IF Len(operands) < 2 THEN <<>> ELSE text[operands[2]])
    IN  text[id]

SameText(th, a, b) == Text(th, a) = Text(th, b)

insertQFNoDuplicates(th, id) ==
    LET key == Text(th, id)
    IN  IF \E i \in DOMAIN th.quantFreeVocIds : Text(th, th.quantFreeVocIds[i]) = key
        THEN th
        ELSE [th EXCEPT !.quantFreeVocIds = Append(@, id)]

(* The choices of one place more, each behind the last of the choice, or   *)
(* from a first place on.                                                  *)
Longer(choices, n, first) ==
    FlattenSeq([c \in DOMAIN choices |->
        LET from == IF choices[c] = <<>> THEN first ELSE choices[c][Len(choices[c])] + 1
        IN  [d \in 1 .. n + 1 - from |-> Append(choices[c], from + d - 1)]])

(* An increasing choice that leaves the first place out.                   *)
CombinationsAfter(n, k) ==
    Loop(LAMBDA choices, j : Longer(choices, n, 2), <<<<>>>>, [j \in 1 .. k |-> j])

(* The combinations of k of the terms, as increasing choices of places, in *)
(* the order of as many nested loops.                                      *)
Combinations(n, k) ==
    Loop(LAMBDA choices, j : Longer(choices, n, 1), <<<<>>>>, [j \in 1 .. k |-> j])

cloneAndSubstitute(th, id, uvars, combination) ==
    LET clone == cloneAndSubstituteRec(th, id, uvars, combination)
    IN  insertQFNoDuplicates(clone.th, clone.id)

combinationClone(th, id, indexTerms) ==
    LET uvars == getUVars(th, id)
    IN  Loop(LAMBDA t, places : cloneAndSubstitute(t, id, uvars,
                                    [i \in DOMAIN places |-> indexTerms[places[i]]]),
                 th, Combinations(Len(indexTerms), Len(uvars)))

(* What one clause adds to the quantifier-free vocabulary.                 *)
instantiate(th, id, indexTerms) ==
    IF getNode(th, id).global
    THEN combinationClone(th, id, indexTerms)
    ELSE insertQFNoDuplicates(th, id)
=============================================================================
