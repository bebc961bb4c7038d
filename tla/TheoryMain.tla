----------------------------- MODULE TheoryMain -----------------------------
(***************************************************************************)
(* From a theory file to a vocabulary, the first half of main              *)
(* (scma/sc.cpp:42-86): the file is read, a vocabulary is generated from   *)
(* its grammar rules unless it has one, and, when asked for, the universal *)
(* variables of the vocabulary are replaced by the index terms.            *)
(***************************************************************************)
EXTENDS TheoryReader, GenVocab

VARIABLES
    options,        \* the switches of the command line
    indexTerms,     \* the vector of that name of generateQuantFreeVocab
    next,           \* the clause it is at
    vocab           \* what the traversal will be given: the ids of the formulae

mainVars == <<options, indexTerms, next, vocab>>

Options == [genVocab : BOOLEAN, injectLocal : BOOLEAN, useQuantFree : BOOLEAN]

(* What follows reading.  "crashed": a null theory is used; "undefined": a *)
(* vector is read past its end; "endless": a recursion without end.        *)
Stages == {"generated", "propagated", "bounded", "built", "crashed", "undefined", "endless"}

MainInit ==
    /\ ReaderInit
    /\ options \in Options
    /\ indexTerms = <<>> /\ next = 1 /\ vocab = <<>>

read_file == ReaderNext /\ UNCHANGED mainVars

Step(from, to) == status = from /\ status' = to /\ UNCHANGED <<text, vals>>

(* readTheoryFile says yes even when there is no theory.                   *)
use_null == Step("null", "crashed") /\ UNCHANGED <<theory, mainVars>>

(* A vocabulary is generated when the file has none, asked for or not.     *)
Generates == options.genVocab \/ theory.vocabIds = <<>>

generate ==
    /\ Generates
    /\ options' = [options EXCEPT !.genVocab = TRUE]
    /\ LET injected == injectQuantifierVars(theory, options.injectLocal)
       IN  \/ /\ Endless(injected)
              /\ Step("read", "endless")
              /\ UNCHANGED theory
           \/ /\ ~Endless(injected)
              /\ Step("read", "generated")
              /\ theory' = generateVocab(injected)
    /\ UNCHANGED <<indexTerms, next, vocab>>

inject ==
    /\ Step("read", "generated")
    /\ ~Generates
    /\ theory' = IF options.injectLocal THEN injectQuantifierVars(theory, TRUE) ELSE theory
    /\ UNCHANGED mainVars

(* useVocIds.                                                              *)
useIds(quantFree) ==
    IF quantFree THEN theory.quantFreeVocIds
    ELSE IF options.genVocab THEN theory.generatedVocabIds
    ELSE theory.vocabIds

propagate ==
    /\ options.useQuantFree
    /\ \/ HasOrphan(theory) /\ Step("generated", "undefined") /\ UNCHANGED theory
       \/ /\ ~HasOrphan(theory)
          /\ LET done == propagateElementAttribute(theory)
             IN  /\ Step("generated", IF done.exits THEN "exited" ELSE "propagated")
                 /\ theory' = done.th
    /\ UNCHANGED mainVars

fill_bound_terms ==
    /\ Step("propagated", "bounded")
    /\ theory' = fillBoundTerms(theory)
    /\ indexTerms' = IndexTerms(theory')
    /\ UNCHANGED <<options, next, vocab>>

instantiate_clause ==
    /\ Step("bounded", "bounded")
    /\ next \in DOMAIN useIds(FALSE)
    /\ theory' = instantiate(theory, useIds(FALSE)[next], indexTerms)
    /\ next' = next + 1
    /\ UNCHANGED <<options, indexTerms, vocab>>

buildSMTFormulae ==
    /\ IF options.useQuantFree
       THEN Step("bounded", "built") /\ next > Len(useIds(FALSE))
       ELSE Step("generated", "built")
    /\ vocab' = useIds(options.useQuantFree)
    /\ UNCHANGED <<theory, options, indexTerms, next>>

(* The program has ended, or goes on with the traversal.                   *)
ended ==
    /\ status \in {"built", "crashed", "undefined", "endless", "exited", "aborted"}
    /\ UNCHANGED <<readerVars, mainVars>>

MainNext ==
    \/ read_file \/ use_null \/ generate \/ inject
    \/ propagate \/ fill_bound_terms \/ instantiate_clause \/ buildSMTFormulae
    \/ ended

MainSpec == MainInit /\ [][MainNext]_<<readerVars, mainVars>>

-----------------------------------------------------------------------------
(* The relations among terms, as a graph.                                  *)
Neighbours(th, S) ==
    S \cup UNION {Operands(th, r) : r \in {q \in Relations(th) : Operands(th, q) \cap S # {}}}

(* No way is longer than there are nodes.                                  *)
Reached(th, S) == Loop(LAMBDA within, node : Neighbours(th, within), S, th.nodes)

Accesses(th) == {id \in Ids(th) : getNode(th, id).type = "access"}
Elements(th) == {id \in Ids(th) : getNode(th, id).element}

(* When the passes of propagateElementAttribute have ended, the accesses   *)
(* are elements; whatever is an element is connected to an access by       *)
(* relations, however many; and what is compared with an element is one    *)
(* too, and no index term, `unless it was a constant', of which nothing is *)
(* demanded.  A single pass over the table, or a test made before the last *)
(* mark, would not do.                                                     *)
ElementsConnected ==
    status = "propagated" =>
        /\ Accesses(theory) \subseteq Elements(theory)
        /\ Elements(theory) \subseteq Reached(theory, Accesses(theory))
        /\ \A r \in Relations(theory) :
              Operands(theory, r) \cap Elements(theory) # {} =>
                  \A o \in Operands(theory, r) :
                      getNode(theory, o).const \/ o \in Elements(theory) \ IndexUsed(theory)

(* `If one of the operands is a data element, make the second so unless it *)
(* was a constant' (scGenVocab.cpp:250-251): the passes make no constant   *)
(* an element that was none when they began.                               *)
ConstantsSpared ==
    status = "generated" /\ options.useQuantFree /\ ~HasOrphan(theory) =>
        LET done == propagateElementAttribute(theory)
        IN  ~done.exits =>
                \A id \in Elements(done.th) :
                    getNode(theory, id).const => id \in Elements(theory)

(* inst is node with its operands, swapped where the operator commutes,    *)
(* taken from first and second.                                            *)
Composed(inst, node, first, second) ==
    /\ inst.op = node.op /\ inst.type = node.type
    /\ Len(inst.operandIds) = Len(node.operandIds)
    /\ \/ Len(node.operandIds) = 1 /\ inst.operandIds[1] \in first
       \/ Len(node.operandIds) = 2
             /\ \/ inst.operandIds[1] \in first /\ inst.operandIds[2] \in second
                \/ /\ node.op \in {"=", "+", "*"}
                   /\ inst.operandIds[2] \in first /\ inst.operandIds[1] \in second

(* The formulae that are c with sigma for its universal variables;         *)
(* equalities of a term with itself have become true.                      *)
Instances(th, c, sigma) ==
    LET of[i \in Ids(th)] ==
            LET node == getNode(th, i)
                first == of[node.operandIds[1]]
                second == of[node.operandIds[2]]
            IN  IF ~node.global \/ node.const THEN {i}
                ELSE IF node.isVar THEN {sigma[i]}
                ELSE {f \in Ids(th) :
                        \/ /\ node.op \in {"=", "<="} /\ Len(node.operandIds) = 2
                           /\ f = th.trueId /\ first \cap second # {}
                        \/ Composed(getNode(th, f), node, first, second)}
    IN  of[c]

InstanceOf(c, f) ==
    LET uvars == getUVars(theory, c)
    IN  \E sigma \in [{uvars[i] : i \in DOMAIN uvars} -> {indexTerms[i] : i \in DOMAIN indexTerms}] :
            f \in Instances(theory, c, sigma)

QuantFree == {theory.quantFreeVocIds[i] : i \in DOMAIN theory.quantFreeVocIds}
Clauses == {useIds(FALSE)[i] : i \in DOMAIN useIds(FALSE)}

(* The quantifier-free vocabulary holds the clauses that were not          *)
(* universal and instances of those that were, one index term for a        *)
(* variable wherever it stands, no text twice; a clause with one           *)
(* occurrence of a variable has an instance for every index term.          *)
QuantFreeExact ==
    status = "built" /\ options.useQuantFree =>
        /\ \A f \in QuantFree : \E c \in Clauses : InstanceOf(c, f)
        /\ \A f, g \in QuantFree : SameText(theory, f, g) => f = g
        /\ \A c \in Clauses :
              LET uvars == getUVars(theory, c)
              IN  /\ Len(uvars) = 0 => \E f \in QuantFree : SameText(theory, f, c)
                  /\ Len(uvars) = 1 => \A i \in DOMAIN indexTerms :
                        \E f \in QuantFree, g \in Instances(theory, c, [v \in {uvars[1]} |-> indexTerms[i]]) :
                            SameText(theory, f, g)

-----------------------------------------------------------------------------
(* The operations in a term.                                               *)
Operations(th, id) ==
    LET count[i \in Ids(th)] ==
            LET operands == getNode(th, i).operandIds
            IN  IF operands = <<>> THEN 0
                ELSE 1 + count[operands[1]] + (IF Len(operands) = 1 THEN 0 ELSE count[operands[2]])
    IN  count[id]

SeqRange(s) == {s[i] : i \in DOMAIN s}

(* Some rule joins what a ends in and what b begins with by op.            *)
Ruled2(a, b, op) ==
    \E x \in SeqRange(getNode(theory, a).rightVars), y \in SeqRange(getNode(theory, b).leftVars) :
        <<x, y, op>> \in theory.rulemap

Basic == SeqRange(theory.constantIds) \cup SeqRange(theory.varIds)

(* A generated formula is a relation some rule allows between terms of     *)
(* fewer operations than the bound, and every rule between two variables   *)
(* or constants has its formula.  (Orphans aside: t = t is never asked     *)
(* for, so none is left behind.)                                           *)
GeneratedSound ==
    status = "generated" /\ options.genVocab =>
        /\ \A f \in SeqRange(theory.generatedVocabIds) :
              LET node == getNode(theory, f)
                  l == node.operandIds[1]
                  r == node.operandIds[2]
              IN  /\ f \in Relations(theory) /\ l # r
                  /\ Ruled2(l, r, node.op) \/ (node.op = "=" /\ Ruled2(r, l, "="))
                  /\ {Operations(theory, l), Operations(theory, r)} \subseteq 0 .. theory.numClauseOperationBound - 1
        /\ \A a, b \in Basic, op \in RelationalOps :
              /\ a # b /\ <<a, b, op>> \in theory.rulemap
              /\ Comparable(theory, a, b, op)
              => \E f \in SeqRange(theory.generatedVocabIds) :
                    getNode(theory, f).op = op /\ Operands(theory, f) = {a, b}
=============================================================================
