# A verification development for Verification++

Verification++ constructs the specification of a C function with the help of a
solver and a user. This directory holds TLA+ modules that model its programs,
TLC configurations that check them on small instances, and theorems about them
that the TLA+ proof system checks for every value of the constants. Source
paths below are relative to the repository's `src/` directory (`scma/...` is
the constructor, `src/...` the Clang tool).

1. [The system](#1-the-system)
2. [Modules](#2-modules)
3. [Runs](#3-runs)
4. [Fairness](#4-fairness)
5. [Theorems](#5-theorems)
6. [What the code does differently from what it says](#6-what-the-code-does-differently-from-what-it-says)
7. [Not modelled](#7-not-modelled)
8. [Plan](#8-plan)

## 1. The system

Two families of programs live in the repository. The Clang tool extracts a
*type theory* (declarations, operations, array accesses) from a C function and
instruments it. The programs of `scma`, `sc` and `ma`, read a type theory,
build a *vocabulary* of formulae, and work on its *evaluations*, the total
assignments of true and false to the formulae. `sc` asks the user of each
evaluation that has a model whether it is good, and the accepted evaluations,
as a disjunction, are the specification. `ma` decides whether a vocabulary is
fine enough to separate the models the user accepts from those he rejects.
When the enumeration has ended, `sc` has Espresso simplify the specification.

    type theory file -> scma.g parser -> SCTheory -> vocabulary generation
                                                           |
          user  <-- questions, answers -->  SpecCheckVocab::traverse (sc)
                                            traverse/checkchoice (GUI client)
                                            MakeAdequate (ma)
                                              |         |            |
                                       Z3 queries    ROBDD library   | accepted
                                       and cores     -> hash table   | evaluations
                                                                     v
                                       espressoSimplifyR -> Espresso -> readers
                                                                     -> ABC

### Components

| component (files) | state | operations | what makes it correct |
|---|---|---|---|
| Traversal of SpecConstruct (`scImpl.cpp`, `scma.h`, `sc.cpp`) | `choice`, `depth`, `unsat_cores`, the `m_retracted` flags, the yes and no lists, `main_node` | `initTraversal`, `traverse`, `checkChoice`, answers Y/N/M, V/B/C | no evaluation with a model is lost to pruning; none is asked twice; what is shown is what was checked; patterns come from cores and rejections only; it ends |
| Bad vocabulary dialogue (`scImpl.cpp`) | `partial`, `repeat` | ids, `-1`, `-2`, `-3`, `Y`, `R`, other keys | adds only non-empty patterns of current values |
| Iterator and recorder (`traverse.cpp`, `checkchoice.cpp`) | its own `choice`, `depth`, `allTraversed`, a kept model | `nextEvaluation`, `reset`, `Z3Check`, `ReadAnswer` | a pass covers the tree and gives each evaluation once although patterns arrive between calls; the kept model belongs to the answered evaluation |
| MakeAdequate (`ma.cpp`, `maImpl.cpp`) | the traversal's, `eqvSides`, `vocSides` | `equivTraverse`, `vocabSidesTraverse`, `computePrintCorrection` | each equivalence evaluation judged once; the verdict is right; corrections admit the accepted and exclude the rejected |
| ROBDD library (`robdd/robdd.cpp`) | node array `T`, `size`, table `H` | `make`, `apply`, `satcount`, `onesat`, `allsat` | canonical diagrams, stable node indices, right results, an abort exactly on overflow |
| Hash table (`robdd/hashtable.c`) | chains, `num_elems` | `table_new`, `table_insert`, `table_search` | a map from keys to elements |
| Retractable constraints (`scz3helpers.cpp`) | `m_retracted` flags | assert, retract, reassert | the assumptions of a query are the literals of the evaluation |
| Type theory and reader (`scTheory.cpp`, `scma.g`, `scmaParser.cpp`) | node table, `var2idMap`, `varIds`, `constantIds`, `rulemap`, index terms; pending ids of the parser | the handlers the parser calls, in the order of the productions, error recovery included | an id keeps naming the same node; table, maps and lists agree |
| Vocabulary generation (`scGenVocab.cpp`, `sc.cpp`) | `uterms`, `generatedVocabIds`, `quantFreeVocIds`, flags of nodes | injection, expansion along the rules, propagation of `element`, instances | exactly what the rules and the index terms allow |
| Espresso and ABC exchange (`scImpl.cpp`) | text files, child processes, reader states | write, run, read back | what is handed on admits exactly the accepted evaluations |
| Espresso (`espresso/`, vendored), as far as `-Dsimplify` goes | covers | `simplify`, `eqn_output`, `kiss_output` | the function stays, the cover does not grow |
| Clang type theory (`src/TypeTheory*.cpp`) | maps of variables and operations | visitor callbacks | classification does not depend on the order of evaluation |
| Instrumentation (`src/InstrumentationFunctions.cpp`) | sorted declarations, returns, cursors | textual rewriting | each character written once, each declaration and return replaced once |
| Z3, ANTLR runtime, generated lexer | - | - | external |

How they interact: everything is called from one thread. The interleavings
that matter are of other kinds. Patterns are added deep inside a recursion
whose outer frames hold a half-built `choice`; the user's answers arrive between
solver queries; the graphical client puts its own calls between two calls of
the iterator; `apply` memoizes node indices while `make` adds nodes; parser
functions hold ids while the handlers they call extend the node table; and the
simplification trusts files that child processes were to write. Solver
answers, the choice of an unsat core and the order in which a C++ compiler
evaluates two operands are nondeterministic. `PROJECT.json` lists the hazards
line by line, each with the properties that cover it or a note why none does.

## 2. Modules

    Vocabulary <- Solver <- SpecCheck  --implements-->  SpecConstruct
        |           |          ^
        |           |          +-- VocabDialog  --implements-->  SpecCheck
        |           +------ EvalIterator
        +------------------ MakeAdequate
        +------------------ Espresso <- Simplification
    RobddStore <- Robdd                (H as HashTable's map)
    HashTable  --implements-->  TableMap
    SCTheory <- TheoryReader <-+
        +------ GenVocab     <-+- TheoryMain
    TypeTheory, Instrument

* **Vocabulary**: the data all traversals share. A formula is its index, an
  evaluation a function to `vff`/`vtt` (`vuu` is unknown), an eliminated
  pattern a set of literals. `unsat_core_t` is a list in the code; neither
  order nor repetition changes what `matchesUnsatCore` says, so it is a set.
* **Solver**: what is assumed of Z3, stated by the set `Satisfiable` of
  evaluations that have a model: a query is satisfiable iff one of them agrees
  with the assumptions, an unsat core is *any* unsatisfiable part of the
  assumptions, and with `SolverMayGiveUp` any query may be undecided. The
  assumptions are those literals whose `m_retracted` flag is false; the flags
  are the variable `asserted`, and `choiceAssertRetract` changes it as the code
  does, formula by formula and only for formulae with a value.
* **SpecConstruct** is the promise: an abstract machine with the accepted, the
  rejected and the eliminated, and `Conclude`, possible only when every
  evaluation with a model is settled. It knows no traversal order.
* **SpecCheck** is `traverse` and `checkChoice`. The call stack needs no
  variable: the frames are the prefix of `choice` below `depth`, and
  `choice[d]` tells which of its two calls the frame at `d` is in. `mode` is
  `call` at the entry of `traverse`, `return` when it has just returned, and
  `ask`, `reason`, `dialog` while the user is asked. Each exit of the code has
  its action: `IgnoreSubtree`, `CheckSat`, `CheckUnsat`, `CheckUndef` (which
  exits the program), `DescendTrue`, `DescendFalse`, `Ascend`, `Finish`, the
  answers, and `NullTheory` for the access through `th` (section 6).
  `main_node` is the set of assignments its ROBDD stands for.
* **VocabDialog** is SpecCheck with `getVocabPartialBadAssignments` key by key in
  place of `DialogAdd` and `DialogEnd`; the local variables of that function are
  its own. `ImplementsTraversal` says that it behaves like SpecCheck.
* **EvalIterator** is the class `traverse` (one action per turn of the loop of
  `nextEvaluation`) with `checkchoice`. Their client is not in the repository;
  it is taken to do what `checkChoiceMS` does for the console.
* **MakeAdequate** is `ma_main`: both traversals, the judgements, the
  collection of sides, the verdict and the corrections. `World` stands for the
  models of the declarations, `EquivOf` and `VocabOf` for the evaluations of
  the two vocabularies that a model gives.
* **RobddStore** is the node store and `make`; **Robdd** adds `apply`,
  `satcount`, `onesat` and `allsat`, and compares them with the meaning of a
  node. Those that recurse along the diagram are recursive functions of its
  nodes; `apply`, whose diagram grows while it recurses, is a function of the
  depth left and the call. That low and high arguments of `make` are computed in
  an order C++ leaves open is the parameter `lowFirst`.
* **HashTable** is the table with its chains, **TableMap** the map it promises.
  RobddStore uses the map, as the set of its elements.
* **SCTheory** is the type theory of `scTheory.cpp`: a record of the node table,
  its maps and lists. A handler is an operator from a theory to the next one,
  with the id it returns.
* **TheoryReader** drives it by theory files. The parser's recursive functions
  complete their productions in a definite order; one completion is one action,
  and the ids held by functions not yet finished are the stack `vals`. A
  production in which the text is wrong has its own records (`wrong_...`): the
  generated functions report, recover and return as if they had matched, with
  the id 0. The parameter `OptimisedBuild` says whether
  `getIdOfUsedVarible`, which falls off its end, returns what it found.
  The run `theory` sets it; the other value has fewer behaviours.
* **GenVocab** is `scGenVocab.cpp`: injection of quantified variables,
  generation of terms and formulae along the rules, propagation of the element
  attribute, index terms, instances. Its loops are instances of `Loop`, the
  function of the number of turns made. Cloning a clause is written as a walk
  over the occurrences of nodes in it, operands first, which is the order in which
  the recursion of `cloneAndSubstituteRec` makes its nodes; the two names a taken
  name is changed to are a `q` in front and marks behind. **TheoryMain** composes
  reader and generation as `main` does, stage by stage. What the code would do
  next in undefined, crashed or endless cases is a status, in which it stays.
* **TypeTheory** is the first program of the Clang tool: the visits of a function
  body, in Clang's order, with operands evaluated in either order. The
  expressions are a constant, with a height that decreases towards their parts;
  `HandleOperand` is a recursive function of them.
  **Instrument** is the second: the source file is rewritten line by line, and
  a line is its length and the columns of its `;`, `,`, `)` and blanks.
* **Espresso** is the part of the minimiser that `-Dsimplify` runs: cubes as
  sets of values by formula, covers as sequences of cubes, the recursive
  `simplify` with its splitting variable, merging and lifting, and the
  printers, down to where they break lines. Cube order is kept,
  since the printed order and the line breaks depend on it. The operators were
  compared with the output of the program built from this repository, cube for
  cube, on all tables of three formulae and several hundred of four.
  **Simplification** is `espressoSimplifyR`: the prompt, the truth table, two
  runs of Espresso, the two readers and what goes to ABC. Any file may fail to
  open and any command may fail.
* The `MC...` modules give instances and bounds. `MCTools` puts the two
  programs of the Clang tool and Simplification in one run, one of them running
  while the variables of the others stay idle; `MCRobdd` does so with the two
  parts of the BDD library. The eight `*_proofs` hold the theorems. Only MCTools
  uses recursive operators; all other modules do with recursive functions or
  without recursion, so that they can be proved about.

In each module the operators marked `Mutant` are not part of the model. They
are plausible bugs; substituted for the definition they follow, they violate the
property `PROJECT.json` pairs them with.

## 3. Runs

| run | instance and bounds | states | shows |
|---|---|---|---|
| `traversal` | `x<=y, y<=x, x=y`: three of eight evaluations have a model; dialogues stop at 2 patterns (`MaxPatterns`) | 65 942 | `TypeOK`, `NothingSkipped`, `AskedOnce`, `AskedWhatIsChecked`, `PatternsJustified`, `SpecificationSound`, the refinement `ConstructSpec`, `Termination` |
| `vocab_dialog` | 2 formulae, each of the four evaluations with a model; numbers -4 .. 3 | 46 472 | `ImplementsTraversal` |
| `iterator` | the same three formulae, any number of passes; no answer adds a pattern beyond the third in `unsat_cores` (`FewPatterns`), the solver gives up on two evaluations (`HardOnly`) | 446 743 | `CoversTree`, `ModelOfChoice`, `GivesNew`, `PassEnds` |
| `make_adequate` | the three orders of two integers; equivalence theory `l<m, m<l, l=m`; vocabulary `l<=m, m<l` | 180 581 | `EachJudgedOnce`, `AdequateVerdict`, `CorrectionAdmitsAccepted`, `Ends` |
| `robdd` | 3 variables, 6 slots (4 inner nodes), ints of 4 bits; and a table of 2 chains with 3 keys, keys 1 and 3 in one chain, 2 versions each | 24 427 | `TypeOK`, `ValidNodes`, `Reduced`, `NodesStay`, `Canonical`, `ApplyComputes`, `SatCountExact`, `PrintedAssignments`; `is_table`, `KeysDistinct`, the refinement `MapSpec` |
| `theory` | every header and grammar of `MCTheoryMain` with up to one of its eleven clauses, every header, and one with a grammar, with two, and the files in `Odd`; all switches of the command line; `OptimisedBuild`: the id of any variable may be lost at any use | 181 270 | `TypeOK`, `TableSound`, `IndexSound`, `GeneratedSound`, `ElementsConnected`, `QuantFreeExact`, `IdsStay` |
| `tools` | every operator over two of the expressions of `MCTools` and a return; up to three declarations and two returns at any of its places, in three lines; every set of accepted evaluations of 3 formulae, with every failure of a file or a command | 159 131 | `ExtractionExact`, `LinesKept`; `RowsExact`, `RowsSimpler`, `EquationExact` |

The other five runs (`make_adequate_sides`, `make_adequate_true`, `robdd_full`,
`theory_constants`, `simplify_line`) expect a violation; they are the findings of
section 6.

Why the bounds are enough:

* Three formulae are the least for which a core or a rejection found in one
  subtree can prune a subtree in the middle of the tree, neither at its root
  nor at a leaf. With `x<=y, y<=x, x=y` some cores have one, some two and some
  three literals, and a rejection pattern can cover an unsatisfiable
  evaluation, a satisfiable one asked before, or one not asked yet. The theorems
  of section 5 need no bound.
* `FewPatterns` bounds only the patterns the user may add on one evaluation
  after another (in a dialogue of SpecCheck; in any answer of EvalIterator; none in VocabDialog,
  where two formulae keep them few).
  The patterns of the solver are not bounded.
* `HardOnly` and `GivesUpEarly` bound which queries the solver leaves
  undecided: one with and one without a model in the first case, those of the
  first two judgements in the second. After that the state of the traversal
  is the same as if it had been decided, so more of them bring no new case.
* Three orders are the least with which a coarse vocabulary evaluation has two
  models, one on each side, while another evaluation has models of one side.
  The equivalence theory has a formula more than the vocabulary, which is what
  the overrun of `printUnsatCore` takes (section 6).
* The ROBDD run contains every diagram of up to four inner nodes over three
  variables, in every order of construction: chains, shared nodes, skipped
  levels, and a full store in the middle of `apply`. Ints of 4 bits (INT_MAX 7)
  put the count 8 of the constant 1 just beyond the range. Larger diagrams,
  more variables and wider ints are covered by the theorems, which need no
  bound.
* All sequences of insertions are explored in the hash table, which is finite.
* Two clauses let the second meet nodes, index terms and flags the first has
  left; the clauses between them use every handler, literals declared and not,
  a quantifier after the terms of its body, relations between elements, and
  every kind of error from which the parser recovers. `Odd` has the files whose
  reading ends without a theory, that declare a name again, that make
  generation endless, and that mark elements against the order of the table.
* Expressions nest subscripts twice, which is where an operand evaluated
  earlier or later may find an entry or not; places include those before the
  file's first line, on a line without room, on top of one another, and just
  outside of a line on either side, where `substr` throws.
* Three formulae give Espresso covers it splits twice, merges and lifts; with
  them the equation never passes column 72, so `EquationExact`, which speaks of
  equations without a dropped name, covers them all. The theorems need no
  bound. `simplify_line` takes the eight odd evaluations of four formulae, none
  of which can be joined.

`CHECK_DEADLOCK FALSE` is set where the program, the dialogue, the client or the
tool ends, and for the BDD, whose program is over when `make` has aborted. The
reading of theories (whose last stages repeat themselves) is checked for deadlock.

## 4. Fairness

* SpecCheck: `WF(traverse)`, since the recursion runs on by itself;
  `WF(AnswerYes \/ AnswerNo)` and `WF(ReasonContinue \/ ...)`, since the
  program waits in `getline` for the user, and `Termination` is promised to one
  who answers; `WF(DialogEnd)`, since he may select for ever but then there is
  no claim. Answer M (print the model again) and unknown answers change no
  state and are stuttering, which the fairness of the other answers excludes
  from going on for ever.
* EvalIterator: `WF(nextEvaluation)` for the loop, `WF(Client)` for a client
  that checks what it gets, passes on the answer, and stops or resets after a
  pass. `PassEnds` is `[]<>allTraversed`: a reset starts a pass that ends too.
* MakeAdequate: `WF(Next)`, as every step is the program's own or the answer
  to its only question.
* The other modules state no liveness and have no fairness: a library is called
  when its client likes, and what is to be known of the reader, the Clang tool
  and the simplification, which run straight through, is what they compute.

## 5. Theorems

All are proved with tlapm from the named assumptions on the constants and
nothing else: eight modules, some 20 200 obligations.

**SpecCheck_proofs** (assumptions: `VocabSize \in Nat`, `Satisfiable` is a set
of evaluations). For every vocabulary, solver and sequence of answers, with
every choice of cores:

| theorem | |
|---|---|
| `TypeCorrect` | `Spec => []TypeOK` |
| `NothingSkippedThm` | an evaluation with a model that is behind the traversal is answered or matches a pattern |
| `AskedOnceThm` | the evaluation asked about is not settled |
| `AskedWhatIsCheckedThm` | the flags are exactly the literals of `choice`, which has a model |
| `PatternsJustifiedThm` | a pattern covering an evaluation with a model covers a rejected one |
| `SpecificationSoundThm` | the specification is satisfiable disjunct by disjunct and excludes what was rejected |
| `Refinement` | `Spec => ConstructSpec` |
| `DialogImplemented` | `DialogSpec => ImplementsTraversal`, the traversal with every dialogue key by key |
| `SafeWithDialogues` | so all of the above holds with the dialogues in full |

None of the properties is inductive alone. `IInv` adds two facts: `Stack`
(`choice` has values exactly below `depth`, and questions are asked at leaves)
and `AnsweredBehind` (an answered evaluation is behind the traversal or being
discussed). The notion that carries the proof is `Passed(e)`: `e` lies in the
true subtree of a formula whose false subtree is being visited, or in the
subtree just left. Lemma `PassedStep` says how one step changes the passed set:
`IgnoreSubtree` adds what agrees with `choice` below `depth`, a leaf adds
itself, and descending, the switch to false and ascending add nothing. With it
`NothingSkipped` follows because an ignored subtree matches a pattern
(`MatchDownwards`: a pattern that matches a partial choice matches every
evaluation below it, since its literals lie below `depth`), and `AskedOnce`
because the leaf in question is not passed while all that is answered is.
`AskedWhatIsChecked` rests on the leaf having no `vuu`, so
`choiceAssertRetract` overwrites every flag whatever it was. `Refinement` maps
`CheckUnsat` to `EliminateUnsat` (or a stutter), the answers to `Accept`,
`Reject` and `EliminateRejected`, and `Finish` to `Conclude`; there
`NothingSkipped` at depth 0 gives the guard of `Conclude`. For the
dialogue the invariant adds `Selected`: the confirmation is asked with a
non-empty selection, which is why no empty pattern is added.

**EvalIterator_proofs** (assumptions: those of SpecCheck, and `VocabSize > 0`,
since `nextEvaluation` reads `choice[0]` first of all). `TypeCorrect`, `TreeCovered`,
`ModelBelongs` and `NoneGivenTwice`, from `IInv == TypeOK /\ Cursor /\
PassedCovered /\ GivenPassed /\ ModelOfChoice`. `Cursor` says what `depth` and
`choice` have to do with each other: values exactly up to `depth` at a leaf or
when moving up, below it when moving down. The argument is that of SpecCheck,
but the iterator gives up its stack at each return and must find its way with
`depth` alone: `Passed(e)` is stated from the cursor, and `PassedStep` shows that
one turn of the loop passes the subtree it skips, the leaf it leaves, or
nothing. `CoversTree` needs only that what is passed was given or is covered by a
pattern, `GivesNew` that what was given is passed, and `PatternsStay` that the
patterns which arrive between two calls undo neither.

**MakeAdequate_proofs** (assumptions: `EquivSize`, `VocabSize \in Nat`,
`EquivOf` and `VocabOf` map worlds to evaluations). For all pairs of
vocabularies, judgements, cores and models:

| theorem | |
|---|---|
| `TypeCorrect` | `Spec => []TypeOK` |
| `JudgedExactlyOnce` | at the verdict each satisfiable equivalence evaluation has been judged exactly once |
| `VerdictRight` | the verdict "adequate" is right |
| `AcceptedAdmitted` | corrections admit what the user accepted |

`Inv` follows both traversals and the verdict. What they have in common is
stated once, of whichever vocabulary is being traversed: `Stack`, and that no
pattern eliminates an evaluation with a model (`CoresUnsat`), so that what a
leaf or an ignored subtree passes is known (`PassedStep`). The first traversal
adds that judged and passed are the same for evaluations with a model
(`EquivProgress`), which at its end gives `AllJudged`. The second adds that the
sides of a passed evaluation with a model have been collected if there are two
kinds of them (`VocabProgress`). Here the invariant has to say something the
finding `make_adequate_sides` would lead one to expect: since the query
does not relate models to the evaluation at hand, what is collected is every
side, in order (`SidesShape`). The loop collects them one by one by a choice of
minimum; lemma `AllSides` shows by a least counterexample that none is
left out. `VerdictRight` follows, because nothing collected means that the user
gave only one answer, and so does `AcceptedAdmitted`, because only when all
sides are collected in order do the two counters of `computePrintCorrection`
agree.

**TheoryReader_proofs** (assumptions: `Files` are sequences of productions that
begin with a declaration or an error, `OptimisedBuild \in BOOLEAN`).
`ReadTableSound`, `ReadIdsStay`, `ReadIndexSound` and `ReadTyped`, for every
file: lengths, nesting and errors are not bounded. `ReaderInv` is that the theory is `Good` (a typed table in
which an operand has a smaller id, a name's id is the variable of that name,
the literals are listed once each), that the ids held in `vals` name nodes, and
that there is a node before anything but a declaration is completed. The last
part is what the recovery with the id 0 rests on. The lemmas go up in three
layers: what an append, a new variable, a new literal and a changed flag do to
a sound table; what each handler does (`Extends`, `Yields`); what each production
does to the stack (`ItemKeeps` .. `RestKeeps`). For the index terms a second
invariant, `Right`, is carried along: the index of every array access is an
index term, of the universal ones if the access is universal, and a universal
term has a universal part (`IndexedIn`); sizes and bounds of arrays are
nodes (`BoundsIn`); the fields hold ids (`FieldsIn`). The flag of a variable may
change when a quantifier binds it, long after the terms of the body were
entered, so the invariant has to say that a variable is never an access.
`getUVars`, which collects the variables of a term, ends because operands have
smaller ids than the node they belong to.

**TheoryMain_proofs** (the assumptions of TheoryReader and no others: the
switches, the rules, both bounds and the length of everything are arbitrary),
from the file to the formulae:

| theorem | |
|---|---|
| `TablesSound`, `TheoryTyped`, `IndexTermsSound` | what reading keeps up, generation, propagation and instantiation keep up too |
| `MainIdsStay` | no step changes what an id stands for |
| `VocabularySound` | what is generated are relations the rules allow, within the bound, and every two variables or constants that a rule relates have theirs |
| `ElementsSound` | the accesses and, constants aside, what relations connect to them are elements, nothing else is, and no index term but a constant is compared with one |
| `QuantFreeSound` | each quantifier-free formula is a clause or an instance of one, no text twice; every index term has its instance of a clause with one occurrence |

`MainInv` says of every stage that the theory is `Fine`, and what the stage has
achieved: `ReaderInv` while reading, nothing generated before `generate`
(`Unmade`), `GeneratedAll` after it, `ExactElements` after the passes, and
`Freed` between two clauses, which says that the quantifier-free formulae so far
are instances, that the clauses behind are `Covered`, and that no text occurs
twice. `Fine` is `Good` and `Right` of the reader and a third part the reader
had no need of, `Settled`: the operands a node of each type has (`Shape`; without
it cloning would read past them), that a variable or literal begins and ends in
itself (`Own`), and `Linked`, where the element flags come from. Flags are set by
three parts of the code at times of their own: an access has its flag when made, a
relation passes it on when made, and the passes carry it further. `Linked` asks
for the weakest thing that survives all three: every set that has the accesses
and is closed under relations has the elements. That is half of `ExactElements`,
which is `ElementsConnected` without the exception of constants, as the code makes
none; the other half is that a pass which marks nothing leaves nothing to be marked
(`Quiet`). That there is such a pass among the `Len(nodes) + 1` of the model is
a counting argument: every other pass adds an element (`PassDone`), and there are
no more elements than nodes. `Reached` is shown to be closed in the same way
(`ReachedClosed`, `ReachedLeast`).

All loops are taken through one induction: `Turns` is the loop whose turn is
chosen by a name (`Turn`), `TurnsAre` shows that it is defined, and each loop
of GenVocab is a case of it. Generation carries `Tiers`, that the terms of tier `n`
have `n` operations, along three nested loops; `Met` says that a rule has its
formula already, perhaps with the operands swapped. Recursions along a term
(`Operations`, `Text`, `Occurrences`, `Instances`) are defined because operands have
smaller ids (`IdInduction`), and no added node changes them. For cloning, the
stack `ids` holds after each occurrence an instance of the nodes that still wait for
their parent (`Pushed`, `Clones`); what a handler returns is a node composed of the
two operands, these swapped, or `true` (`Composes`), which is what `Instances` allows.
`Combinations` are exactly the increasing choices (`Row`, `PlacesIn`), whence a clause
with one occurrence meets every index term.

**Robdd_proofs** (assumptions: `NumVars \in Nat`, `Limit \in Nat`,
`Limit >= 2`, `IntBits \in Nat`, `IntBits >= 2`). For every number of
variables, length of the node array and width of ints, and every sequence of
calls of `make` and `apply`:

| theorem | |
|---|---|
| `TypeCorrect`, `StaysReduced` | the store stays typed and reduced, whichever calls are cut short by a full array |
| `StaysBdd` | every node stays valid (`ValidNodes`, the loop of `is_bdd`), and `is_bdd` as a whole fails exactly when the array is full |
| `MakeReturnsNode`, `NodesRemain` | `make` returns the node asked for; a node keeps its index |
| `CanonicalForm` | two nodes with the same models are the same node |
| `ApplyRight` | `apply` returns the node of the function applied, or aborts |
| `SatCountRight` | `satcount` is the number of models, or reports that it exceeds an int |
| `PrintedRight` | `allsat` prints every model once and nothing else, `onesat` a model |

`Good(b)` is the invariant, of any BDD `b` and not of the variable only, since
the diagrams in the middle of a call of `apply` have it too: nodes are typed and
ordered, and the hash table holds the inner nodes and nothing else, each once. What
`is_bdd` in the code does not check, that no node occurs twice, needs the table
to be exact. `Extends(b, c)` says that whoever holds a node of `b` finds it in `c`
with the same meaning (`ValueStays`), which is why a memo table filled before the
diagram grew stays right (`MemoStays`) and an index computed for the low branch
survives the computation of the high one (`BodyAnswers`). `CanonicalForm` is by
induction from the terminals upwards (`BottomUp`): two nodes with the same test
have branches with the same models (`SameTest`), and a node that tests an earlier
variable than another cannot be indifferent to it (`Indifferent`). For
`SatCountRight` the counts below a node are shifted by the levels skipped; a count
capped at `INT_MAX` stays right under sums and shifts, because the shift compares
with a quotient (`Division`, `ShiftCapped`, `PlusCapped`). `PrintedRight` has one
invariant for the array of marks that `allsat` fills and does not always
clean: what matters of it lies before the level of the call.

The same module has the theorems about the hash table the store is kept in
(assumptions: `elem_key`, `size`, `hash` of their types, `NULL_elem` no element):
`TableTypeCorrect`, `IsTable`, `KeysAreDistinct`, `TableRefinement` to TableMap,
from `TableInv == TableTypeOK /\ is_table /\ KeysDistinct`. Distinct keys make
`chain_find` independent of the position found (`FindUnique`), and then an
insertion changes the result of `table_search` for its own key only.
`EntriesUnique` is the other half of the bridge: the store never holds two
elements for one node, so the set `H` of its elements is such a map.

**Simplification_proofs** (assumptions: `VocabSize \in Nat`, `AcceptedSets` is a
set of sets of evaluations). For every vocabulary, every set of accepted
evaluations and every failure of a file or a command:

| theorem | |
|---|---|
| `SimplifyAnswers` | the answer of Espresso's `simplify` covers exactly what its list covers, with no more cubes than it; for a list of evaluations no cube lies within another |
| `TypeCorrect` | `Spec => []TypeOK` |
| `RowsRight` | the rows handed to ABC admit nothing that was not accepted and, unless a failure lost something, all that was |
| `RowsAreSimpler` | they are no more than the accepted evaluations, and none implies another |
| `EquationRight` | the formula shown admits the same, as long as every name of it was read |

`simplify` calls itself for lists of which more of the cube is cut away, so
the induction is on what is left of the cube (`Size`). Lemma `SimplifyEquation`
turns the recursive function into the equation of the code, and `SimplifyStep`
goes through its cases: the trivial lists, factoring, unate lists, and the split
in two halves with their merging and lifting. `Answers` has three parts, and
none can be shown alone: `MergeRight` needs that no cube of a half lies
within another to know that a lifted cube replaces just the two it came from.
The orders in which cubes are sorted are arbitrary strict total orders to the lemma
`Arrangement`; `descend` and the order of the truth table are two cases of it.
The printers and the readers are loops, which lemma `Iteration` unfolds. `IInv`
ties each file, and what was read of it, to the one answer for the accepted
evaluations, as long as nothing was lost.

**SourceTool_proofs**, about the two programs of the Clang tool.

`LinesAreKept` (assumptions: `Sources` are texts with places in them: the
stops and blanks of a line are columns of it, the function has a column;
`MaxCount \in Nat`), for every number of lines, declarations and
returns, wherever they are. A lemma that is needed first is that a list can be
sorted (`SortedRight`, by insertion), since `sort` is modelled as a choice of an
arrangement in order. `Covers(pieces, n, from, to)` says that pieces stand for
the columns `from .. to` of line `n`, each once and in order; pieces for adjoining
columns can be joined (`CoversBoth`). `IInv` says of a text in which all places
are where they can be replaced (`WellPlaced`) that the lines behind are covered
(`Written`), that nothing is thrown (`NothingThrown`: every position is within its
line), that the line being written is covered up to `prevDeclEnd`, with the
places that remain behind it (`Buffer`), and that no place that remains is on an
earlier line (`Progress`). The last holds of the declarations because they
were sorted, and of the returns because `WellPlaced` says so: the code does not
sort them. When the return type of the function is cut out of a line already
rewritten, the columns counted in the rewritten line are those of the text only
because nothing before the type was replaced, which `Buffer` has to
say as well (`Prefixed`, `TypeReplaced`).

`ExtractionIsExact` (assumptions: the expressions are closed under their parts
and have a height that decreases towards them, as trees have; `Units` are
sequences of functions; no declared type is called `ArrayIndex` or `ArrayBound`,
for a program with a type of such a name would be misread by the code too),
for every function and whatever order its operands are evaluated in.
`Holds(tt, I, N, B, U, O)` states the property of any theory and any sets of
names: the indices are `I`, the names `N` are known, the operations are `B` and
`U`, the outputs `O`. For each operation on the theory a lemma says what it adds
to those sets (`AddHolds`, `IndexHolds`, `NotedHolds`, `AddOpHolds`,
`OutputHolds`), and `HandleGathers`, by induction on the height, that
`HandleOperand` adds exactly what the expressions in its operand say. It also
says that the variable returned is never of the type `ArrayIndex`, whatever the
table holds for its name; hence no comparison marks a bound (`BoundNothing`), and
the two orders of evaluation give the same. Lemma `Recursion` shows, for any
recursive function that looks only at arguments of lesser height, that there is
one; `Within`, `NameOf`, `HandleOperand` and the loop over the parameters are four
cases of it.

**Induction over the data.** The induction theorems of the library take an
operator, which the provers at hand cannot instantiate. Where a recursive function
is reasoned about, the set of the numbers for which the claim holds is given a
name, and lemma `Induction` (or `BottomUp`, from the terminals of a diagram) shows
from the least element outside it (`LeastNat`) that there is none. That the
recursive function is defined at all is shown the same way, by functions that
satisfy its equation up to a bound (`NodeRecursion`, `RecExists`,
`SimplifyEquation`, `Recursion`).

**Only model-checked.** `Termination`, `PassEnds` and `Ends`: liveness under
fairness is out of the prover's reach. Every invariant and every action property
of a passing run is stated by a theorem.

## 6. What the code does differently from what it says

Each of these is a run that expects a violation.

* `make_adequate_sides`, `scma/maImpl.cpp:292`. The query that should relate a
  model to a vocabulary evaluation has no assumptions, so every evaluation
  collects every side. The verdict "adequate" stays right (`AdequateVerdict`),
  the verdict "inadequate" does not.
* `make_adequate_true`, `scma/maImpl.cpp:359`. A correction with one disjunct is
  disjoined with `true` and admits what the user rejected.
* `robdd_full`, `scma/robdd/robdd.cpp:205`. `robdd.h:30` has `size < limit`, `is_bdd`
  tests it, and `make` ensures `is_bdd(B)`; but `make` fills the last slot and
  leaves `size == limit`. With `-DDEBUG` that call aborts at its ENSURES. The other runs
  go on as the build without it does, and the next new node aborts for want of
  space. That all other clauses of `is_bdd` hold is `ValidNodes`.
* `theory_constants`, `scma/scGenVocab.cpp:304`. The comment of
  `propagateElementAttribute` makes the second operand an element `unless it was a
  constant` (line 251); the code does not ask. In the run `2 < i` and `i >= a[0]`
  make 2 an element. `ConstantsSpared` speaks of what the passes do; that
  `handleTermRelationalTerm` marks the constant in `a[i] = 0` when the relation is made
  is nowhere said to be otherwise. One consequence is that a clause such as
  `a[0] = 0` ends the program in `exit(-1)`, as 0 is an index term.
* `simplify_line`, `scma/scImpl.cpp:1712`. The reader of the equation begins every
  line in the same state, and Espresso breaks a line before whatever would pass
  column 72 (`scma/espresso/cvrout.c:241`). A name that ends a line is dropped
  from the formula shown to the user.

Met while modelling, without a run. In the traversals:

* `!choice[i] == vuu` (`scma/scImpl.cpp:955`) negates the value, not the
  comparison, so the ROBDD of remaining evaluations is emptied by the first
  unsat core. Modelled as it is. No harm is done, as `timedout` keeps
  `traverse` in the branch that does not read it (`scma/scma.h:291`).
* Without `-t` the built-in vocabulary is promised, but `th` is NULL and a
  message reads its name (`scma/scImpl.cpp:452`): the action `NullTheory`.
* In the dialogue, after one R or `-2`, "any other key" does not continue but
  starts another round (`scma/scImpl.cpp:248`).
* `-3` in the dialogue does not exit it (`scma/scImpl.cpp:189`; the prompt is at
  line 150): it clears the selection, which then goes on. Modelled as it is.
* The comment at `scma/traverse.cpp:162` argues that the false branch need not be
  checked when the true branch matches a pattern; two patterns with both values
  of the formula refute it. The evaluation is given in vain; `CoversTree` and
  `GivesNew` hold all the same.
* `nextEvaluation` called again without `reset` after a pass gives partial
  evaluations (`scma/traverse.cpp:217`), although `traverse.h:30` speaks of
  repetition. The modelled client resets or stops.
* `my_oneSAT` returns the values of the tested variables without saying which
  (`scma/scImpl.cpp:1505`); only the unreachable branch of `traverse` calls it.
* `computePrintCorrection` indexes `eqvSides` with its own counter, not with
  `idxEqvEvalVec` (`scma/maImpl.cpp:346`). Modelled as it is; unnoticed as
  long as every side is collected, in order.
* `printUnsatCore` sizes its pattern by the vocabulary, in the traversal of the
  equivalence theory too (`scma/scImpl.cpp:892`): a core with a formula past that size
  is written behind the block (line 929). The write may crash the program
  (`PatternOverrun`) or do nothing (`CheckUnsat`).

In the ROBDD library:

* BDD nodes, elements and counters are allocated with the size of a pointer
  (`scma/robdd/robdd.cpp:194`). The model gives each node its fields.

In reading and generation, all modelled as they are:

* When the outermost rule does not match, the theory is NULL, the reader says
  yes all the same, and `main` uses it (`scma/sc.cpp:50`): status `crashed`.
* After an error inside a term or formula the parser goes on with the id 0
  (`scma/scmaParser.cpp:5731`), so a vocabulary of other formulae than the file's
  is read.
* `t = t` is given up halfway and leaves a node without operands in the table
  (`scma/scGenVocab.cpp:263` reads them): status `undefined`.
* A quantifier marks its variable as universal after the terms of its body
  copied the flag (`scma/scTheory.cpp:734`); hence `IndexSound` states one direction.
* The bound 0 of operations makes the generation recurse without end
  (`scma/scGenVocab.cpp:203`): status `endless`. The bound B applies to terms, so a
  formula has up to 2(B-1)+1 operations.
* Arithmetic on arrays is left out by a test that asks for `barray` of the
  second operand twice and of the first never (`scma/scGenVocab.cpp:46`), so an
  array of Booleans can be a first operand.
* Index terms for several occurrences are chosen in increasing order only
  (`scma/scGenVocab.cpp:518`); `QuantFreeExact` demands all instances only of
  clauses with one occurrence.
* `handleRemove...` erase from the middle of `nodes` while the maps keep the old
  ids (`scma/scTheory.cpp:302`, `:685`); nothing calls them.

In the Clang tool:

* The last class test of `HandleOperand` is an assignment
  (`src/TypeTheoryGenerator.cpp:215`), so any other class of expression is cast
  to a unary operator: status `undefined`. A `return;` dereferences a null
  pointer (line 131): status `crashed`.
* `UpdateToBound` is never effective: the type compared with is that of a fresh
  `Variable` (`src/TypeTheory.cpp:59`).
* `isInput` and `isOutput` of most variables are read uninitialised.
* The two declarations of `int a, b;` begin at the same column, so the text
  before the second has a negative length, which `substr` takes for all there is
  (`src/InstrumentationFunctions.cpp:331`). And a place out of order, in the
  returns or before the first line, stops all replacements after it. A position
  behind the end of its line, column 0, and a return of less than seven characters
  make `substr` throw, which nothing catches: the action `out_of_range`.
  `LinesKept` names what it takes for granted in `WellPlaced`; then nothing is thrown.

In the exchange with Espresso:

* Results of `system` are not looked at (`scma/scImpl.cpp:2045`): when Espresso
  does not run, the empty file is read as a specification without rows, and
  what the user accepted is lost. `RowsExact` says what is left then.
* An empty specification has no equation (Espresso exits with 1), and its SMT
  text is blank.
* After an answer that is none of R, I and X the prompt comes again without the
  file being opened again (`scma/scImpl.cpp:1556`, `:1585`).
* The names of the files for Espresso carry the process id; `abccmd` does not.

## 7. Not modelled

* **Vendored and generated code.** Four fifths of the repository's lines are the
  headers of Z3 (7 500), the tables and automata ANTLR generated for
  `scma.g` (14 000, of which the rule functions of the parser are modelled at
  the level of completed productions), the headers of the ANTLR runtime
  (6 300), and Espresso (some 18 000). Of Espresso nothing beyond `simplify` and the printers is reached from
  the tools. Modelling the rest would say nothing about Verification++.
* ABC and Z3, which are external: Solver says what is assumed of Z3, and of ABC
  only what it is given matters.
* Of `scTheory.cpp` the removal handlers, which nothing calls, and printing;
  `grammar.cpp` and `variable.cpp`, which the programs do not use.
* The SMT text `readSimplifiedFormulaKiss` builds, which nothing reads, and
  `abcSimplifyRNA`, which nothing calls and which reads files it never wrote.
* `createMain` and the wrapper classes of the instrumentation, and the wording
  `instrumentVariable` gives a declaration: fixed text.
* Options, timers, checked allocation, contracts (but for `is_bdd`), examples of the BDD library: no
  state beyond what the models start from. `th` given or not is the initial
  choice in SpecCheck.
* The bound of 1024 retractable constraints (`scma/scz3helpers.cpp:368`): the
  program exits, and no instance TLC can explore comes near.
* The branch of `traverse` that picks evaluations from the ROBDD: `timedout`
  is set to true before the traversal and never cleared, so it is dead code.
* `satcount` shifts by `k >= 32` only for the count 0 and more than 32
  variables; that C leaves such a shift undefined is not modelled.

## 8. Plan

Modelled, in this order: (A) Vocabulary, Solver, SpecConstruct, SpecCheck and
their proofs; (B) VocabDialog, EvalIterator; (C) MakeAdequate; (D) RobddStore,
Robdd and the proofs of the store; (E) TableMap, HashTable and their proofs,
which are now beside those of the store;
(F) SCTheory, TheoryReader, GenVocab, TheoryMain; (G) TypeTheory, Instrument;
(H) the proofs of EvalIterator, VocabDialog, MakeAdequate and TheoryReader;
(I) Espresso, Simplification; (J) the proofs of the recursive operations
of Robdd, of the second traversal of MakeAdequate, of the index terms of the
reader, of the simplification, of the instrumentation and of the extraction;
(K) the loops and recursions of GenVocab as functions, and the proofs about
injection, generation, propagation and instantiation.

Left:

1. `H` of RobddStore as an instance of TableMap: `EntriesUnique` shows that it is
   a map, the calls of `make` are not yet mapped to the actions of one.
2. The composition of SpecCheck, whose accepted evaluations are the table
   that Simplification writes, with TheoryMain, whose `vocab` is its vocabulary.
3. Violation runs for the entries of section 6 that have none, in place of the
   ones that have told what they had to tell.
