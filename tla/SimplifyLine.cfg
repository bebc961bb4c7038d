\* Eight accepted evaluations of four formulae that cannot be joined.
SPECIFICATION Spec
CONSTANTS
    VocabSize = 4
    AcceptedSets <- OddSet
INVARIANTS FormulaNamed
CHECK_DEADLOCK FALSE
