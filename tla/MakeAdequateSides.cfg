CONSTANTS
    VocabSize = 2
    EquivSize = 3
    World <- Order
    EquivOf <- OrderEquiv
    VocabOf <- CoarseVocab
    SolverMayGiveUp = FALSE
SPECIFICATION Spec
INVARIANTS SidesOfOwnModels
CHECK_DEADLOCK FALSE
