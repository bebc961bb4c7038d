CONSTANTS
    VocabSize = 2
    EquivSize = 3
    World <- Order
    EquivOf <- OrderEquiv
    VocabOf <- CoarseVocab
    SolverMayGiveUp = FALSE
SPECIFICATION Spec
INVARIANTS CorrectionExcludesRejected
CHECK_DEADLOCK FALSE
