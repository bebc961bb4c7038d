CONSTANTS
    VocabSize = 2
    EquivSize = 3
    World <- Order
    EquivOf <- OrderEquiv
    VocabOf <- CoarseVocab
    SolverMayGiveUp = TRUE
SPECIFICATION Spec
INVARIANTS EachJudgedOnce AdequateVerdict CorrectionAdmitsAccepted
PROPERTIES Ends
CHECK_DEADLOCK FALSE
ACTION_CONSTRAINT GivesUpEarly
