CONSTANTS
    VocabSize = 2
    Satisfiable <- Evaluation
    SolverMayGiveUp = TRUE
SPECIFICATION DialogSpec
PROPERTY ImplementsTraversal
CHECK_DEADLOCK FALSE
