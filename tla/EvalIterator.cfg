CONSTANTS
    MaxPatterns = 3
    VocabSize = 3
    Satisfiable <- OrderAndEquality
    SolverMayGiveUp = TRUE
SPECIFICATION Spec
INVARIANTS CoversTree ModelOfChoice
PROPERTIES GivesNew PassEnds
CHECK_DEADLOCK FALSE
ACTION_CONSTRAINT FewPatterns HardOnly
