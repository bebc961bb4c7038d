CONSTANTS
    MaxPatterns = 2
    VocabSize = 3
    Satisfiable <- OrderAndEquality
    SolverMayGiveUp = TRUE
SPECIFICATION Spec
INVARIANTS TypeOK NothingSkipped AskedOnce AskedWhatIsChecked PatternsJustified SpecificationSound
PROPERTIES ConstructSpec Termination
CHECK_DEADLOCK FALSE
ACTION_CONSTRAINT FewPatterns
