SPECIFICATION MCSpec
CONSTANTS
    Units <- MCUnits
    FunctionUT = "f"
    Expressions <- MCExpressions
    height <- Height
    Sources <- MCSources
    MaxCount = 100
    \* Every set of accepted evaluations of three formulae.
    VocabSize = 3
    AcceptedSets <- AllSets
INVARIANTS
    ExtractionExact
    LinesKept
    RowsExact
    RowsSimpler
    EquationExact
\* All three end.
CHECK_DEADLOCK FALSE
