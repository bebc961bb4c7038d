SPECIFICATION MainSpec
CONSTANTS
    Files <- MCFiles
    OptimisedBuild = TRUE
INVARIANTS
    TypeOK
    TableSound
    IndexSound
    GeneratedSound
    ElementsConnected
    QuantFreeExact
PROPERTIES
    IdsStay
