SPECIFICATION MainSpec
CONSTANTS
    Files <- FilesWithConstant
    OptimisedBuild = FALSE
INVARIANTS
    ConstantsSpared
