CONSTANTS
    NumVars = 3
    Limit = 6
    IntBits = 4
    NULL = NULL
SPECIFICATION BddSpec
INVARIANTS is_bdd
CHECK_DEADLOCK FALSE
