CONSTANTS
    NumVars = 3
    Limit = 6
    IntBits = 4
    NULL = NULL
    ht_key <- Keys
    ht_elem <- Elems
    elem_key <- KeyOf
    size = 2
    hash <- Parity
    NULL_elem = NULL_elem
SPECIFICATION MCSpec
INVARIANTS
    TypeOK
    ValidNodes
    Reduced
    Canonical
    ApplyComputes
    SatCountExact
    PrintedAssignments
    is_table
    KeysDistinct
PROPERTIES
    NodesStay
    MapSpec
\* The program is over when make has aborted.
CHECK_DEADLOCK FALSE
