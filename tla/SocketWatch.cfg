SPECIFICATION Spec
CONSTANTS
    Ids = {1, 2, 3}
    Kind <- MCKind
    Filters <- MCFilters
    Limit = 2
INVARIANTS
    
    ClosedMeansGone
PROPERTIES
    PassesCatchUp
CHECK_DEADLOCK FALSE
