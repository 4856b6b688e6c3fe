SPECIFICATION Spec
CONSTANTS
    Adders = {a1, a2}
    NeighborhoodSize = 3
    Settings <- MCSettings
CHECK_DEADLOCK FALSE
INVARIANTS
    
    NoDeletedResult
    IteratorOnce
