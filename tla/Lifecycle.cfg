SPECIFICATION Spec
CONSTANTS
    Clients = {c1}
    Names = 5
    MaxHeads = 7
    NumBlocks = 9
    Settings <- MCSettings
    None = None
CHECK_DEADLOCK FALSE
INVARIANTS
    NothingLost
    NothingBack
    IdsMatch
