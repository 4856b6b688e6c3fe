SPECIFICATION FairSpec
CONSTANTS
    v1 = v1
    v2 = v2
    v3 = v3
    v4 = v4
    v5 = v5
    w1 = w1
    w2 = w2
    Clients = {c1}
    Workers = {w1, w2}
    Vectors = {v1, v2, v3, v4, v5}
    MaxHeads = 6
    ReassignThreshold = 1
    PoolSize = 2
    MaxVersion = 1
    NoVector = NoVector
    Settings <- MCSettings
    None = None
INVARIANTS
    UpdatesSound
    PostingBounded
PROPERTIES
    Quiesces
CHECK_DEADLOCK FALSE
