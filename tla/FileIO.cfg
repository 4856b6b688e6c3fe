SPECIFICATION Spec
CONSTANTS
    Keys = {k1, k2}
    Threads = {t1, t2}
    Blocks = {b1, b2, b3, b4}
    StartBlocks = {b1, b2, b3, b4}
    a = a
    b = b
    Data = {a, b}
    PageSize = 2
    BlockLimit = 4
    BufferLimit = 4
    GrowthBlocks = 1
    GrowthPercent = 5
    DisableCheckpoint = FALSE
    WriteFailures = TRUE
    Crashes = TRUE
    SaveFailures = FALSE
    PutValues <- TaggedPuts
    MergeValues <- TaggedMerges
    Blank = Blank
    None = None
    NoBlock = NoBlock
SYMMETRY Symmetry
INVARIANTS
    BlocksAccounted
    CheckpointIntact
PROPERTIES
    Implements
VIEW MCView
CHECK_DEADLOCK FALSE
