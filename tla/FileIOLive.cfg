SPECIFICATION LiveSpec
CONSTANTS
    Keys = {k1, k2}
    Threads = {t1, t2}
    Blocks = {b1, b2}
    StartBlocks = {b1}
    a = Blank
    b = b
    Data = {Blank}
    PageSize = 2
    BlockLimit = 2
    BufferLimit = 4
    GrowthBlocks = 1
    GrowthPercent = 5
    DisableCheckpoint = FALSE
    WriteFailures = TRUE
    Crashes = FALSE
    SaveFailures = TRUE
    PutValues <- ShortPuts
    MergeValues <- PlainMerges
    Blank = Blank
    None = None
    NoBlock = NoBlock
PROPERTIES
    OperationsEnd
CHECK_DEADLOCK FALSE
