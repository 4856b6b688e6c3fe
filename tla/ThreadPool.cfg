SPECIFICATION LiveSpec
CONSTANTS
    Workers = {w1, w2}
    Jobs = {j1, j2, j3}
    Spawning = TRUE
    None = None
INVARIANTS
    CountedWhileRunning
PROPERTIES
    EveryJobRuns
    DestructorReturns
CHECK_DEADLOCK FALSE
