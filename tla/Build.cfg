SPECIFICATION BuildSpec
CONSTANTS
    PageSize = 8
    MaxSize = 1000000
    MaxDist = 10000000
    None = None
    Settings <- StaticSettings
    Queries <- StaticQueries
CHECK_DEADLOCK FALSE
INVARIANT TreesComplete
INVARIANT ListsLaidOut
INVARIANT ReadsWhatWasBuilt
INVARIANT ReturnsNearest
INVARIANT IteratorComplete
PROPERTY NoneCutOff
