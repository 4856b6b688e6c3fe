SPECIFICATION Spec
CONSTANTS
    NoResource = NoResource
    q1 = q1
    q2 = q2
    s1 = s1
    s2 = s2
    MaxRid = 6
    Queries = {q1, q2}
    Unreadable = {q2}
    Servers = {s1, s2}
    Slots = {1}
    PoolSize = 2
    MaxId = 3
    Wrap = 8
    Settings <- AllSettings
INVARIANTS CallbacksSound AggregatesAll DisconnectedIsPending
PROPERTIES EveryQueryAnswered WaitReturns
CHECK_DEADLOCK FALSE
