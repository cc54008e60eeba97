SPECIFICATION Spec
CONSTANTS
    Conns = {c1, c2}
    Requests = {r1}
    Keys = {x1, x2}
    NoKey = NoKey
    NoConn = NoConn
    MaxQueries = 2
    MaxInbox = 1
INVARIANTS
    TypeOK
    CancelStateExact
    OnlyAskedVictims
    WatcherTakesNothing
PROPERTY QueryEnds
CHECK_DEADLOCK FALSE
