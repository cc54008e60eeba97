SPECIFICATION Spec
CONSTANTS
    Clients = {k1, k2}
    Conns = {c1, c2}
    Savers = {s1}
    Loaders = {l1}
    v0 = v0
    v1 = v1
    f1 = f1
    f2 = f2
    Contents = {v0, v1}
    Images = {f1, f2}
    DataOf <- MCDataOf
    Empty = v0
    MaxIdle = 1
    NoConn = NoConn
    NoContent = NoContent
    NoActor = NoActor
    NoImage = NoImage
INVARIANTS
    TypeOK
    NoTornSnapshot
    StableReads
    PoolSound
    InfoMatchesData
PROPERTIES
    AtomicSnapshots
    CallsReturn
CHECK_DEADLOCK FALSE
