SPECIFICATION SessionSpec
CONSTANTS
    Clients <- MCClients
    MaxBatch = 2
    MaxDepth = 2
    StmtNames = {unnamed, s1}
    PortalNames = {unnamed, p1}
    Unnamed = unnamed
    None = None
    qTable = qTable
    qEcho = qEcho
    qLookup = qLookup
    qWrite = qWrite
    Queries <- MCQueries
    Params <- MCParams
    Shapes <- MCShapes
    Lookups = {qLookup}
    Formats <- MCFormats
    ParamTypes = {"unspecified", "int4"}
    MaxParses = 2
    MaxPortals = 1
INVARIANTS
    SessionTypeOK
    StatusExact
    BusyUnlessUndone
    NoHandleLeak
    PromiseKept
    RunsBoundUnlessReplaced
    EchoInForm
    CodesFit
PROPERTIES
    OnlyEndInFailed
    SkipUntilSync
    DescribeLeavesNoTrace

