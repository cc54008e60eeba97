SPECIFICATION ExtSpec
CONSTANTS
    StmtNames = {unnamed, s1}
    PortalNames = {unnamed, p1}
    Unnamed = unnamed
    None = None
    qTable = qTable
    qEcho = qEcho
    qLookup = qLookup
    qWrite = qWrite
    Queries <- MCQueries
    Params <- MCParams
    Shapes <- MCShapes
    Lookups = {qLookup}
    Formats <- MCFormats
    ParamTypes = {"unspecified", "int4"}
    MaxParses = 2
    MaxPortals = 1
CHECK_DEADLOCK FALSE
INVARIANT FormKept
