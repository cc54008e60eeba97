SPECIFICATION FilesSpec
CONSTANTS
    periodic = periodic
    shutdown = shutdown
    Savers = {periodic, shutdown}
    ShutdownSaver = shutdown
    Setups <- MCServer
    NoData = NoData
    MaxVersion = 2
    Half = 8
    FooterSize = 2
    MaxDataSize = 2
    EngineSizes = {2, 3}
    DataSize <- MCDataSize
    Readers <- MCReaders
    MaxReplaced = 3
CHECK_DEADLOCK FALSE
INVARIANT ShutdownSaved
