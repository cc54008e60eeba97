SPECIFICATION Spec
CONSTANTS
    Clients <- MCClients
    MaxBatch = 2
    MaxDepth = 2
INVARIANT BusyIsOpen
