SPECIFICATION DumpSpec
CONSTANTS
    Tables <- MCTables
    AutoInc = {"orders"}
    MaxRow = 2
    MaxCommits = 2
INVARIANT DumpReproduces
