SPECIFICATION ImportSpec
CONSTANTS
    Files <- MCFiles
    MaxRows = 4
INVARIANT TransactionAsBefore
