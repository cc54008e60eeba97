SPECIFICATION ReplSpec
CONSTANTS
    Lines <- AllLines
    MaxLines = 2
    MaxPresses = 3
    Texts <- MCTexts
    MaxTexts = 3
    Files <- MCFiles
    MaxRows = 4
    Tables <- MCTables
    AutoInc = {"orders"}
    MaxRow = 2
    MaxCommits = 2
INVARIANTS
    ReplTypeOK
    StopsWhatWasRunning
    RunsScript
    KeywordsExact
    ImportAtomic
    TablesWhole
    TransactionDumpExact
PROPERTIES
    PressTakesEffect
    CommitsNothingInside
CHECK_DEADLOCK FALSE
