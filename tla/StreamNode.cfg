SPECIFICATION NodeSpec
CONSTANTS
    BlockLen = 5
    Files <- MCFiles
    Digits = {"digit"}
    PoolCapacity = 1
INVARIANTS
    NodeTypeOK
    LinesOfTheFile
    WindowIsFile
PROPERTIES
    EveryRowRuns
CHECK_DEADLOCK FALSE
