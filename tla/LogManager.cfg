SPECIFICATION Spec
CONSTANTS
    Threads <- MCThreads
    LogFileCount = 2
    LogFileSize = 2
    Active = Active
    MaxLines = 9
    LastSecond = 3
INVARIANTS
    StreamOpenWhenUsed
    LinesAccounted
    FilesBounded
PROPERTIES
    OldestGoFirst
    CallsReturn
