SPECIFICATION Spec
CONSTANTS
    main = main
    opcua = opcua
    dev = dev
    var = var
    None = None
    Threads <- MCThreads
    Owners <- MCOwners
    AllocatesFor <- MCAllocatesFor
    ChecksFirst <- MCChecksFirst
    Start = 1
    End = 2
    TopAddr = 3
    BatchLimit = 2
INVARIANTS
    GrantsUnique
    MapBacked
    NicTracked
    CleanExit
    BatchPaced
PROPERTIES
    ForeignUntouched
    Dispenses
