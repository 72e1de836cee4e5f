SPECIFICATION Spec
CONSTANTS
    None = None
    Wild = Wild
    DeviceCount = 2
    BlockCount = 2
    Capacity = 3
    VarCount <- MCTwoVariables
    StatusBlock <- MCStatusBlock
INVARIANTS
    EveryVariableHasNode
