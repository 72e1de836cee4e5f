SPECIFICATION Spec
CONSTANTS
    None = None
    MaxRegisters = 5
    MaxBits = 3
    Inputs <- MCInputs
INVARIANTS
    PlanCovers
    BlocksFit
    FewestBlocks
CHECK_DEADLOCK FALSE
