SPECIFICATION Spec
CONSTANTS
    None = None
    Wild = Wild
    DeviceCount = 2
    BlockCount = 2
    Capacity = 2
    VarCount <- MCFewVariables
    StatusBlock <- MCStatusBlock
INVARIANTS
    InterfaceFollowsNodes
    ServerFollowsHandles
    NodesAtAddresses
PROPERTIES
    StatusActsFresh
    Presents
    StatusPrevails
    StopEnds
