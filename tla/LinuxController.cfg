SPECIFICATION Spec
CONSTANTS
    DeviceCount = 1
    Last = 1
    None = None
    Garbage = Garbage
INVARIANTS
    AddressesDistinct
    InterfaceFollowsNodes
PROPERTIES
    Dispenses
    SignalsServed
