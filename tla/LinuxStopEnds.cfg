SPECIFICATION Spec
CONSTANTS
    DeviceCount = 1
    Last = 1
    None = None
    Garbage = Garbage
PROPERTY
    StopEnds
