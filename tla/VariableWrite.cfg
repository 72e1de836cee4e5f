SPECIFICATION Spec
CONSTANTS
    Client = Client
    Poller = Poller
    None = None
    Width = 2
    Value <- MCValue
INVARIANTS
    WordsTogether
    SuccessIsStored
PROPERTIES
    CacheCatchesUp
    WritesAnswered
