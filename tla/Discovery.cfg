SPECIFICATION DiscoverySpec
CONSTANTS
    Signals <- MCSignals
    Clients <- MCClients
    Stranger = Stranger
    MaxSequence = 2
    MaxNoise = 1
INVARIANTS
    ResourcesLive
    ExitIsOrderly
    StraysOnlyAtStop
    AnswersAsked
PROPERTIES
    StopEnds
    AnnouncesLive
    ClientsAnswered
