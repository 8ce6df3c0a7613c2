SPECIFICATION ProbeSpec
CONSTANTS
    ConnectionCount = 2
    RequestsPerConnection = 2
    MeasurementMode = "fixed_interval"
    TcpEstablishConnection = TRUE
    Receivers = {rA}
    LooseConnections = 2
    LooseRequests = 2
    MinimumReplies = 3
    Probers = {"p"}
    Capturers = {"c", "d"}
    WordSize = 16
INVARIANTS
    SavedComplete
    CountedOnce
    NoConnectionLeaked
    ProperConversation
    AckQueueFits
    LooseSound
PROPERTIES
    FrozenResult
    Termination
