SPECIFICATION ProbeSafety
CONSTANTS
    ConnectionCount = 2
    RequestsPerConnection = 2
    MeasurementMode = "rt_based"
    TcpEstablishConnection = TRUE
    Receivers = {rA, rB}
    LooseConnections = 1
    LooseRequests = 2
    MinimumReplies = 1
    Probers = {p, q}
    Capturers = {"c"}
    WordSize = 16
SYMMETRY ProberSymmetry
INVARIANTS
    OneOutstanding
    ProperConversation
    RepliesAttributed
    LooseSound
PROPERTIES
    SilentAfterVerdict
