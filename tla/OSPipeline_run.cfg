SPECIFICATION FairSpec
CONSTANTS
    Tags <- MCTags
    NoTag = "no tag"
    parentTag <- MCParentTag
    IPs = {"a", "b", "c"}
    NoIP = ""
    Inputs <- MCInputs
    NoBanner = "no banner"
    Banner <- MCBanner
    ProbeWorkers <- MCWorkers
    InputCapacity = 1
    ResultCapacity = 1
    OutCapacity = 1
    BatchSize = 2
    ObservationBatch = 2
    ZGrabSenders = 2
    MaxFaults = 1
INVARIANTS
    ResolvesMostSpecific
    SuccessAccounts
    PipelineSound
PROPERTIES
    PipelineReturns
