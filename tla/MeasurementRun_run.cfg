SPECIFICATION FairSpec
CONSTANTS
    NumRows = 4
    Workers = {w1, w2}
    TargetCapacity = 1
    SaveCapacity = 1
    BatchSize = 2
    Modes = {TRUE, FALSE}
INVARIANTS
    CompleteOnSuccess
    OrderlyShutdown
PROPERTIES
    RunReturns
