SPECIFICATION Spec
CONSTANTS
    Addresses = {a, b, c}
    Limits = {0, 2}
    MaxLines = 5
    PipeCapacity = 2
    BatchSize = 2
CHECK_DEADLOCK FALSE
INVARIANTS
    SuccessComplete
    RowsSound
    ExitJudged
PROPERTIES
    RunReturns
