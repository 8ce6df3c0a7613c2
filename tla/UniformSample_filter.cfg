SPECIFICATION Spec
CONSTANTS
    MaxRows = 7
    Filtered = TRUE
    Percents = {20, 60, 100}
    Minimum = 2
    MaxRuns = 3
INVARIANTS
    PublishedExact
    UsableSample
    DrawsFromRows
    Uniform
