SPECIFICATION Spec
CONSTANTS
    MaxRows = 2
    Filtered = FALSE
    Percents = {50}
    Minimum = 1
    MaxRuns = 2
INVARIANTS
    RerunResumes
