SPECIFICATION Spec
CONSTANTS
    NumSteps = 2
    BulkSteps = {2}
    RetryFlags = {TRUE, FALSE}
    MaxStamp = 3
INVARIANTS
    IdentityUsedOnce
    NothingLost
    NoFalseAlarm
PROPERTIES
    AdoptsOnce
