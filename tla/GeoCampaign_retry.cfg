SPECIFICATION Spec
CONSTANTS
    ProtocolOrder <- MCProtocolOrder
    Repeats <- MCRepeats
    OrderedGroups <- MCOrderedGroups
    ScanFiles <- MCScanFiles
    MaxFaults <- MCMaxFaults
    SkipOS <- MCSkipOS
    MaxScans = 7
INVARIANT
    FailureRetryable
