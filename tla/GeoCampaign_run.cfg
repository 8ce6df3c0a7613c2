SPECIFICATION FairSpec
CONSTANTS
    ProtocolOrder <- MCProtocolOrder
    Repeats <- MCRepeats
    OrderedGroups <- MCOrderedGroups
    ScanFiles <- MCScanFiles
    MaxFaults <- MCMaxFaults
    SkipOS <- MCSkipOS
    MaxScans = 7
INVARIANTS
    PublishedSound
    CampaignAgreed
    OSVerdictSound
PROPERTIES
    FailureHolds
    Finishes
