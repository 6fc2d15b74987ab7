\* Two faults of the evidence storage, a gate that is started again once, 2 to 4 roles,
\* a child that may never end.
SPECIFICATION FairSpec
CONSTANTS
    RoleCounts = {2, 3, 4}
    Reviews = 4
    MaxModelCalls = 20
    MaxInvocations = 24
    ChildMayDeny = TRUE
    Tears = TRUE
    MaxFaults = 2
    MaxStarts = 2
INVARIANTS
    TypeOK
    DispatchIsGoverned
    PreExecutionVerdict
    EvidenceSound
    ArchiveComplete
    GroundingTruthful
    ExpectedChainFits
PROPERTIES
    RunEnds
    ImplementsSingleExecution
CHECK_DEADLOCK FALSE
