\* Three processes, with and without --overwrite, on a schedule of three tasks.
SPECIFICATION FairSuiteSpec
CONSTANTS
    Proposals <- MCProposals
    MaxRetries = 1
    MaxApiRetries = 1
    Plan <- MCPlan
    MaxRuns = 3
INVARIANTS
    SuiteTypeOK
    RowsFollowPlan
    RowsSound
PROPERTIES
    SuiteEnds
CHECK_DEADLOCK FALSE
