\* Two budgeted calls, schema and service retries as in the code; time in
\* units of which the call interval is two.
SPECIFICATION FairSpec
CONSTANTS
    MaxModelCalls = 2
    MaxWallTime = 5
    MaxSchemaRetries = 1
    Interval = 2
    Backoffs <- MCBackoffs
    LongestBackoff = 4
    Latencies <- MCLatencies
    LongestLatency = 3
    LastWork = 36
INVARIANTS
    RequestsBounded
    OvertimeBounded
    RetriesAreEarned
PROPERTIES
    RequestsPaced
    CallEnds
CHECK_DEADLOCK FALSE
