\* Every way in which a short write can end, and liveness.
SPECIFICATION FairSpec
CONSTANTS
    gate = gate
    child = child
    NoProc = NoProc
    Procs <- MCProcs
    Keeper = gate
    Jobs <- SomeJobs
    ShortWrites = {"torn", "open"}
    MaxCalls = 4
    MaxFaults = 1
INVARIANTS
    TerminalNeverOverclaims
    LatePersistValidates
PROPERTIES
    ReadsOnlyGrow
    TerminalSeals
    CallsReturn
CHECK_DEADLOCK FALSE
