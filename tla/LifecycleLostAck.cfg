\* A short write that loses only the newline.
SPECIFICATION Spec
CONSTANTS
    gate = gate
    child = child
    NoProc = NoProc
    Procs <- MCProcs
    Keeper = gate
    Jobs <- SomeJobs
    ShortWrites = {"open"}
    MaxCalls = 3
    MaxFaults = 1
INVARIANTS
    AckedReadable
CHECK_DEADLOCK FALSE
