\* Two processes, two faults, none of which leaves a readable unterminated line.
SPECIFICATION Spec
CONSTANTS
    gate = gate
    child = child
    NoProc = NoProc
    Procs <- MCProcs
    Keeper = gate
    Jobs <- SomeJobs
    ShortWrites = {"torn"}
    MaxCalls = 4
    MaxFaults = 2
INVARIANTS
    ChainUnbroken
PROPERTIES
    ImplementsEvidenceLog
CHECK_DEADLOCK FALSE
