\* Up to two tasks, two agents, two faults.
SPECIFICATION Spec
CONSTANTS
    Partial = Partial
    Torn = Torn
    MaxL2 = 1
    MaxL3 = 2
    MaxInvocations = 2
    MaxIdents = 6
    MaxFaults = 2
CHECK_DEADLOCK FALSE
INVARIANTS
    IndexSound
    LineageVerified
    AgentsBounded
PROPERTIES
    Immutable
