\* A proposal that raises after an earlier attempt was executed.
SPECIFICATION Spec
CONSTANTS
    Proposals <- MCProposals
    MaxRetries = 2
    MaxApiRetries = 1
INVARIANTS
    EveryAttemptRetained
CHECK_DEADLOCK FALSE
