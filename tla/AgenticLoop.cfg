\* Every variant and executor, seeded or not, with two retries.
SPECIFICATION Spec
CONSTANTS
    Proposals <- MCProposals
    MaxRetries = 2
    MaxApiRetries = 1
INVARIANTS
    ExecutedWasAllowed
    RecoveredAfterFailure
    FeedbackMatchesHistory
    CallsAccounted
    CountersAgreeWithVerdict
CHECK_DEADLOCK FALSE
