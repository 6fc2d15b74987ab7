\* The call order in which decide() follows a reveal that raised.
SPECIFICATION Spec
CONSTANTS
    Proposals = {p1}
    Reviewers = {r1, r2}
    MaxCommits = 3
SYMMETRY MCSymmetry
CHECK_DEADLOCK FALSE
INVARIANTS
    DecidedAfterReveal
