\* Two proposals of one cycle, two reviewers; reviews may be edited after commit.
SPECIFICATION Spec
CONSTANTS
    Proposals = {p1, p2}
    Reviewers = {r1, r2}
    MaxCommits = 5
SYMMETRY MCSymmetry
CHECK_DEADLOCK FALSE
PROPERTIES
    CommitmentsBind
    DecisionsStand
