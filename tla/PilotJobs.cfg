\* Two submissions with a watcher, one fault, and stop_and_freeze on the first.
SPECIFICATION FairSpec
CONSTANTS
    Jobs <- MCJobs
    Watched = "pilot"
    Variants = 1
    Mortal = {"pilot"}
    MaxPolls = 2
    MaxFaults = 1
INVARIANTS
    FrozenWhenOver
    ManifestsVouch
PROPERTIES
    OnlyOverlapsLoseRows
    TerminalIsMarked
CHECK_DEADLOCK FALSE
