SPECIFICATION Spec
CONSTANTS
    Id = {a, b}
    Count = 2
    SeqSpace = 3
    Raw = TRUE
    MaxJobs = 2
SYMMETRY Symmetry
INVARIANTS PendingOwned CountedExactly
CHECK_DEADLOCK FALSE
