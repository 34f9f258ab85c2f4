SPECIFICATION FairSpec
CONSTANTS
    Prober = {p1}
    ID = {n1, n2}
    Slot = {s1, s2}
    None = none
    Hello <- Hellos
INVARIANTS WaitersMatch JobsOwned
PROPERTIES Answered
CHECK_DEADLOCK FALSE
