SPECIFICATION Spec
CONSTANTS
    Kind = {"udp", "connect", "echo"}
    Count = 3
    Interval = 1
    Timeout = 1
    Pieces = 2
    Dur = 3
    MaxNow = 5
    MaxCycles = 2
    MaxFaults = 1
    MaxDups = 1
INVARIANTS CycleExact WindowExact RttFromRead
CHECK_DEADLOCK FALSE
