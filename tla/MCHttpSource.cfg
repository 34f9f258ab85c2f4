SPECIFICATION Spec
CONSTANTS
    Url = {u1, u2}
    None = None
    MaxVersion = 2
    MaxChanges = 2
    MaxFaults = 2
    MaxRestarts = 2
INVARIANTS NotModifiedTruthful OperationalFirst
PROPERTIES Converges
