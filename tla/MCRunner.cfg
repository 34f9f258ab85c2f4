SPECIFICATION Spec
CONSTANTS
    Caller = {loop, api}
    Key = {"k1", "k2"}
    Wanted <- Changes
    Task = {t1, t2, t3}
    MaxSeries = 2
INVARIANTS NoLeakedTask NoStaleSeries
PROPERTIES ApplyExact
SYMMETRY TaskSymmetry
