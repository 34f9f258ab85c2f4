SPECIFICATION Spec
CONSTANTS
    Source = {"file", "http"}
    Documents <- Polled
    Off = off
    None = none
    Wanted <- Reloads
    Instance = {i1, i2, i3}
    MaxGiveUps = 1
INVARIANTS SnapshotFaithful SingleWriter HostsOwned
PROPERTIES AppliedExact
SYMMETRY InstanceSymmetry
