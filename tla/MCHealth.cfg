SPECIFICATION Spec
CONSTANTS
    Host = {h1}
    Configs <- TwoConfigs
    MaxCount = 2
    MaxTime = 4
    ClockLag = 1
INVARIANTS PendingTimed FlapBounded DeadlinesExact CooldownEnds
PROPERTIES ReleaseJustified
