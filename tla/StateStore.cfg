SPECIFICATION FairSpec
CONSTANTS
    Updaters = {loop, api}
    Debounce = 2
    MaxDelay = 3
    MaxVersion = 3
    MaxFailures = 1
    MaxCrashes = 1
INVARIANT CleanIsDurable
PROPERTIES ImplementsDurableState ChurnCannotStarve EventuallyDurable
CHECK_DEADLOCK FALSE
