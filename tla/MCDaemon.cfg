SPECIFICATION Spec
CONSTANTS
    z1 = z1
    z2 = z2
    s1 = s1
    s2 = s2
    p1 = p1
    p2 = p2
    empty = empty
    full = full
    Zone <- MCZone
    Slots <- MCSlots
    Probes <- MCProbes
    Config <- MCConfig
    Rejected <- MCRejected
    Uncompilable <- MCUncompilable
    Inventory <- MCInventory
    Empty = empty
    Pairs <- MCPairs
    None = none
    Found <- MCFound
    MaxEdits = 2
    MaxChanges = 1
    MaxFaults = 1
INVARIANTS LatestDelivered TriggersServed
PROPERTIES EditApplied
