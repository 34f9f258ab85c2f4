SPECIFICATION FairSpec
CONSTANTS
    Hash <- Offsets
    Requester <- Loop
    Hosts <- AllHosts
    Frail = {3}
    Node = 1
    Configs <- Limiting
    Inventories <- Blink
    Reloads = TRUE
    MaxRestarts = 0
PROPERTIES UnhealthyReplaced ReloadApplied
