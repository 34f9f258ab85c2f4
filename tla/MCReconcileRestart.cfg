SPECIFICATION Spec
CONSTANTS
    Hash <- Offsets
    Requester <- Loop
    Hosts <- AllHosts
    Frail = {}
    Node = 1
    Configs <- JustPlain
    Inventories <- JustFull
    Reloads = FALSE
    MaxRestarts = 1
PROPERTY TasksFollow
