SPECIFICATION Spec
CONSTANTS
    Hash <- Offsets
    Requester <- Loop
    Hosts <- AllHosts
    Frail = {2, 4}
    Node = 1
    Configs <- Varied
    Inventories <- Churn
    Reloads = FALSE
    MaxRestarts = 1
INVARIANTS AnchorsTogether DiverseIndependent IntraApart NoStaleTask
PROPERTIES KeepsValidSides Assigns SecondRunEmpty SuperSticky
