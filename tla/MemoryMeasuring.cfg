SPECIFICATION FairSpec
CONSTANTS
    Types <- MCTypes
    Depth <- MCDepth
    MaxDepth = 4
    Nodes <- MCNodes
    Heaps <- MCHeaps
    Roots <- MCRoots
    Ops <- MCOps
    Walkers = {w1, w2}
    Writers = {x1}
    MaxCap = 2
    MaxWrites = 1
    None = None
INVARIANTS
    AccountsForEverything
    ExactWhenCountedOnce
    PoisonComesFromBelow
PROPERTY
    WalksEnd
CHECK_DEADLOCK FALSE
