CONSTANTS
    Nodes <- MCNodes
    FifoDepth = 2
    MaxFrames = 6
SPECIFICATION FairSpec
INVARIANTS
    Inv
    NodesConserved
    InOrderOnce
    WakeupNotLost
PROPERTIES
    IsRxQueue
    NewestIsHandled
