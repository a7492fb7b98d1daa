CONSTANTS
    Threads <- MCThreads
    Prio <- MCPrio
    Events <- MCEvents
    CallsOf <- MCCallsOf
SPECIFICATION FairSpec
INVARIANTS
    Inv
    MutualExclusion
PROPERTIES
    IsEventWord
    LockReleased
