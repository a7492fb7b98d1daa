SPECIFICATION FairSpec
CONSTANTS
    Threads = {"meter", "bluetooth", "tshell"}
    Callers = {"meter", "bluetooth"}
    Users = {"tshell"}
    Blocks = {b1, b2, b3}
    NULL = NULL
    NoThread = NoThread
    MaxOps = 2
    Mutexes <- MCMutexes
    Rank <- MCRank
    Prio <- MCPrio
INVARIANTS Inv PriorityRestored NoUseAfterFree NoDeadlock
PROPERTIES MutexSpec CallReturns
