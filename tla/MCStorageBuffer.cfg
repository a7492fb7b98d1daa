SPECIFICATION Spec
CONSTANTS
    Threads = {"meter", "bluetooth", "tshell"}
    Callers = {"meter", "bluetooth"}
    Users = {"tshell"}
    Blocks = {b1, b2}
    NULL = NULL
    NoThread = NoThread
    MaxOps = 1
    Mutexes <- MCMutexes
    Rank <- MCRank
    Prio <- MCPrio
INVARIANT BufferWhenInside
