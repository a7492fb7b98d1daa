CONSTANTS
    Threads <- MCThreads
    Prio <- MCPrio
    MaxFrames = 2
    MaxReports = 2
SPECIFICATION Spec
INVARIANTS MutualExclusion
