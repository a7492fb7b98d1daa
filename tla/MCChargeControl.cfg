CONSTANTS
    Threads <- MCThreads
    Prio <- MCPrio
    MaxFrames = 2
    MaxReports = 2
SPECIFICATION FairSpec
INVARIANTS
    Inv
    ReportUsedOnce
    AnswersAccounted
    WaitsForWorker
PROPERTIES
    AloneIsTaken
    ReportIsRelayed
    AnswerIsPacked
