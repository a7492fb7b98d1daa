CONSTANTS
    Senders <- MCSenders
    Prio <- MCPrio
    SndBoxNumber = 3
    BusErrors = FALSE
SPECIFICATION FairSpec
PROPERTIES
    SendReturns
CHECK_DEADLOCK FALSE
