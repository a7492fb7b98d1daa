CONSTANTS
    Senders <- MCSenders
    Prio <- MCPrio
    SndBoxNumber = 3
    BusErrors = FALSE
SPECIFICATION Spec
INVARIANTS
    OwnHeader
CHECK_DEADLOCK FALSE
