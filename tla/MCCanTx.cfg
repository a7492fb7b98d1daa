CONSTANTS
    Senders <- MCManySenders
    Prio <- MCPrio
    SndBoxNumber = 2
    BusErrors = TRUE
SPECIFICATION Spec
INVARIANTS
    Inv
    BoxesConserved
    ListNotEmpty
    BoxIsFresh
PROPERTIES
    IsTxService
CHECK_DEADLOCK FALSE
