CONSTANTS
    Frames <- MCFrames
    AutoStart = 1
    AutoStop = 2
SPECIFICATION FairSpec
INVARIANTS
    Inv
    CommandedFramesOnly
    AtMostOnePost
    ChargingIsMarked
    AwaitedNotDropped
PROPERTIES
    HandshakeCompletes
