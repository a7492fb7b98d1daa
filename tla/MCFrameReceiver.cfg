SPECIFICATION FairSpec
CONSTANTS
    bufsz = 7
    Kinds <- MCKinds
    Burst <- MCBurst
    HPLC_DATA_MAX_SIZE = 14
    MaxPolls = 2
    MaxBursts = 2
    MaxOverrun = 2
INVARIANTS Inv RingHoldsNewest BufferIsLine
PROPERTIES HandledOnce FrameHandled StartsAnew
