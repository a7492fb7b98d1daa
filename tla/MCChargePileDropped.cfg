CONSTANTS
    Frames <- MCCycleFrames
    AutoStart = 1
    AutoStop = 1
SPECIFICATION Spec
INVARIANTS
    DroppedIsRepeat
