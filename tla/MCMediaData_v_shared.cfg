SPECIFICATION Spec
CONSTANTS
    Medias = {"audio", "video"}
    FrameTypes <- MCFrameTypes
    Shapes <- MCShapes
    Thread <- TwoThreads
    MaxSize = 12
    XPSSize = 3
    VideoBufferSize = 7
    SizeT = 100
    MaxUnits <- MCUnits
    MaxFaults <- NoFaults
\* The process may die.
CHECK_DEADLOCK FALSE
INVARIANT OwnMedia
