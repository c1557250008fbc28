SPECIFICATION Spec
CONSTANTS
    Medias = {"audio", "video"}
    FrameTypes <- MCFrameTypes
    Shapes <- MCShapes
    Thread <- OneThread
    MaxSize = 12
    XPSSize = 3
    VideoBufferSize = 7
    SizeT = 100
    MaxUnits <- MCUnits
    MaxFaults <- MCFaults
\* The process may die.
CHECK_DEADLOCK FALSE
INVARIANTS TypeOK OwnMedia DamageContained ExactWithoutFaults ParametersOnce OverrunBounded
           
