SPECIFICATION Spec
CONSTANTS
    Frames <- SomeFrames
    Fetches = {"packet"}
    Waits = {FALSE}
    OutOfMem = TRUE
    Sleeps = 1
    MaxUnits = 3
    MaxCmds = 2
    MaxClbks = 2
INVARIANT TypeOK
INVARIANT CallbackOncePerResponse
PROPERTY FramesWholeOnceInOrder
