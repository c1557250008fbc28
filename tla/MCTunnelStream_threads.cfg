SPECIFICATION FairSpec
CONSTANTS
    Frames <- LiveFrames
    Fetches = {"data"}
    Waits = {TRUE, FALSE}
    OutOfMem = FALSE
    Sleeps = 1
    MaxUnits = 2
    MaxCmds = 2
    MaxClbks = 1
INVARIANT OneReader
PROPERTY FramesArrive
PROPERTY CommandGetsSocket
