SPECIFICATION Spec
CONSTANTS
    Frames <- NoFrames
    Fetches = {"data"}
    Waits = {FALSE}
    OutOfMem = FALSE
    Sleeps = 1
    MaxUnits = 1
    MaxCmds = 1
    MaxClbks = 1
PROPERTY CallbackLeavesUsed
