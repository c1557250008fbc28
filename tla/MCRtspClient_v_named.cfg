SPECIFICATION Spec
CONSTANTS
    MediaTypes = {"audio", "video"}
    MaxFd = 4
    MaxCSeq = 7
    Tunnel = FALSE
    NoResp = FALSE
    Commands = {"DESCRIBE", "SETUP", "PLAY", "TEARDOWN"}
    Codes = {"200"}
    Challenges = {"digest"}
    SessionIDs = {"s1"}
    Timeouts <- MCNoTimeout
PROPERTIES TeardownNamedSession
