SPECIFICATION Spec
CONSTANTS
    MediaTypes = {"audio", "video"}
    MaxFd = 3
    MaxCSeq = 7
    Tunnel = FALSE
    NoResp = FALSE
    Commands = {"DESCRIBE", "SETUP", "TEARDOWN"}
    Codes = {"200"}
    Challenges = {"digest"}
    SessionIDs = {"s1", "s2"}
    Timeouts <- MCNoTimeout
PROPERTIES TeardownUniqueSession TeardownAllSessions
