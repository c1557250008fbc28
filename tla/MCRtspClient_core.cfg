SPECIFICATION Spec
CONSTANTS
    MediaTypes = {"audio"}
    MaxFd = 4
    MaxCSeq = 4
    Tunnel = FALSE
    NoResp = FALSE
    Commands = {"OPTIONS", "DESCRIBE", "SETUP", "PAUSE", "GET_PARAMETER", "TEARDOWN"}
    Codes = {"200", "401", "40x", "other"}
    Challenges = {"digest", "basic", "none"}
    SessionIDs = {"s1"}
    Timeouts <- MCNoTimeout
INVARIANTS TypeOK OneConnection ErrorClosesConnection AnswersOwnRequest
