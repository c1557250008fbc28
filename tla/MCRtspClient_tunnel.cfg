SPECIFICATION FairSpec
CONSTANTS
    MediaTypes = {"video"}
    MaxFd = 5
    MaxCSeq = 3
    Tunnel = TRUE
    NoResp = FALSE
    Commands = {"GET", "POST", "DESCRIBE", "SETUP", "PLAY"}
    Codes = {"200", "401"}
    Challenges = {"digest"}
    SessionIDs = {"s1"}
    Timeouts <- MCNoTimeout
INVARIANTS ErrorClosesConnection AnswersOwnRequest
PROPERTIES ClosesOwnDescriptors CommandReturns
