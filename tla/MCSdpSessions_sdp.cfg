SPECIFICATION Spec
CONSTANTS
    MediaTypes = {"audio", "video"}
    Payloads = {0, 96, 97}
    Lines <- MCLines
    MaxLines = 6
INVARIANTS TypeOK ParsedAsWritten SessionAsDescribed
CHECK_DEADLOCK FALSE
