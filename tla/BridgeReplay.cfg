CONSTANTS
    Streams = {ws}
    Workspace = ws
    MaxSeq = 2
    MaxEpoch = 2
    MaxFaults = 2
    Compacts = FALSE
SPECIFICATION Spec
PROPERTY ReplayOnlyAfterRefusal
CHECK_DEADLOCK FALSE
