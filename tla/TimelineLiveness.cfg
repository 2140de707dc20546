CONSTANTS
    Streams = {s1, s2}
    None = None
    Late = {s1}
    Passing = {s2}
    MaxSeq = 1
    MaxEpoch = 2
    MaxFaults = 1
    MaxSelects = 1
    Compacts = FALSE
SPECIFICATION FairSpec
PROPERTIES SelectionFollowed EveryEventShown Terminates
CHECK_DEADLOCK FALSE
