CONSTANTS
    Streams = {s1, s2}
    None = None
    Late = {}
    Passing = {}
    MaxSeq = 2
    MaxEpoch = 2
    MaxFaults = 1
    MaxSelects = 2
    Compacts = TRUE
SPECIFICATION Spec
INVARIANTS TypeOK OneSession NothingSkipped TokensNotLost
PROPERTY ReplayOnlyAfterFallback
CHECK_DEADLOCK FALSE
