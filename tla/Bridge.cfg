CONSTANTS
    Streams = {ws}
    Workspace = ws
    MaxSeq = 3
    MaxEpoch = 2
    MaxFaults = 2
    Compacts = TRUE
SPECIFICATION FairSpec
INVARIANTS TypeOK NothingSkipped ResubExact
PROPERTIES ReplayOnlyAfterFallback EveryEventRelayed IndicatorFollows Terminates
CHECK_DEADLOCK FALSE
