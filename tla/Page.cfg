SPECIFICATION FairSpec
CONSTANTS
    MaxSession = 2
    Workspaces = 2
    MaxEvents = 1
INVARIANTS TypeOK OneFailurePerLoss
PROPERTY PageSettles
CHECK_DEADLOCK FALSE
