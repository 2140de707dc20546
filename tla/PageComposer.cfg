SPECIFICATION FairSpec
CONSTANTS
    MaxSession = 1
    Workspaces = 1
    MaxEvents = 0
PROPERTY ComposerAppears
CHECK_DEADLOCK FALSE
