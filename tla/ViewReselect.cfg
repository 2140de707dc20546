SPECIFICATION Spec
CONSTANTS
    Sessions = {s1, s2}
    None = None
    Contents = {a}
    Payloads <- MCPayloads
    MaxArtifacts = 2
    Cap = 2
    MaxBlocks = 1
    MaxTurns = 2
    MaxClicks = 1
    MaxDrops = 0
INVARIANT SelectionShown
CHECK_DEADLOCK FALSE
