SPECIFICATION Spec
CONSTANTS
    Sessions = {s1, s2}
    None = None
    Contents = {a, b}
    Payloads <- MCPayloads
    MaxArtifacts = 2
    Cap = 2
    MaxBlocks = 2
    MaxTurns = 2
    MaxClicks = 1
    MaxDrops = 1
INVARIANTS TypeOK BlocksAccounted StoreOK ShownPreviewLoads
PROPERTY StoreRefines
SYMMETRY MCSymmetry
CHECK_DEADLOCK FALSE
