CONSTANTS
    ToolIDs = {t1, t2}
    NoID = NoID
    Names = {read, edit}
    EditNames = {edit}
    NoName = NoName
    Alphabets <- MCAlphabets
    MaxEvents = 5
    MaxReplays = 1
SPECIFICATION Spec
SYMMETRY IDSymmetry
INVARIANTS TypeOK Coalesced Complete UsageLatest ToolsCorrect CardsAgree
CHECK_DEADLOCK FALSE
