CONSTANTS
    ToolIDs = {t1}
    NoID = NoID
    Names = {read, edit}
    EditNames = {edit}
    NoName = NoName
    Alphabets <- MCToolAlphabet
    MaxEvents = 3
    MaxReplays = 1
SPECIFICATION Spec
INVARIANT CardsAgreeAfterReplay
CHECK_DEADLOCK FALSE
