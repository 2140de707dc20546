CONSTANTS
    Polls = {p}
    Clicks = {c}
    Sessions = {s1, s2}
    None = None
    PerSession = 1
    MaxFaults = 1
SPECIFICATION FairSpec
INVARIANTS TypeOK OnlyFocused OneConnection
PROPERTY ApprovalShown
CHECK_DEADLOCK FALSE
