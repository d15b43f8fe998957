SPECIFICATION KeysSpec
CONSTANTS
    Owners = {o1}
    Readers = {}
    MaxEpoch = 3
    MaxEdits = 4
INVARIANT TitleUsesTheGroupKey
CHECK_DEADLOCK FALSE
