SPECIFICATION Spec
CONSTANTS
    a = a
    b = b
    NoId = NoId
    CallIds = {a, b}
    MaxShort = 2
    MaxLong = 2
    Conversations <- MCConversations
INVARIANTS
    IndexInRange
CHECK_DEADLOCK FALSE
