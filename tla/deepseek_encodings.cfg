SPECIFICATION Spec
CONSTANTS
    a = a
    b = b
    NoId = NoId
    CallIds = {a, b}
    MaxShort = 2
    MaxLong = 4
    Conversations <- MCConversations
INVARIANTS
    TypeOK
    EveryMessageOnce
    OnlyResultsMove
    ResultsInCallOrder
    ThinkingIsClosed
    ReasoningOfTheLastTurn
CHECK_DEADLOCK FALSE
