CONSTANTS
    a = a
    b = b
    x = x
    get = get
    put = put
    Nothing = Nothing
    CallIds = {a, b, x}
    Names = {get, put}
    d = d
    e = e
    DefNames = {d, e}
    MaxShort = 2
    MaxLong = 4
    MaxLexemes = 4
    MaxSchema = 3
    MaxText = 9
    MaxChars = 5
    MaxRun = 2
    Requests <- MCRequests
    ToolLists <- MCToolLists
    Bodies <- MCBodies
    Inputs <- MCInputs
SPECIFICATION MCSpec
CHECK_DEADLOCK FALSE
INVARIANTS
    EveryMessageOnce
    ResultsFollowCalls
    IndexNamesTheCall
    ArgumentsAreTheObject
    ControlsTellTheConversation
    ReferencesAreDeclared
    DeclaredInOneForm
    PiecesAreTheText
    CutsAreNeeded
