SPECIFICATION Spec
CONSTANTS
    MaxMessages = 1
    Requests <- ContinuationRequests
    Profiles <- AllProfiles
INVARIANTS
    UnprocessableIsRejected
CHECK_DEADLOCK FALSE
