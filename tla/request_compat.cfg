SPECIFICATION Spec
CONSTANTS
    MaxMessages = 2
    Requests <- AllRequests
    Profiles <- AllProfiles
INVARIANTS
    FirstOpinionDecides
    ContinuationUnited
    NormalizedOnce
CHECK_DEADLOCK FALSE
