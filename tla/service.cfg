\* Two threads and a profile of every kind; one thread may make both of its calls
\* before the other begins.
CONSTANTS
    glm = glm
    glmSource = glmSource
    kimi = kimi
    kimi3 = kimi3
    minimax = minimax
    glmGroup = glmGroup
    kimiGroup = kimiGroup
    kimi3Group = kimi3Group
    None = None
    Groups <- MCGroups
    GroupOf <- MCGroupOf
    SourceOf <- MCSourceOf
    Budget <- MCBudget
    DefaultBudget = 64
    Templated <- MCTemplated
    Remote <- MCRemote
    Profiles = {glm, glmSource, kimi, kimi3, minimax}
    t1 = t1
    t2 = t2
    Threads = {t1, t2}
    MaxFirst = 2
    MaxSecond = 1
    MaxCounts <- MCMaxCounts
SPECIFICATION FairSpec
INVARIANTS
    LockedWhileBuilt
    EncodersFit
    LibrariesRestored
PROPERTIES
    RenderersStay
    EveryCountReturns
