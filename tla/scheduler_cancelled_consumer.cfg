\* Three calls, two of which may wait, and the consumer task is cancelled up to twice: once while a job
\* runs, which it survives, and once more.
CONSTANTS
    Jobs = {j1, j2, j3}
    QueueSize = 2
    MaxConsumerCancels = 2
    None = None
    Stop = Stop
SPECIFICATION Spec
SYMMETRY JobSymmetry
INVARIANTS
    TaskDoneBalanced
    NoJobLost
    NoOvertaking
    AnswerIsTrue
    CloseLeavesNobody
PROPERTIES
    FuturesSettleOnce
    NothingStartsInVain
