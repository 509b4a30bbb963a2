\* Two calls: the timer of the second races the end of the first.
CONSTANTS
    Jobs = {j1, j2}
    QueueSize = 1
    MaxConsumerCancels = 0
    None = None
    Stop = Stop
SPECIFICATION Spec
INVARIANT TimedOutNeverExecutes
