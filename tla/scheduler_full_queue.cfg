\* Three calls: one is computed, one gave up in the queue, one is refused.
CONSTANTS
    Jobs = {j1, j2, j3}
    QueueSize = 1
    MaxConsumerCancels = 0
    None = None
    Stop = Stop
SPECIFICATION Spec
PROPERTY FullMeansWaiting
