\* One warm-up and one request on a disk that fills.
CONSTANTS
    w1 = w1
    w2 = w2
    Jobs = {w1, w2, r1}
    QueueSize = 1
    MaxConsumerCancels = 0
    None = None
    Stop = Stop
    WarmUps <- TwoWarmUps
    LogBodies = TRUE
SPECIFICATION LifeSpec
INVARIANT HealthAnswers
