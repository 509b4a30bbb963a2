\* Two warm-ups and two requests; the disk fills once and may be freed; a second
\* signal lets asyncio.run cancel the consumer once.
CONSTANTS
    w1 = w1
    w2 = w2
    Jobs = {w1, w2, r1, r2}
    QueueSize = 1
    MaxConsumerCancels = 1
    None = None
    Stop = Stop
    WarmUps <- TwoWarmUps
    LogBodies = FALSE
SPECIFICATION FairLifeSpec
INVARIANTS
    ServingIsHealthy
    EndMeetsNobody
    LineIsTrue
    EverythingReleased
PROPERTIES
    LifespanMovesOn
    EveryRequestEnds
