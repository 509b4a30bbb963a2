\* Three calls, a queue of one, no timer or cancellation that has to happen, and
\* nothing cancels the consumer.
CONSTANTS
    Jobs = {j1, j2, j3}
    QueueSize = 1
    MaxConsumerCancels = 0
    None = None
    Stop = Stop
SPECIFICATION FairSpec
INVARIANT BusyThreadIsWatched
PROPERTIES
    EveryCallAnswered
    CloseReturns
    ImplementsSerialExecution
