\* Three calls of append, failing, split or not, between restarts and one change
\* from outside, streamed to two connections with queues of one event.
SPECIFICATION StreamSpec
CONSTANTS
    MaxEvents = 3
    Garbled = Garbled
    NoLine = NoLine
    Connections = {w1, w2}
    QueueSize = 1
    MaxPublished = 3
CHECK_DEADLOCK FALSE
INVARIANTS
    StreamTypeOK
    UntouchedLogVerifies
    ValidLogIsComplete
    TamperingIsDetected
    NoGapWithoutDrop
    StreamedEventsAreLogged
PROPERTIES
    FeedRefined
    EventsReachOpenConnections
