\* Shared-memory build, a client that passes less or more than a buffer.
CONSTANTS
    QueueCapacity = 4
    AllOrNothing = FALSE
    EventMax = 2
    ClientFrames = {1, 3}
    UseFmq = FALSE
    InPlace = FALSE
    MaxCalls = 4
    BufferSize = 2
SPECIFICATION Spec
INVARIANTS GrantsHold InOrder
