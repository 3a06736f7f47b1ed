\* Shared-memory build: a full input queue.
CONSTANTS
    QueueCapacity = 4
    AllOrNothing = FALSE
    EventMax = 2
    ClientFrames = {2}
    UseFmq = FALSE
    InPlace = FALSE
    MaxCalls = 3
    BufferSize = 2
SPECIFICATION Spec
INVARIANT PassthroughOnTimeout
