\* Fallback build: a buffer made of the inputs of two calls.
CONSTANTS
    QueueCapacity = 3
    AllOrNothing = FALSE
    EventMax = 2
    ClientFrames = {2}
    UseFmq = TRUE
    InPlace = FALSE
    MaxCalls = 3
    BufferSize = 2
SPECIFICATION Spec
INVARIANT BuffersWhole
