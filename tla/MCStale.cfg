\* An answer that comes after its call gave up.
CONSTANTS
    QueueCapacity = 4
    AllOrNothing = TRUE
    EventMax = 2
    ClientFrames = {2}
    UseFmq = TRUE
    InPlace = FALSE
    MaxCalls = 2
    BufferSize = 2
SPECIFICATION Spec
INVARIANT OkAnswersThisCall
