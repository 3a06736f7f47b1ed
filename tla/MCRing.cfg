\* Fallback build: partial transfers, an eventfd that saturates at once, and
\* processing in place.
CONSTANTS
    QueueCapacity = 5
    AllOrNothing = FALSE
    EventMax = 1
    ClientFrames = {2}
    UseFmq = TRUE
    InPlace = TRUE
    MaxCalls = 5
    BufferSize = 2
SPECIFICATION Spec
INVARIANTS NoWedge NoShortReads InOrder
PROPERTY KeepsContract
