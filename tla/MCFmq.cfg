\* Android build: the queues move all or nothing and hold two and a half buffers;
\* crashes, an unwired session and a stuck statistics reader; with fairness.
CONSTANTS
    QueueCapacity = 5
    AllOrNothing = TRUE
    EventMax = 2
    ClientFrames = {2}
    UseFmq = TRUE
    InPlace = FALSE
    MaxCalls = 5
    BufferSize = 2
SPECIFICATION FairSpec
INVARIANTS TypeOK PipeInv BacklogLaw InOrder WholeBlocks PassthroughOnTimeout
           ThreadGoneFirst
PROPERTIES KeepsContract ProcessReturns StopReturns
