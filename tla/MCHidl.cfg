\* Two sessions, queues of one and a half buffers; a destroyed service stops.
CONSTANTS
    Width = 2
    QueueCapacity = 3
    BufferSize = 2
SPECIFICATION FairSpec
INVARIANTS ThreadsOwned NoTerminate StateIsTruthful TransfersSucceed
PROPERTY CallsReturn
CHECK_DEADLOCK FALSE
