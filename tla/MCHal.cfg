\* Queues of two blocks and a limit of two timeouts: answers left behind by
\* timeouts can lower the counter more than once.  An FMQ build: an overrun
\* copies input to output.
CONSTANTS
    Depth = 2
    OverrunCopies = TRUE
    TimeoutLimit = 2
SPECIFICATION FairSpec
INVARIANTS TypeOK HandleOwned
PROPERTIES CallbackFillsOutput DeadServiceLatches
