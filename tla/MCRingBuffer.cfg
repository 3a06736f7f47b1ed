\* Capacity divides IndexMod: the indices wrap any number of times.
CONSTANTS
    Capacity = 3
    IndexMod = 9
    LenMod = 5
    Byte = {"a", "b"}
    MaxSize = 4
SPECIFICATION Spec
INVARIANTS TypeOK RingInv NoDataRace AvailabilityIsPromise CopiesIntact
PROPERTY ImplementsByteQueue
