\* Two originals that may have duplicates, a queue of two, one partition, in
\* which reports come in any order.
CONSTANTS
    p1 = p1
    Partitions = {p1}
    Count = 2
    Capacity = 2
SPECIFICATION FairSpec
INVARIANTS
    TypeOK
    Balanced
    ExitZeroMeansStored
    RangesCoverAcks
PROPERTIES
    Terminates
CHECK_DEADLOCK FALSE
