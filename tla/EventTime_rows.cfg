\* Three splits in two source subtasks, behind a shuffle; one time before 1970.
CONSTANTS
    p1 = p1
    p2 = p2
    p3 = p3
    s1 = s1
    s2 = s2
    Splits = {p1, p2, p3}
    Subtasks = {s1, s2}
    Owner <- MCOwner
    Edges <- MCEdges
    Times <- MCTimes
    OutOfOrder = 1
    LongMin <- MCLongMin
    MaxRecords = 3
SPECIFICATION Spec
INVARIANTS
    TypeOK
    WaitsForEverySplit
    LateHasACause
SYMMETRY Symmetry
CHECK_DEADLOCK FALSE
