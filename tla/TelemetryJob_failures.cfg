\* Both graphs and the switch between them: two splits, two subtasks.
CONSTANTS
    p1 = p1
    p2 = p2
    s1 = s1
    s2 = s2
    hot = hot
    cold = cold
    Malformed = Malformed
    Raising = Raising
    HotTenant = hot
    Partitions = {p1, p2}
    Subtasks = {s1, s2}
    Tenants = {hot}
    SplitOwner <- MCSplitOwner
    KeyOwner <- MCKeyOwner
    RestartAttempts = 1
    MaxRetries = 1
    Modes = {TRUE, FALSE}
    MaxRecords = 1
SPECIFICATION Spec
INVARIANTS
    TypeOK
    DeliveryInv
    CountsMatchOffsets
    ReplaysHaveACause
PROPERTIES
    DeliverySpec
