\* The keyed graph under the fairness of its threads: two records, two tenants.
CONSTANTS
    p1 = p1
    p2 = p2
    s1 = s1
    s2 = s2
    hot = hot
    cold = cold
    Malformed = Malformed
    Raising = Raising
    HotTenant = hot
    Partitions = {p1}
    Subtasks = {s1, s2}
    Tenants = {hot, cold}
    SplitOwner <- MCSplitOwner
    KeyOwner <- MCKeyOwner
    RestartAttempts = 1
    MaxRetries = 0
    Modes = {TRUE}
    MaxRecords = 2
SPECIFICATION FairSpec
INVARIANTS
    AtLeastOnce
    CommittedIsDurable
    HotGaugeIsCurrent
PROPERTIES
    EventuallyDurable
