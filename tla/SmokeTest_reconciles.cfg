\* One batch or two, with every anomaly, next to an earlier record and a stray one.
CONSTANTS
    Tenants = {"hot"}
    Times = {1, 2}
    Jitter = 1
    LateMin = 3
    LateMax = 3
    OutOfOrder = 1
    MaxOriginals = 2
    MaxAttempts = 2
    MaxForeign = 1
    MaxReplays = 1
SPECIFICATION Spec
INVARIANTS
    TypeOK
    ReplaysAreVisible
    NormalIsOnTime
    PassMeansArrived
    NoFalseAlarm
CHECK_DEADLOCK FALSE
