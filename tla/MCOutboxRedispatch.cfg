\* A delivered row is dispatched again.
SPECIFICATION Spec
CONSTANTS
    Rows = {r1}
    Workers = {w1}
    JobAttempts = 2
    MaxFaults = 0
CHECK_DEADLOCK FALSE
PROPERTY OnlyStaleRedispatched
