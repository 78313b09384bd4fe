\* Two worker processes share a row; any two faults.
SPECIFICATION FairSpec
CONSTANTS
    Rows = {r1}
    Workers = {w1, w2}
    JobAttempts = 2
    MaxFaults = 2
CHECK_DEADLOCK FALSE
INVARIANTS TypeOK OutboxInductive OnceWhileRemembered SentWasExecuted FailedWasNotExecuted
PROPERTIES IntentSurvives RowsSettle
