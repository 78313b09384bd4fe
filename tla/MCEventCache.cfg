\* Two readers under the miss locks, a write, and a fault: a call that fails or
\* a lock owner that stops.
SPECIFICATION FairSpec
CONSTANTS
    Readers = {c1, c2}
    Writers = {w1}
    Polls = 1
    MaxWrites = 1
    MaxFaults = 1
CHECK_DEADLOCK FALSE
INVARIANTS TypeOK CacheInductive OwnersHoldLock ListsFresh
PROPERTY ReadsAnswered
