\* A reader stores an old detail after the invalidation.
SPECIFICATION Spec
CONSTANTS
    Readers = {c1, c2}
    Writers = {w1}
    Polls = 1
    MaxWrites = 1
    MaxFaults = 0
CHECK_DEADLOCK FALSE
INVARIANT DetailsFresh
