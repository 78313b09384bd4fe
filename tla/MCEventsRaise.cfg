\* A patch raises the capacity of a full event with a waitlist.
SPECIFICATION FairEventsSpec
CONSTANTS
    Users = {u1, u2}
    Slots = {s1}
    Capacities <- One
    NewCapacities <- Two
    Readers = {}
    Editors = {e1}
    MaxAttempts = 1
    MaxRequests = 2
    MaxCrashes = 0
    MaxEdits = 1
CHECK_DEADLOCK FALSE
PROPERTY SeatsRefilled
