\* A patch lowers the capacity below the confirmed bookings.
SPECIFICATION EventsSpec
CONSTANTS
    Users = {u1, u2}
    Slots = {s1}
    Capacities <- Two
    NewCapacities <- One
    Readers = {}
    Editors = {e1}
    MaxAttempts = 1
    MaxRequests = 2
    MaxCrashes = 0
    MaxEdits = 1
CHECK_DEADLOCK FALSE
INVARIANT NoOversell
