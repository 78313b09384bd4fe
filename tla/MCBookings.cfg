\* Three users and three slots: bookings, a cancellation and a promotion overlap.
SPECIFICATION Spec
CONSTANTS
    Users = {u1, u2, u3}
    Slots = {s1, s2, s3}
    Capacities <- OneOrTwo
    MaxAttempts = 2
    MaxRequests = 4
    MaxCrashes = 2
SYMMETRY Interchangeable
CHECK_DEADLOCK FALSE
INVARIANTS TypeOK NoOversell PromotionOwed Promising
PROPERTIES FirstComeFirstServed ImplementsLedger
