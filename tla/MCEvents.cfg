\* Two users book, cancel and are promoted while one organizer edits twice and
\* one reader fills the cached detail.
SPECIFICATION EventsSpec
CONSTANTS
    Users = {u1, u2}
    Slots = {s1, s2}
    Capacities <- One
    NewCapacities <- OneOrTwo
    Readers = {g1}
    Editors = {e1}
    MaxAttempts = 1
    MaxRequests = 3
    MaxCrashes = 1
    MaxEdits = 2
SYMMETRY Interchangeable
CHECK_DEADLOCK FALSE
INVARIANTS EventsInductive OversoldOnlyByRacedPatch
