\* Overlapping bookings, cancellations and promotions, and the mail jobs behind
\* them, with two attempts that fail, crashes or jobs that run again.
SPECIFICATION PartSpec
CONSTANTS
    u1 = u1
    s1 = s1
    Users = {u1, u2}
    Slots = {s1, s2}
    Capacities <- One
    MaxAttempts = 2
    MaxRequests = 4
    MaxCrashes = 2
    Mailers = {m1, m2}
CHECK_DEADLOCK FALSE
INVARIANTS FulfilmentInductive MailsBounded
PROPERTIES RequestsEnd SeatsRefilled ConfirmedUserGetsMail
