\* A tab with two calls in flight, and a foreign client; a login with two
\* replacements, or two with one, and any two mishaps.
SPECIFICATION SessionSpec
CONSTANTS
    Tabs = {t1}
    Calls = {c1, c2}
    Slots = {c1, c2, f}
    MaxTokens = 3
    MaxDepth = 2
    MaxMishaps = 2
SYMMETRY Interchangeable
CHECK_DEADLOCK FALSE
INVARIANTS SessionInductive OneLivePerFamily ReplayRevokesChain SessionKept SignOutEndsSession
