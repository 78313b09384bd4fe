\* Clearing the filters, with nothing else moving.
SPECIFICATION CatalogAlone
CONSTANTS
    Attempts = {a1, a2}
    TicksPerSecond = 3
    RateLimit = 3
    RateWindow = 3
    MaxFailures = 2
    FailureWindow = 6
    LockTTL = 3
    MaxTime = 6
    MaxRedisFaults = 1
    Work = {w1, w2}
    Checks = {k1, k2}
    MaxMigrations = 3
    RetryBase = 10
    RetryMax = 15
    PollBase = 2
    PollMax = 7
    MinBeat = 2
    BeatTTLs = {4, 9}
    MaxUpsets = 2
    all = all
    some = some
    Filters = {all, some}
    All = all
    PagesOf <- TwoPages
    MaxLoads = 2
    first = first
    second = second
    js1 = js1
    js2 = js2
    css = css
    Deployments = {first, second}
    Assets = {js1, js2, css}
    Uses <- SharedStyle
    None = none
    File = file
CHECK_DEADLOCK FALSE
INVARIANT ClearShowsAll
