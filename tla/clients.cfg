SPECIFICATION Spec
CONSTANTS
    Addr = {a1, a2}
    MaxChanges = 2
    MaxWatch = 2
    Caller = {c1, c2}
    Lifetimes = {0, 1, 3}
    Forever = 100
    Delta = 2
    MaxClock = 5
INVARIANTS SettledIsCurrent Picking NoWatchLeft TokensAlive
PROPERTIES WatchEnds
CHECK_DEADLOCK FALSE
