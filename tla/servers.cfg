SPECIFICATION ServersSpec
CONSTANTS
    Server = {s1, s2}
    Actor = {a1, a2, a3}
    Error = {none, e1, e2}
    MaxRequest = 2
INVARIANTS Orderly Outcome GroupResult WebStopped
PROPERTIES ShutdownCompletes GroupReturns WebRunReturns
CHECK_DEADLOCK FALSE
