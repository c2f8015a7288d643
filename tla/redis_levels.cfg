SPECIFICATION Spec
CONSTANTS
    Caller = {c1, c2}
    Val = {v1, v2}
    NoVal = noVal
    Garbage = garbage
    Text = FALSE
INVARIANTS Coherent OneFlight
PROPERTIES EveryCallReturns
CHECK_DEADLOCK FALSE
