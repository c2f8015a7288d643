SPECIFICATION Spec
CONSTANTS
    Caller = {c1, c2}
    Val = {v1, v2}
    NoVal = noVal
    Garbage = garbage
    Text = TRUE
INVARIANT RoundTrip
CHECK_DEADLOCK FALSE
