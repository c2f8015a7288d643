SPECIFICATION PSpec
CONSTANTS
    SlotNum = 3
    Interval = 2
    Key = {k1}
    NilKey = nilKey
    Data = {d1}
    Delay <- MCDelay
    Addr = {a1, a2, a3}
    NoAddr = noAddr
INVARIANT ResetToGivenDelay
CHECK_DEADLOCK FALSE
